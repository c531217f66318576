# Kwami API: TLA+ specifications, model checking and proofs

The Kwami API is the FastAPI service behind a voice assistant: it sells and meters
credits, opens LiveKit rooms, runs reminders and reports on a clock, funds custody
wallets, and connects telephony, e-mail, Google and the user's PC.  Its state is in
Postgres, reached over PostgREST one call at a time; there is no transaction that spans
two calls.  Requests run as coroutines on several workers and machines, so **between any
two database calls of a handler anything else may happen**, including its own retry, and a
handler may end between them.  That is the subject of these modules.

## 1. Inventory

| Component | State it keeps | Operations | What makes it hard | What makes it correct |
|---|---|---|---|---|
| Credit ledger (`migrations/001`, `017`, `services/credits.py`) | `user_credits`, `credit_transactions`, unique index over idempotency keys | `add_credits`, `deduct_credits`, sign-up trigger, `get_balance` (inserts a missing row) | concurrent functions on one row; keys claimed before the balance moves; users older than the bonus trigger | no negative balance; ledger explains every balance; one row per key; functions atomic and free of deadlock |
| Usage settlement (`services/credits.py`) | `usage_reports`, `credit_usage_logs`, day-fee keys in `usage_reports` | `process_usage_report` | redelivery during handling, death after the claim, stale balance, midnight | a report charged once, rows add up, day fee once, a claimed report is settled |
| Stripe payments (`services/stripe_service.py`, `services/idempotency.py`) | `payment_events` | webhook: credit a checkout, claw back a refund, record outcome | at-least-once delivery in any order, two events for one payment and for one refund, lost answers | one credit per payment, nothing credited unpaid, one debit per event, paid is credited |
| Wallet funding (`services/wallet_service.py`, `migrations/010`, `016`) | `wallet_funding_intents`, `wallet_funding_events`, `wallet_transactions`, `wallet_balances_cache` | create intent, settle on webhook, create wallet | five writes per settlement, optional event id, signature and quote | one intent per key, one credit per deposit, confirmed implies credited |
| Assistant tasks and scheduler (`services/assistant_scheduler.py`, `assistant_service.py`, `migrations/020`, `021`) | `kwami_assistant_tasks`, `_settings`, `_notifications`, `brain_jobs` | `tick` on every machine, task and settings requests | several machines find the same task; user edits between read and claim; death between claim and delivery; limit per tick | one act per occurrence, nothing for a closed task, due is told |
| Work for the user's PC (`services/pc_service.py`, `migrations/021`, `027`, `028`) | `brain_jobs`, `brain_orders`, `brain_runners` | place order, claim by runner, report, cancel, sites | two processes look at once and skip what the other has locked; an order and its site are two inserts | an order is run once, oldest first, on its user's PC; a listed site was ordered |
| Rooms and tokens (`services/sessions.py`, `routes/token.py`, `livekit.py`) | `livekit_sessions`, LiveKit rooms | claim a room name, check the balance, mint a token, dispatch | check then act on names and balances | all tokens of a room are one user's, its owner is never refused, no token on an unread balance |
| Google accounts (`services/google_service.py`, `google_workspace.py`, `google_worker.py`) | `kwami_google_accounts`, token cache in the process, OAuth state | link, refresh, choose default, disconnect | refresh in flight during disconnect; several accounts, one default | a request reaches the account it names; a disconnected account is out of reach; the work thread sends nothing and looks before it puts something into a file |
| Channels and telephony (`services/channels.py`, `telephony.py`, `twilio_service.py`, `routes/webhooks.py`) | `kwami_channels`, contacts, conversations, events; Twilio numbers, LiveKit trunks | buy and release a number, send, call, inbound and status webhooks | redelivery, several providers in one request, shared trunk lists written back whole | what Twilio was thanked for is stored once, threads do not mix, rows outlive numbers |
| E-mail (`services/email_service.py`, `sendgrid_service.py`) | accounts, messages | activate, inbound webhook, send | user-name race, redelivery | a name has one owner, what SendGrid was thanked for is stored, no mail outlives its account |
| Provider keys (`services/provider_keys_service.py`) | `kwami_provider_keys` | check and store, delete | key removed while a session uses it | billing follows the key at settlement |
| Pricing (`services/pricing.py`) | none | price of a usage item | float noise, spellings of providers, turns reported as tokens or minutes | the price does not depend on spelling, noise, caching or the way a turn is reported; the report says what the rows say |
| Reconciliation (`services/admin_reconciliation.py`, `migrations/004`) | invoices, runs | import invoice lines by hand or from an API, run a comparison page by page | both tables grow while they are paged; three writes per outcome | no row missed, totals true, what says completed is whole |
| Browser contexts (`services/browser_sessions.py`, `migrations/018`) | `browser_contexts` | look up, save and clear the handle of a browser profile | two sessions of one owner start together; a save races a clear | one profile per owner and vendor, a cleared one never opens again |
| Wallet custody, memory, calendar, contacts, voices, rate limits, configuration | none, an external service, single rows or caches | single calls | little | not modelled, see section 8 |

Interactions: usage settlement, Stripe and wallet funding all write the ledger, only
through its SQL functions.  Settlement reads `kwami_provider_keys`, written by the provider
routes.  The scheduler inserts `brain_jobs` that the user's PC runs, and reads their end.
Channels carry the scheduler's messages.  Token minting reads the balance all the others
move.

## 2. Modules

| Module | Builds on | Models |
|---|---|---|
| `CreditLedger` | standard modules | the two ledger tables and the SQL functions, each one atomic step |
| `LedgerTransactions` | instance of `CreditLedger` | the same functions statement by statement, under Postgres' locks, with rollback |
| `UsageSettlement` | `CreditLedger` | `process_usage_report`, a step per database call |
| `StripePayments` | `CreditLedger` | the webhook handler and its `payment_events` claim; Stripe as environment |
| `WalletFunding` | `CreditLedger` | intents and their settlement; the wallet provider as environment |
| `AssistantScheduler` | standard modules | the tick of every machine, the task and settings requests |
| `Reconciliation` | standard modules | imports of invoices and the run that compares them with usage rows |
| `GoogleCalls` | standard modules | every route and worker action as the sequence of calls it makes to Google |
| `GoogleLink` | `GoogleCalls` | consent, linked accounts, token caches per process, refresh, disconnection |
| `PhoneLines` | standard modules | buying and releasing a number: Twilio, the LiveKit trunks, the rows |
| `Messaging` | standard modules | messages and calls in and out, contacts, conversations, status callbacks |
| `Mailbox` | standard modules | addresses taken and given up, mail in and out |
| `Rooms` | standard modules | a token request: kwami, room, balance, token |
| `PcWork` | standard modules | orders for the user's PC and `brain_claim_job` under `SKIP LOCKED` |
| `Profiles` | standard modules | handles of browser profiles, over concurrent sessions |
| `Pricing` | standard modules | what an item costs and is charged, the rows of a session, the report of margins |
| `...Proofs` | the module of that name, `TLAPS` | theorems (section 6); `ServicesProofs` those of `Rooms`, `PcWork`, `Profiles`, `Pricing` and `GoogleLink`, `CommunicationsProofs` those of `PhoneLines`, `Messaging`, `Mailbox` and the run that puts them together |
| `MC...` | the module or modules of the run | values of the constants for TLC |

State is named after the table or field it stands for.  An action is a handler's segment
from one database or provider call to the next: `pc` (or `at`) in `handler`, `machine`,
`runner`, `job`, `line`, `clerk` or `txn` says which call comes next, the rest of the record
holds the local variables the handler carries across the `await`.  The money modules extend
`CreditLedger` and call its actions as the code calls the SQL functions, so their ledger is
the one that is proved about.

Correspondence in brief:

* **Ledger.** `AddCredits` is `add_credits` as migration 017 leaves it (claim the key by
  inserting the ledger row, upsert the balance, patch the row); `DeductCredits` the
  `UPDATE ... WHERE balance >= amount`; `SignUp` the trigger; `EnsureRow` the insert in
  `get_balance`.  In `LedgerTransactions`, `KeyLocked` and `RowLocked` are the unique-index
  and row locks, and `Commit` publishes what a session has written.
* **Usage.** `Find`, `Claim`, `Refind` are the look-up and insert of `usage_reports`;
  `ReadKeys`, `ReadToday`, `ClaimDayFee` price own-key sessions; `LogItem` writes the rows;
  `GetBalance`, `EnsureBalance`, `DeductOk`, `DeductRefused` charge; `AllocateItem` settles
  the rows; `Finalize` stores and answers.  `Fail` is any raising call or death.
* **Stripe.** `Deliver`, `Claim`, `Dispatch` open a delivery; `Credit` handles a checkout;
  `LookupPurchase`, `ReadBalance`, `ClawBack` a refund; `Complete` and `MarkFailed` are
  `complete_event`, whose failure is only logged (`OutcomeUnrecorded`).
* **Wallet.** `RequestIntent`, `FindIntent`, `InsertIntent` create; `CheckCredited` to
  `Confirm` are the calls of `settle_funding_intent` in their order.
* **Scheduler.** `SelectEnded`, `StampJob` are `notify_finished_work`; `SelectDue`, `Claim`,
  `Enqueue`, `Deliver` are `tick` and `fire`; `Create`, `Update`, `Delete`, `SaveSettings`,
  `SyncReport` the requests.  Twilio is not a state: sending is the time between a claim
  and the insert of the notice.
* **Reconciliation.** `CreateImport`, `PullPage`, `PullDetails`, `InsertLines`,
  `FinishImport` and their failures are `import_provider_usage_manual`,
  `import_provider_usage_from_api` and the pulls from LiveKit and Zep; `CreateRun`,
  `FetchLines`, `FetchLogs`, `ClearFindings`, `StoreFindings`, `FinishRun` the run; `Report` is
  the pure comparison of what was fetched.  A table is a set; what was fetched is a function
  from a row's place in the query's order to the row, and `Pages` are the pages that order
  allows, rows of one INSERT being in any order among themselves.
* **Google.** `GoogleCalls` gives each route and each action of the work thread as a
  sequence of calls, with what the guard of `google_worker.py` refuses.  `GoogleLink` runs
  such a sequence: `Call` looks into the cache, `ReadRow`, `Refresh`, `Flag`, `Store` are
  `_access_token`, `SendCall` the request, which after a
  401 forgets the user's tokens and ends; `Exchange`,
  `Upsert`, `Forget` a consent; `Find`, `Revoke`, `Delete`, `Forget` a disconnection.
* **Phone lines, messages, mail.** One action per call to Twilio, LiveKit, SendGrid or the
  database, in the order of the handler; `InsertOrExisting` is `insert_or_existing`.  The order
  of `updated_at`, by which a conversation is chosen, is the relation `newer` over the set of
  conversations; `Touched` is the trigger that moves one to the front.
* **Rooms, PC, profiles.** `GetSession`, `ClaimRoom`, `RereadSession` are `claim_room`; an
  order is inserted and its site listed in two steps; a claim looks, locks what nobody
  holds, and looks again at a row that changed; saving a profile says whether it replaced one.
* **Pricing.** The price table is the set of rows `Catalogue`, read through the function
  `ALL_PRICING`, `FallbackCost` what it lacks; `KindOf` is which table a model is in, `CostBy`,
  `ProviderCost`, `MicroCredits`, `Charge` price an item; `RowsOf` writes a session's rows;
  `Line`, `Groups` are the report of margins.  Money is counted in 10^-8 USD, tokens and
  characters in thousands; a float is its exact value plus a `noise` smaller than any price
  difference, so what rounding does to it is checked and the rest of IEEE arithmetic is not.

Definitions whose comment starts with `mutant:` are deliberately wrong variants of the one
that follows them, never used by a specification; replacing the original by the variant
must break the property it was written for, which shows that the property sees that bug.

## 3. Runs

Each run is one `.cfg` and its module (`tlc -config X.cfg M`).  Ten must pass:

| Run (configuration, module) | Question | Bounds |
|---|---|---|
| `MCCreditLedger`, `MCCreditLedger` | `TypeOK`, `Conservation`, `AuditTrail`, `KeyCreditedOnce` | 2 users, one without bonus; 2 keys; amounts 1 and 2 against a bonus of 3; 4 ledger rows |
| `LedgerTransactions`, `LedgerTransactions` | is the interleaved SQL `CreditLedger` (`ImplementsLedger`), without deadlock (`NoLockCycle`), and does each call end (`EveryCallEnds`)? | 2 sessions, 2 users, 1 key, 3 rows |
| `UsageSettlement`, `MCUsageSettlement` | `ChargedOnce`, `RowsAddUp`, `DayFeeOnce`, `ClaimedIsSettled` | one of two scenes.  Metered: 2 reports of 3 items and 1, a balance for one and a half, 3 deliveries, 2 workers, 1 fault.  Own key: 2 sessions of 2 minutes with 3 included, 2 days, a key that comes and goes, a user without a credit row.  In each one other movement of the balance |
| `StripePayments`, `MCStripePayments` | `PaymentCreditedOnce`, `EventDebitsOnce`, `PaidIsCreditedUnlessFaulty` | 1 payment of any kind (prompt, delayed, announced twice, not ours), 2 workers, 1 redelivery, 1 fault, 1 debit |
| `WalletFunding`, `MCWalletFunding` | `OneIntentPerKey`, `DepositCreditedOnce`, `AnnouncedIsCredited` | 2 requests, 2 intents (a token that needs a quote, a stablecoin); two notices of one transfer, two of one event, two of one transfer with different amounts, a notice with nothing to recognise it by, a late quote, or a stablecoin announced with its amount and without; 2 workers, 1 fault |
| `AssistantScheduler`, `MCAssistantScheduler` | `ToldOnce`, `DueIsFired`, `EndIsTold` | 2 machines, 1 row a tick, a report beside a daily reminder or one-off work, due together; 3 instants, 1 edit, 1 save, 1 fault |
| `Reconciliation`, `MCReconciliation` | `CompletedIsWhole`, `NothingMissed`, `QuietReportIsTrue`, `CreatedIsClosed` | 2 earlier lines and one import of up to 2 lines by hand, from LiveKit or from Zep; 2 usage rows; pages of 1; 2 failing calls |
| `GoogleLink`, `MCGoogleLink` | `NamedAccountOnly`, `StaleTokensAreExcused`, `CopyIsRemoved`, `WorkLooksFirst`, `CutIsFinal` | 2 requests of every kind in either of 2 processes, 2 linked accounts, a second user's consent, 1 fault |
| `Communications`, `MCCommunications` | `TablesAreTrue`, `ThankedIsKept`, `NothingStrays`, `AnswersHold`, `EveryDeliveryEnds` | lines (2 requests, 2 kwamis, 2 numbers, both trunks), texts (2 messages or calls, each delivered to 2 workers, a failing call or a removed line or contact), or mail (3 requests, 2 deliveries each); 1 fault |
| `Services`, `MCServices` | `RoomsAreOwned`, `WorkRunsOnce`, `ProfilesAreOwn`, `PriceIsFair`, `ReportIsTrue`, `StepsAreAllowed` | 3 token requests of 2 users for 1 named room or new ones; 2 orders, 3 processes on 2 PCs; 3 browser sessions, 2 owners, 2 vendors, 3 handles; 921 items of usage, on both sides of every branch of the price, 2 sessions and 4 rows with three funds |

`MCCommunications` and `MCServices` put components side by side that look at none of each
other's rows: a variable chosen at the start says which one runs, so a state belongs to one
component and the run is the sum of their state spaces, not the product.  Their properties
are conjunctions, one conjunct per component, each defined and explained in its module.

What each run shows:

* **credit_ledger, ledger_transactions.**  The ledger explains every balance, and the
  functions that keep it may be treated as atomic: every other run relies on this.
* **usage.**  A report is debited once and its rows add up to the debit whoever dies where;
  the fee of a day is charged once although the sessions read the day long before they log.
* **stripe_payments, wallet_funding.**  Redelivery to several workers never credits twice;
  and, without a fault, never lets two deliveries take each other for the one that worked.
  For a wallet this holds of deposits whose notices say the same of the transfer, or carry one
  event id; section 4 says what happens to the others.
* **assistant_scheduler.**  The conditional claim gives an occurrence to one machine; a full
  tick delays a task but does not starve it; a finished job is told once.
* **reconciliation.**  Offsets into a growing table, newest first, may repeat a row and never
  skip one, as long as no two rows share a timestamp; a run interrupted anywhere never says
  it is completed without its findings, and what its handler has created it marks at its end,
  unless the marking fails too.
* **google_link.**  The address in a cache key and the sweep of the cache keep requests on
  their account; a token that outlives its link is one of three explained cases.  The work
  thread puts nothing into a shared file it has not looked at; what it renames, bins or copies
  in place it does not look at (section 4), and the model keeps such calls (`Touch`) apart.
* **communications.**  Idempotent inserts lose nothing that was acknowledged; a partial
  failure leaves the row by which a number can be released again.
* **services.**  Unique rows and `SKIP LOCKED` give a room, an order and a profile to one
  taker; prices and the report of margins agree with what was written.

Why the bounds suffice: the hazards are pairwise.  Two workers exhibit every race between
two handlers, three deliveries a race plus a retry, one fault a loss at each call in turn
(two where the handling of a failure may itself fail).  Payments, reports and intents meet
only through a user's balance, and one extra movement of it stands for all the others; two
reports of one user make the balance run out between them.  In the scheduler tasks meet only
in the limit of a tick, which is 1 for two tasks; a page of one row puts every insert
between two pages.  Two accounts, kwamis, numbers or owners are one to be right about and
one to be confused with it.  Amounts are chosen on both sides of the balance, items on both
sides of every branch of the price; the ledger's own properties, which do depend on
numbers, are proved for all values.

## 4. Where the code and its documentation differ

Two runs end, as they must, in a counterexample to a statement the repository makes.

| Run | Statement | What the code does |
|---|---|---|
| `stripe_faults` (`StripeFaults`), `PaidIsCredited` | "Stripe retries on any non-2xx" (`stripe_service.py:143`) | the claim outlives a failed handler, the retry is a duplicate, the payment is lost |
| `unpaid_rows` (`UnpaidIsCounted`), `UnpaidIsCounted` | "If the balance is short, the row is `insufficient_credits`" (`docs/billing.md:139`) | rows are written `written_off` or `partially_charged`, while the report counts only `insufficient_credits` |

Met while modelling, visible in the modules, and taken into account by the properties that
name them as exceptions:

* **Usage.**  A debit refused because the balance moved writes off the whole report although
  a part could be paid (`credits.py:1081` against the comment at 1053).  Any existing row is
  answered as settled, one a dead handler left pending included (`credits.py:961`).  Of two
  first reports of a user without a credit row the second is refused `get_balance`'s insert
  and stays pending, which is why `ClaimedIsSettled` leaves such users out.
* **Stripe and wallet.**  A refund announced by `charge.refunded` and `refund.created` is
  clawed back twice, there being no key although migration 017:101 has one in mind
  (`stripe_service.py:310`); one handled before its purchase is closed as unmatched.  Two
  notices of a deposit handled at once credit it twice (`wallet_service.py:458`, which gives
  `add_credits` no key) unless something else takes them for one: the same event id, or the same
  row of `wallet_transactions`.  That row is unique by signature, mint, direction and amount
  together (`migrations/010_kwami_wallets.sql:140`), and the amount is each notice's own
  (`wallet_service.py:384`): one signature announced with two amounts, or once with an amount
  and once without when more or less than expected came, is two rows and two credits.  Hence
  `Identified` asks for the same transfer, not for the same signature.  A failure or a missing
  quote after the event was recorded makes every retry a duplicate.
* **Assistant.**  `_sync_reports` reads the clock before it looks the tasks up, and writes the
  occurrence it computed then over whatever a machine has claimed meanwhile
  (`assistant_service.py:193`): a report whose settings are saved a second time may be told
  twice, although `assistant_scheduler.py:3` says that "two machines on the same database
  cannot both fire it".  `SwitchedAgain` names such reports.  A reopened reminder has no time and never fires; two saves of the settings
  at once can leave settings and report rows in disagreement; a task deleted between claim
  and insert loses its notice.
* **Reconciliation.**  Pages are ordered by `created_at` alone, and rows of one INSERT tie:
  paging may skip one, hence `Untied`.  Lines of failed imports are counted.  A row billed
  nothing (a user's own key) counts as billed at provider cost.  The import and the run are
  inserted before the `try` whose handler marks them failed (`admin_reconciliation.py:694`,
  `734` and `1097`): an insert that takes effect and whose answer is lost, or comes without the
  row (`:646`, `:1008`), leaves a row pending that nobody ever closes, and so does a request that
  is cancelled or dies, `except Exception` not being told of it.  Hence `CreatedIsClosed` speaks
  of rows whose handler was told their id.
* **Google.**  Any answer of 400 or above to a refresh flags `needs_reconnect_at`, not only a
  token Google stopped honouring (migration 025); a refused refresh that races a new link
  flags the new one.  The cached token of the default account may be another account's, or a
  removed one's, until it expires; another process's cache outlives a disconnection whose
  revocation failed, for up to an hour.  `google_worker.py:4` says "Nothing here speaks to
  anyone" and `:8` that what "goes into a shared file or folder reaches whoever it is shared
  with", but only what `_PUTS_INTO` names is looked at (`:69`, `:98`): `drive_update` with a new name
  renames a file others share, and with a folder to go to only the folder is looked at;
  `drive_trash` bins it; `drive_copy`, and the temporary copy behind `drive_read`, are given no
  folder and land beside the original, which may be in a shared one
  (`google_workspace.py:140`, `:339`, `:350`); `calendar_update` and `calendar_delete` alter an
  event whose guests see it.  `WorkLooksFirst` claims nothing of these.
* **Phone lines.**  The upsert by kwami and kind strands the kwami's first number at Twilio
  when a second is bought; two requests lose each other's change to the shared trunk list,
  which is read and written back whole; a purchase beside a release of the same rows may be
  deleted by the release.  Hence `alone` in the properties.  A release that fails after Twilio
  let the number go leaves its rows; if the number is then sold to someone whose own rows are
  refused, a later, untroubled release of the old rows ends well and leaves the new sale
  bought and unrecorded.  Hence `Whole` speaks of the sale a release is about, not of its number.
* **Messages.**  Two first messages at once open two conversations.  A failure after the
  provider took a message records it as failed, or as both; a refused dispatch leaves a call
  without an agent.  A status callback that comes before its row is lost, and callbacks
  overwrite each other in the order they arrive.
* **Mail.**  The loser of a race for a name gets the database's error, not the `ValueError` the
  docstring announces.  A mail SendGrid refused is stored like one it took.  Mail without a
  Message-ID is stored at each delivery.
* **Pricing.**  The fallback for an unknown realtime model, 0.10 a minute, is below GPT-4o
  Realtime's average, though `config.py:240` says the fallbacks are "Priced at the dearest of
  their kind".  A realtime model reported as language without a token split costs nothing;
  cached tokens beyond the prompt's are not clamped.  Modelled at its default of 0, and so left
  out, is the fixed fee added to every charge (`credits.py:213`); `request_count`, which stands
  in for the units of a tool call that has none (`credits.py:311`), is one.

## 5. Fairness

* `UsageSettlement`, `StripePayments`, `WalletFunding`: weak fairness of each worker's
  handler, because asyncio resumes every coroutine whose call has returned.  Strong fairness
  of delivery of unanswered events together, because providers retry anything but a 2xx and
  a worker is free again and again; no fairness between two particular events is assumed.
  Nothing forces users to pay, faults to occur or the agent to send.
* `LedgerTransactions`: strong fairness of each session, because Postgres grants a lock in
  the order it was waited for.
* `AssistantScheduler`: weak fairness of each machine's tick (`_run_forever` loops) and of
  each request; time need not pass and jobs need not end.
* `Reconciliation`: weak fairness of the import and the run that are under way together.
* `Messaging`, `Mailbox`: weak fairness of the handlers and deliveries together (Twilio and
  SendGrid redeliver); faults are bounded, so a retry in the end meets none.

`GoogleLink`, `PhoneLines`, `Rooms`, `PcWork`, `Profiles` and `Pricing` claim safety only.
Liveness of payments and settlement is claimed without faults (`... \/ faults > 0`): what
faults cost is section 4.

## 6. Proofs

Everything below holds for all values of the constants, from the named assumptions of the
module (amounts positive, the null key, null reference and "nobody" apart, requests
numbered, payments and events two kinds of reference; in `LineAssumption`, `TextAssumption` and
`MailAssumption`, that requests are about the kwamis and numbers there are, and that no number
has two lines at the start; in `GoogleAssumption`, that a request asks for calls the routes or the
work thread offer, and that no user has an address linked twice at the start; in
`PricingAssumption`, that what an item counts is a natural number, that the noise of a float is
less than prices differ by, and that the markup is a fraction, of whatever size), which TLC
evaluates in every run.

* **`CreditLedgerProofs`**: `LedgerTypeCorrect` (no balance is ever negative),
  `LedgerKeysCreditedOnce`, `LedgerAuditTrail`, `LedgerConservation`.  The argument goes
  through one operator, `Post`: sign-up, credit and debit all move one balance by one
  appended row that says so, under a fresh key, and every other step is `EnsureRow` or
  changes nothing (`StepKinds`).  `AuditTrail` and `KeyCreditedOnce` are inductive with
  `TypeOK`.  `Conservation` is not: it does not exclude an account with the bonus due and no
  row, whom `get_balance` would give a row of zeros; `ConservationInv` adds that only legacy
  users lack a row.  `BooksInv` is these together, and `CallsKeepBooks` keeps it for any call a
  component makes (`Called`), of an amount from wherever: this is how `SettlementKeepsBooks`,
  `PaymentsKeepBooks` and `DepositsKeepBooks` follow, whose components debit amounts that no
  constant lists.
* **`LedgerTransactionsProofs`**: `TransactionsImplementLedger`, the refinement, and
  `NoLockCycleEver`.  `Sound` says of an open transaction which call of `CreditLedger` its
  commit would be, computed from the committed tables; this survives another's commit because
  no two hold one row or key (`HeldByOne`).  That the ledger has room for every open
  transaction gives the abstract bound.  A cycle is impossible since whoever holds a row
  waits for nothing.
* **`UsageSettlementProofs`**: `ReportsChargedOnce`, `DayFeeChargedOnce`, `RowsAlwaysAddUp` and
  `SettlementKeepsBooks`.  `ChargeInv`: one
  handler at most is past the claim of a report, its row is pending, and nothing is debited
  or answered until it has asked (`ClaimIsHeld`); a row that is no longer pending holds the one
  answer ever given (`RowIsTrue`).  `FeeInv`: who bears a fee it has not logged holds the key
  of the user's day, alone, and no fee of that day is logged.
  `RowsInv`, which TLC checked on the whole instance first: `Stage` says how far a handler has
  come with the rows of its report (all logged by it; none has a share before the debit; after
  it, what is allocated and what remains make up the debit, and what remains is no more than
  the rows still without a share ask for), and `AddsUp` what a row of `usage_reports` promises of the
  others.  `AddsUp` alone is not inductive: that the last share leaves nothing over is the
  inequality of `Stage` when no row is left.  The sums are over sets of any size, and what the
  proofs need of them is at the end of `CreditLedgerProofs`.  The library's induction theorems
  take an operator, which the provers cannot instantiate; its theorem that a well-founded relation
  has minimal elements takes a set, so what an induction would show of a sum is shown of a
  smallest set for which it fails (`LeastSet`, `SumTakesAny`, `SumsAgree`, `SumsCompare`).
  The same module proves `Reconciliation`, which reads those rows beside the invoices:
  `ImportsAndRunsAreWhole`, `PagingMissesNothing` and `QuietReportsAreTrue`, from `ReconInv`,
  which TLC checked on the whole instance of `reconciliation` first.  `ImportInv`: an import has
  no line before its insert and one for each pulled from then on, whether or not the answer
  arrived.  `Fetched`: of the rows that were there, those with fewer newer rows now than the
  offset have been fetched.  It survives an insert, which only makes more rows newer
  (`FetchedStill`), and a page, which holds the rows at the next places (`PageHas`); when the
  last page is not full no row is left (`AllPaged`).  With nothing inserted meanwhile every row
  is fetched at its own place (`InOrder`), so that a total over places is a sum over the rows
  (`SumByPlace`), and the report is the truth of the tables (`ReportIsTruth`), whichever session
  an ambiguous line is given.  `Reporting` carries that to what is stored, through a failure of
  any call.  Nothing of it bounds the tables, the pages or the runs.
* **`StripePaymentsProofs`**: `PaymentsCreditedOnce` and `EventsDebitOnce`.  `StripeInv`: Stripe
  tells no payment paid that is not (`StripeIsTrue`); a purchase row carries the key, price and
  user of a paid payment (`PurchasesAreTrue`), so that `KeyCreditedOnce` makes it the only one,
  whatever becomes of the claims; who has claimed an event is alone with it and has debited
  nothing when it asks to (`EventsAreHeld`).
* **`WalletFundingProofs`**: `IntentsAreUnique` and `DepositsCreditedOnce`, in `WalletInv`: who is
  past an insert that carries the transfer or the event id of a deposit holds the one row of
  it, and nobody has credited under that row before; a worker that is about to confirm has
  credited.  `Identified` is used only to know that the next notice meets the same row; that
  two notices of one transfer meet the same row of `wallet_transactions` needs their signature and
  the amount each is taken to have received (`SameTransfer`), and that what is credited is a
  natural number above 0 is a fact of `_compute_credit_amount` (`AmountsArePositive`).
* **`AssistantSchedulerProofs`**: `OccurrencesAreToldOnce` and `OnlyTheOpenAreClaimed`, in
  `SchedulerInv`.  `Once`: the notices there are and those a machine is about to send, one per
  claim or stamp, are of different occurrences and jobs; it needs that `last` only grows
  (`RunsAdvance`), that a machine claims by what it read (`MachinesOK`), and that the settings
  saved once can set a report only to a time nobody has claimed (`SaversOK`).
* **`ServicesProofs`**.  `Rooms`: `RoomsAreOwnedByOne`, `RoomsKeepTheirOwner`, `RoomsOpenOnBalance`, from what
  each request has established by the call it waits for (`RequestIsSound`).
  `PcWork`: `WorkRunsOnceAlways`, `WorkIsTakenOldestFirst`.  A row that is held is
  queued and held by one (`ClaimIsSound`, `HeldByOne`).
  `Profiles`: `ProfilesAreOwnAlways`, `ClearedStaysClosed`.  A handle is with the session
  about to save it, in the one row of its owner and vendor, or cleared, and never in two of
  these places.
  `Pricing`: `PricesAreFair` and `ReportsAreTrue`, from `PricingInv`.  Of the catalogue it needs
  two facts, read off its rows once (`CatalogueRates`): speech and language have positive rates,
  and a cached rate is no higher than the full one.  Which row an item is priced by depends on the
  company and the model alone (`SpellingsAgree`); a noise of a third of the least difference
  is quantized away (`Quantized`); each of the three amounts of a row is rounded by at most
  a half, and they are whole micro-dollars, so a row is off by one at most (`RoundedRow`) and a
  group of rows, by a sum over rows, by its size (`MarginsFit`).  A share is no more than its row
  asked for (`SharesFit`), so that a session whose rows all say charged was paid in full.
  `ServicesStepAsAllowed`: a step of one service is a stutter of the others
  (`ServicesApart`), which carries the three action properties to the run.
  `GoogleLink`: `AccountIsTheOneNamed`, `StaleTokensHaveAnExcuse`, `TemporaryCopyIsRemoved`,
  `WorkThreadLooksFirst` and the action property `DisconnectionIsFinal`, from `LinkInv`, which
  TLC checked on the whole instance of `google_link` first.  `FitInv`: the grant a row, a cache
  entry or a request holds is its user's and to the address it was asked under.  `CallInv`: what
  a request has made of its calls is what its place in them says, and a copy that exists is
  about to be read or deleted.  It needs facts of the programs themselves: in every one that the
  routes or the work thread offer, a copy is followed by its export and its deletion (`Whole`), and
  before what it sends or puts the work thread refuses or looks (`Guarded`); `AppIsWhole` and
  `WorkCalls` prove both for all of them.  `HeldInv`: a grant somebody holds is of a consent whose
  row was written or tried, and while an account is cut off none that anybody holds is honoured.
  `CutIsFinal` is not inductive without the first half, which keeps a consent under way from
  being cut off before its link exists, nor without `RevokedOK`: between revocation and deletion
  the row, if still the one revoked, is of no use to a refresh that has read it.  `ExcuseInv`: the
  three reasons for which a token may outlive its link.

* **`CommunicationsProofs`**: `TablesStayTrue`, `ThankedStaysKept`, `NothingEverStrays`, an
  invariant per service, and `AnswersAlwaysHold`, what their steps may never do.
  *Lines* (`LineInv`): the unique indexes, the rows a request made and may still make
  (`MadeBefore`), and, of a request that runs alone, what each of its steps has established at
  Twilio, on the trunks and in the rows (`AlonePurchase`, `AloneRelease`); another request
  starting takes `alone` away, so nothing has to survive interference.
  *Messages* (`TextInv`): what each handler has found so far suits its message
  (`HandlerOK`): a thread is on the message's line and with its contact or nobody, which
  stays true because rows keep their line and lose a contact but never change it
  (`RowsKept`); an answered delivery has its event unless its line is gone.
  *Mail* (`MailInv`): the account a clerk has found is its kwami's and bears the address of its
  mail, or is gone, and its number is never given again (`ClerkOK`).
  `OneServiceSteps` carries the three over to the run: a step of one is a stutter of the others.

Every invariant and every action property of the passing runs is stated by a theorem.  Only
model-checked are the liveness properties (`EveryCallEnds`, `ClaimedIsSettled`,
`PaidIsCreditedUnlessFaulty`, `AnnouncedIsCredited`, `DueIsFired`, `EndIsTold`,
`CreatedIsClosed`, `EveryDeliveryEnds`), the prover having no fairness or ENABLED, and the
counterexamples of the two violation runs.

## 7. What would come next

An abstract acknowledged-once inbox that `Messaging`, `Mailbox` and `StripePayments` each
refine; a model of the order of Twilio's callbacks, once the code keeps one.

## 8. Not modelled

* **Wallet custody**: derives a key reference from its arguments and keeps no state.  Of wallet
  funding, `ensure_wallet` and the read-only listings: a failure between its two inserts
  (`wallet_service.py:151`) leaves a wallet without a key reference, which nothing modelled reads.
* **Calendar and contacts**: single statements on single rows; nothing interleaves.
* **Provider keys**: a probe of the vendor and an upsert; that a user has a key is part of
  `UsageSettlement`.
* **Memory, voice catalogues**: clients of external services, read-only catalogues and a cache
  whose entries never change.
* **Rate limits, authentication, signatures**: decide whether a handler runs, not what it does.
* **Configuration, logging, the migration runner.**
* Of the modelled components: reading notices and the express-send record of the assistant;
  transcripts, screens and results that the PC's work passes through; the payloads of Google's
  calls; WhatsApp configuration, number search and the test call; the mail classifier; the
  filters and page limit of the cost report.
* bigint overflow: Postgres raises and rolls back.  Deleting a kwami or an account cascades
  through all tables; of it only what mail and channels feel is modelled.
