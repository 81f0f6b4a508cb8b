# Elapse in TLA+

Elapse sells time by the second: a subscriber locks an escrow in a contract, a
meter runs, a keeper settles what has accrued, and the platform mirrors the
chain into a database and tells merchants through signed webhooks. This
directory holds a TLA+ model of that pipeline and of the parts around it (the CLI
stream, keys and secrets, the faucet, the demo reset, the page's meter and an
example merchant), the TLC runs that check it and TLAPS proofs.

## 1. Inventory

| Component | Code | State | Operations | What is hard | What makes it correct |
|---|---|---|---|---|---|
| AccrualStream | `contracts/src/AccrualStream.sol` | one clone: status, segments, deposit, settled totals, token balance | deposit, start, pause, resume, cancel, cancelFor, settle | calls by three parties in any order, an exhaustion nobody observes at once, rounding | money is conserved; only running time is billed; the end is exact |
| StreamFactory | `contracts/src/StreamFactory.sol` | keeper, fee, treasury | setKeeper, setFee, create, createWithPermit(NoStart), settleBatch | knobs change under running streams | snapshotted terms hold |
| Indexer | `indexer/src` | position on the chain, posts in flight, its own entities | take a batch of logs, post each with retries, give up | posts of one block run concurrently, are retried, lost, given up | every log reaches the platform or reconcile repairs it |
| Ingest | `api/src/db/ingest.ts`, `subscriptions.ts` | subscription row, `chain_events`, ledger, invoices, events | one transaction per log | duplicates, overlap, logs out of order, log before `pending_tx` | the books are those of the chain, whatever arrives how often and when |
| Reconcile | `api/src/worker/reconcile.ts` | one pass's list of logs | select diverged rows, replay the stream's logs | races with the indexer, fails half way | an ended stream's row is closed |
| Delivery worker | `api/src/worker/{queue,run,deliver,schedule}.ts` | `deliveries` with locks, endpoint failure streak, attempts | claim, skip, post, finish, take over, warn, disable | several workers, crashes mid-attempt, slow endpoints | one holder, a bounded number of attempts, every delivery ends |
| Endpoints, events, resend | `api/src/db/{webhook-endpoints,events,deliveries}.ts` | endpoint flags, pending Resend | create event, request resend, disable, enable | the merchant acts while attempts are out | disabled receives nothing; what ended is posted again by a resend only |
| Checkout service | `api/src/services/checkout.ts`, `routes/checkout-sessions.ts` | sessions, `pending_tx`, start and cancel stamps | prepare, start, relay cancel, keeper start/pause/cancel, again | check, submit to the chain, then write: double submits and crashes between | a permit pays once, a stream is bound to the row that paid, and the row knows what it paid |
| Keeper, unstarted sweep | `api/src/worker/{keeper,unstarted}.ts` | `last_settle_requested_at`, `cancel_submitted_at` | select due, estimate, settle a batch; cancel held streams | stale rows and estimates against the chain, streams that revert for ever, stamps that nothing clears | every stream at its cap is ended and its row closed; held money goes back |
| CLI stream | `api/src/services/cli-stream.ts`, `routes/cli-sessions.ts`, `cli/src/commands/listen.ts`, `sse.ts` | rows of the CLI endpoint, what a connection has sent, the frame in hand | frames, forward, ack, expire | several CLIs, ack against expiry, a Resend cleared before it is sent, broken connections | each delivery is answered once and none stays queued |
| Signing secrets | `api/src/db/webhook-endpoints.ts`, `worker/{queue,deliver}.ts`, `sdk/ts/src/webhooks.ts` | secret, previous secret and its expiry | roll, sign, drop the expired one, verify | an attempt signs with what its claim read long ago | a grace is honoured |
| API keys, notices | `api/src/db/api-keys.ts`, `worker/notify.ts` | keys with expiry and revocation, notices by dedupe key | create, roll in three steps, revoke, sweep | rolls overlap; a notice is written once | no key stops unannounced |
| Faucet | `api/src/services/faucet.ts`, `db/faucet.ts` | queue of the process, drops of 24 hours | count, transfer, record | presses at once, a drop sent and not recorded | the limits hold |
| Demo merchant | `api/src/worker/demo-reset.ts`, `services/demo-catalog.ts` | seed objects and what judges make | sweep, ensure, restore | insert and mark are two statements; passes run into one another | the seed comes back |
| React meter | `sdk/react/src/{use-meter,popup,session}.ts` | the session last read, the Elapse window | read, follow, stop | answers overtake one another | the end is shown |
| Example merchant | `examples/lambda/src` | an in-memory session per subscription | webhooks, claim, run, sweep, cancel with retries, boot | webhooks late, twice or out of order; restarts | nothing runs unmetered, no meter is left running |
| Relayer, nonce resend, signatures | `api/src/chain` | – | submit, resend | a resend of what was mined | no call runs twice |
| Auth, products, customers, sessions | `api/src/routes`, `middleware`, `db` | single rows | CRUD | – | – |
| Web, saas example, docs site | `web`, `examples/saas`, `docs-site` | – | clients of the API | – | – |

How they interact: checkout and keeper send transactions to the contracts
through the relayer; the contracts emit logs; the indexer posts each log to
`/internal/ingest`; ingest changes rows and creates events with one delivery
per endpoint in the same transaction; the worker claims deliveries and posts
them. Reconcile reads the chain beside the indexer and calls ingest itself. The
rows are the only shared state of API and worker processes; locks on
deliveries, the unique index of `chain_events` and the stamps on subscriptions
are what orders them.

`PROJECT.json` lists each hazard at its line with the properties that guard it.

## 2. Modules

| Module | Models | Uses |
|---|---|---|
| `PrepaidMeter` | the abstract promise: a pot, a switch, seconds run; money leaves only for seconds run, closing returns the rest | – |
| `AccrualStream` | one clone: storage, transfers, one action per external function | – |
| `StreamFactory` | knobs, creation, settleBatch; `Spec`, the contract properties, the refinement of `PrepaidMeter` | `AccrualStream`, `PrepaidMeter` |
| `Arithmetic` | lemmas on products and integer division | – |
| `StreamFactory_proofs` | the inductive invariant and the theorems | `StreamFactory`, `Arithmetic` |
| `Ingest` | one subscription's database state and the transaction of one log | – |
| `Indexer` | composes contracts and `Ingest` with the logs, the indexer and reconcile | `StreamFactory`, `Ingest` |
| `Deliveries` | the webhook queue and its workers | – |
| `Relay` | the relayer's transactions: mempool, execution, loss, the streams and logs they leave | – |
| `Checkout` | one session: prepare, start and relayed cancel as requests of several steps; ingest as one | `Relay` |
| `Keeper` | the merchant's start, cancel, pause, resume and the unstarted sweep; the properties of the three | `Checkout` |
| `Settler` | the keeper's passes: due rows, estimates, batches with gas, skips, reconcile on request | – |
| `CliStream` | the CLI endpoint's deliveries, the stream handlers and the CLIs | – |
| `Northwind` | the example merchant and the one subscription it sells, with the platform's webhooks | – |
| `Widget` | the React meter of one session | – |
| `Secrets` | one endpoint's secrets, the attempts that sign and the server that verifies | – |
| `Keys` | a merchant's secret keys, their rolls and the expiry sweep | – |
| `Faucet` | the queue and the limits of the test faucet | – |
| `Demo` | the demo merchant's configuration under judges, scripts and resets | – |
| `Indexer_proofs` | the books, what the merchant is told and the final totals, for any batching | `Indexer`, `StreamFactory_proofs` |
| `IndexerOrder_proofs` | the row and its seconds, in whatever order logs come | `Indexer_proofs` |
| `Keeper_proofs` | which stream a row pays for, under which cap and permit, and is bound to | `Keeper` |
| `Deliveries_proofs` | the webhook queue | `Deliveries` |
| `Rules_proofs` | secrets, keys and the faucet, and that the run of `rules` is a run of each of its parts | `MCRules`, `Deliveries_proofs` |
| `Parts_proofs` | the CLI stream, the example merchant, the types of the other parts, and that the run of `parts` is a run of each | `MCParts`, `Deliveries_proofs` |
| `MCStreamFactory`, `MCIndexer`, `MCDeliveries`, `MCKeeper` | values of the constants for TLC | |
| `MCRules`, `MCParts` | values of the constants, and several parts that share no state in one run | `MCDeliveries`, `Secrets`, `Keys`, `Faucet`; `Deliveries`, `CliStream`, `Northwind`, `Settler`, `Widget`, `Demo` |

### AccrualStream and StreamFactory

Variables carry the names of the storage they model. A call that reverts has no
effect, so each `require` and modifier is a guard: `Live` is `notCanceled`,
`PartyOrKeeper` is `onlyPartyOrKeeper`, and so on. `End` is the tail `_cancel`
and `_endAtCap` share (close, `_settleChunk`, refund); `Pay` is `_settleChunk`
with the transfers, which need the balance to cover them. `escrow` is the token
balance and `toMerchant`, `toTreasury`, `toSubscriber` add up the transfers, so
that conservation of money is a statement about tokens and not about the
contract's own counters. `ran` and `slept` observe real running and paused time;
no action of the contract reads them, and the properties measure the bill
against them.

Abstractions: streams share no storage, so one clone with arbitrary parties,
rate and ceiling stands for all. `status = "None"` is the clone before it
exists. Amounts are unbounded naturals (Solidity 0.8 reverts on overflow). Who
signed a relayed cancel is an input. Tokens sent to the contract without
`deposit` are left out: no line of the contract moves them.

### Ingest and Indexer

`Ingest` keeps the subscription row, the sets of log numbers known to
`chain_events` (with a subscription: `stored`, without: `ignored`), the open
transactions, and the sums of ledger, invoices and events. `Begin` is the insert
and the lookup, with the value of `paused_at` the transaction read; `Commit`
writes. A second transaction for the same log waits on the unique index, so
`Begin` is disabled while one is open. Transactions of different logs overlap.

`Indexer` derives the logs of each contract step from the change of the
contract's state (`Emitted`, in the order of the `emit`s), numbers and stamps
them, takes them in batches (`Together` says which: the logs of one transaction,
or of one block) and posts those of a batch concurrently, in any order, each
tried up to `MaxTries` times; a post may be lost before it does anything, be
refused for good by a 4xx (`RefusePost`), its transaction may abort, or its
answer may be lost after the commit. The next batch waits for the answers.
`Batch` itself, how the indexer framework hands logs over, is external code.
`latest` and `misread` only observe: the turn of the stream (its start, a pause,
a resume, its end) that was applied last, and whether a resume read another
`paused_at` than that of the pause it ended. Reconcile selects the row, reads
the chain and then ingests the logs one by one, in between anything else may
happen.

Named assumptions: `GiveUp` happens only when no transaction of the log is still
open (four posts and their waits take a minute or so, a transaction
milliseconds). `AtHead = TRUE` says that a reconcile pass only runs with the
indexer caught up. The code does not ensure it, nor that the logs of two
transactions stay apart: the run `pipeline` has both, for what holds of the row
without a condition (`RowMirrorsStream`, `SecondsElapsedExact`) and for its
closing, and the findings `reconcile_overtakes` and `arrival_order` show what
happens without them. The run `same_block` has neither. There `ingest.ts:108-145`
does write an older status over a newer one, a canceled one included, and the
properties say exactly when: `RowFollowsNewestTurn` and `SecondsUnlessMisread`
claim the row and its seconds whenever the newest turn was applied last, and
`OnlyOvertakenRevives` that a canceled row runs again only through a log of
before the end that is stored for the first time.

### Deliveries

One endpoint, some deliveries and some slots; a slot is one attempt under way in
any process. Instants the code stores (`next_attempt_at`, `locked_until`,
`failing_since`) are kept as time left or time passed, so the model needs no
bound on the clock. `Claim` is `claimDue` for one row; `Send` is the POST, with
the `lock_expired` row of a takeover; `FinishAutomatic` and `FinishResend` are
the closing transactions; `Crash` is a process that dies, or a write that
throws, anywhere in between. `AttemptTime < LockTime` is an assumption: with the
default batch of 50, 16 at once and 10 s each, the last of a batch ends 40 s
after the claim and the lock lasts 60 s. Raising the batch or lowering the
concurrency breaks it, and then `OneHolder` fails. `posts`, `resent`, `rows` and
`quiet` observe what was sent, logged and how long no automatic attempt has been
answered 2xx. A Resend's 2xx changes neither the delivery's status nor the
endpoint's streak in the code (`deliver.ts:129-149`), where FR-WRK-030 and
FR-WRK-050 have it change both (section 6). `FinalIsFinal` allows the one change
FR-WRK-030 asks for, an exhausted delivery that a Resend makes succeeded, and no
other; `DisabledAfterFailures` speaks of automatic attempts only, and says so.

Notices, mails and audit rows are left out: nothing the properties speak of
depends on them. Which secrets sign is in `Secrets`.

### Relay, Checkout and Keeper

A request is a record in `calls`: what it has read and the step it does next.
`LoadFor...` reads the row, and the later steps go by what was read and not by
the row as it is, which is what the code does between two `await`s. A prepare
has a load (what the route and its transaction read of the session and the row),
the UPDATE, which looks at nothing again, and the read of the nonce; a start has
a load, a broadcast and the write of `pending_tx`; a keeper's request has a
load, a broadcast and, for start and cancel, a stamp. `Broadcast` is
`writeContract`: it estimates against the chain as it is and throws where the
call would revert. What was broadcast waits in `mempool` in nonce order, and
reverts if the chain has moved on. A permit is the nonce and cap it was signed
for; the nonce at the token is what keeps two starts of one wallet from both
being paid.

The sweep selects a batch and then cancels its rows one after the other. Windows
of time are abstracted: a held row may be past its window at any moment, and a
cancel stamp may turn older than `CANCEL_RETRY_SECONDS` at any moment.

`troubled` observes the rows whose start was doubled (two starts read the row
before either wrote its hash) or cut by a crash before its hash was recorded.
The code protects neither, and `StreamsAreBound` is stated for the others. The
other two safety properties except no row. `OneStreamPerPermit`: also of a row in
trouble, each stream was paid for with a permit given for that row and cap, and
no permit pays twice, so a second stream of a row takes a second signature.
`CapsPartOnlyMidStart`: a prepare that read the row before its start's hash was
in it (`checkout.ts:104-107`) writes its own cap over the one being paid
(`checkout.ts:109`), and nothing else makes a row's cap part from what its
starts, its transaction or its stream carry.

`Recorded` is an assumption: unless the API crashes, `pending_tx` is written
before the log of its transaction arrives (milliseconds against a block). Ingest
applies a log at once and in order here; its overlaps are the business of
`Ingest` and `Indexer`. A request that fails before it has written anything is
one that was not made. `Relay`'s streams have a status, and the row, cap and
permit nonce they were made with; what a call does to money and time is in
`AccrualStream`. `LoadForStart` and `PreparePermit` are one step each where the
code makes several reads in a row (the row, the permit, the domain, the balance,
the nonce): a prepare that comes between two reads of a start leaves it a
signature that does not fit, or does what it does right after the load.

Left out: creating and expiring a session, 'again', the deadlines, limits and
balances that merely refuse a request.

### Settler

`pass` is `runKeeperOnce` between two of its `await`s: the due rows in some
order, the slice of `Batch` rows, the estimates made so far, and the batch to
stamp. The wait for a batch's receipt before the next slice (`keeper.ts:98`) only
fills a log line and is left out, which allows more orders than the code has.
`Estimate` skips a stream that reverts, or whose call fails, and hands it
to reconcile; `settleBatch` broadcasts with `batchGas`, 25 000 and five quarters
of the estimates. `MineBatch` spends that gas stream by stream: one that has
reached its cap since it was estimated costs `CapEndGas` and may leave nothing
for those behind it. Gas is in the units of the code with costs of a plausible
size; the property does not depend on their values, only on what a further
pass can mend. `Unheard` streams end without the indexer noticing, and only the
hourly pass or a skip's request closes their row.

### CliStream

A handler's loop is split at its `await`s: `Expire`, `Select`, one `ClearResend`
per pending Resend in the order of the rows (a connection that breaks in between
leaves the others pending), `Consumed`, and one `WriteFrame` per frame. `conn`
holds where it is, what it has sent on this connection and the frames on the
wire; `hand` is the frame a CLI is reporting on. An ack may be lost before or
after the platform has taken it, is tried a second time and then dropped. Only
CLI rows are here; `Deliveries` has the others.

### Northwind

The lower half is `examples/lambda/src/session.ts` and `server.ts`: the session's
state, the run under way and the callers of `cancel` that wait for an answer.
The upper half is the platform as that server sees it: a meter, transactions in
flight, events `told` and those still `owed`. A run is `RunActive`, `RunResumes`,
`RunStarts` or `RunWaits`, then the start loop, then the wait, then `FinishRun`;
`endSession` sets its guard before the call and `CancelAnswered` is the call.
Windows of time are abstracted: a deadline or a stale heartbeat may have passed
at any moment. `orphaned` observes a restart whose boot did not find the meter
running, which nothing repairs: a meter that was starting is then on its own.
Two webhooks are not events of their own: `checkout.session.completed`
(`webhooks.ts:116`) only records the link to the session, and
`invoice.payment_failed` (`webhooks.ts:153`) closes a session as the
`subscription.canceled` it comes with does. `AskRun` leaves out the requests that
are merely answered 409 or 503.

### Widget

Reads are answers on their way (`answers`), in any order; `View` is what the page
shows, and `Follows` what keeps it reading. The window of a stop may close
before its message, and the poll that notices may come first.

### Secrets, Keys, Faucet and Demo

`Secrets` keeps expiry as hours left, and an attempt signs with the row its
claim has read. `stale` are the attempts claimed before the last roll, for which
the code promises nothing. `Keys` splits a roll where it awaits, without a
transaction around it; `TimePasses` needs a sweep since time last passed, as
the worker sweeps every minute. `Faucet` counts in one rolling window, and
`Cut` is a drop that was sent and never recorded, which the limits cannot see.
`Demo` has one object of each kind; a pass sweeps, finds, inserts, marks and
restores kind by kind, and `fresh` is what it has inserted and not yet marked.

## 3. Runs

| Run | Spec | Bounds | Shows |
|---|---|---|---|
| `streams` | `FairSpec` | rate 15, ceiling 50 (3 s and some dust), deposits 5/15/30, clock to 7 in steps of 1 or 2, fees 0 %/10 %/20 % (the last refused) | all contract properties, the refinement, and that a full pot that ran dry is always closed |
| `topup` | `Spec` | the same | **finding**: a late deposit revives an exhausted stream |
| `pipeline` | `FairPipelineSpec` | one second of cap, clock to 3, logs of one transaction together, one post per log, one failure, 7 logs | the books, the row and its seconds are those of the stream once all logs are in; an ended row closes |
| `same_block` | `PipelineSpec` | two posts per log, logs of one block together, reconcile at any time, 5 logs, one failure | under the weakest ordering: money, announcements, final totals; the row and its seconds whenever the newest turn was applied last; what revives a canceled row |
| `reconcile_overtakes` | `FairPipelineSpec` | as `pipeline`, reconcile at any time | **finding**: a row that never closes |
| `arrival_order` | `PipelineSpec` | as `pipeline`, logs of one block together | **finding**: `seconds_elapsed` follows arrival order |
| `rules` | `RulesSpec` | queue: 2 deliveries, 2 slots, 2 attempts, lock 2, attempt 1, warn at 1, disable at 2, a resend, a crash; secrets: 2 attempts, 2 rolls, graces 0, 1, 2; keys: 3 keys, 2 rolls at once, graces 0, 2 and 3, notices at 3 and 2, one crash; faucet: 4 requests that share a wallet, an address, a merchant, one cut | one holder, counted attempts, final statuses, disabled only after failures; a grace is honoured, an expiry announced, the limits hold |
| `parts` | `PartsSpec` | queue: 1 delivery, 3 attempts, a resend, a crash; CLI: 1 event, 2 CLIs, 2 connections, a Resend, a lost ack; merchant: one run, 2 cancels before giving up, one mishap; keeper: 2 streams, one that reverts for ever and one whose end is not heard of, batches of 2, one failure; page: any; demo: one change, one script, one crash | every delivery ends, a frame is answered once and ends, runs are metered, meters end, caps are settled, the end is shown, the seed comes back |
| `crash_unlogged` | `DeliveriesSpec` | the queue of `rules` | **finding**: a POST without a row |
| `disabled_resend` | `DeliveriesSpec` | the queue of `rules` | **finding**: a disabled endpoint is posted to |
| `checkout` | `FairKeeperSpec` | both start modes, 2 wallets and 3 offers, 2 rows, 4 requests of which 2 at once, one fault (crash, lost answer, failed cancel or lost transaction) | streams are bound to the row that paid, a permit pays once, a cap parts from the one paid for in one way only; no session stays held |
| `sweep_race` | `KeeperSpec` | the same without a fault | **finding**: the sweep cancels a session the merchant has started |

Why the bounds are enough. A stream's behaviour depends on the clock only
through the distances to the cap and to the last segment; a cap of three seconds
leaves room for two segments, a partial settle and an observer that comes late,
and rate 15 with deposits of 5 gives both an unaffordable start and dust. The
pipeline run needs one stream through deposit, start, pause, resume, settle and
cancel, which seven logs hold, and each kind of failure once; more failures only
repeat what `Post` already repeats. Two deliveries with two slots are the fewest
in which attempts to one endpoint overlap and a takeover meets its old holder.
Four requests are a prepare, a start and two more that meet them at any step:
another tab's, another wallet's, or the merchant's. Two CLIs are the fewest that
receive the same frame; one run, one mishap and two cancels are the fewest in
which a cancel fails and is repeated; a stream that reverts beside one that does
not is what a batch must survive. Two rolls at once reach every order of their
steps, and two secrets before the current one are enough for an attempt that
read the row two rolls ago.

`rules` and `parts` each check several parts that share no state: the first state
chooses the `part`, only that part moves, and only its fairness is assumed. What
holds of the whole holds of each part on its own; nothing is said about two parts
together. Counters bounded by a guard:
`MaxTime`, `MaxLogs`, `MaxTries`, `MaxFaults`, `MaxResends`, `MaxCrashes`,
`MaxRequests`, `MaxCalls`, `MaxConnects`, `MaxAsked`, `MaxLost`, `MaxRuns`,
`MaxMishaps`, `MaxFailures`, `MaxRolls`, `MaxKeys`, `MaxCutOff`, `MaxCuts`,
`MaxChanges`, `MaxScripts`, `MaxCutShort`. In the pipeline runs
the system stops when the clock does, in the checkout runs when no request is
left, in `rules` when every drop has been answered and in `parts` when the page
shows the end or no CLI connects any more, so deadlock is not checked there; it
is everywhere else.

Fairness. The keeper calls `settleBatch` in a loop (`keeperForever`), so
`SettleBatch` is weakly fair. The indexer takes and posts logs in a loop, an
open transaction ends, and reconcile runs every hour: their steps are weakly
fair. The delivery worker polls and an attempt ends by its time limit; time goes
on. Blocks are made, the sweep runs on every tick of the keeper, and a write that
follows a broadcast happens. The worker sweeps the CLI endpoint every minute and
time goes on; nobody has to listen. In the example merchant a broadcast is mined,
a webhook is delivered in the end (`EveryDeliveryEnds` and the attempts before
it), the sweep's timer fires, a call is answered and a run goes on; the buyer
leaves, so that the sweep finds the session stale. The keeper's passes and
reconcile are loops of the worker. The page's interval fires, and of the reads it
makes again and again not every one fails, which is strong fairness of an
arrival. The demo reset repeats and a pass goes on. Merchants, subscribers, the
owner, judges and every failure owe nothing.

## 4. What the runs found

Each is a run of its own that TLC finds violated, and a finding with the quoted
line in `PROJECT.json`.

1. `topup`: `deposit` is open to a stream that is exhausted but not yet settled.
   The seconds since exhaustion are accrued and billed, against FR-CON-040/041.
   Streams funded by permit hold the whole ceiling from the start and are safe:
   `CapAlwaysEnds` and `EndIsExact` are stated for what is left.
2. `reconcile_overtakes`: a lagging `StreamStarted`, `StreamPaused` or
   `StreamResumed` sets the status of a row that reconcile has just canceled;
   its `StreamCanceled` is from then on a duplicate.
3. `arrival_order`: `status` and `paused_at` follow the order of arrival.
4. `crash_unlogged`: a resend that takes over a crashed attempt does not log it.
5. `disabled_resend`: the manual branch of `attemptDelivery` does not look at
   the endpoint's `disabled`.
6. `sweep_race`: the sweep looks at the stamps once for a whole batch, and a
   start that is stamped while the batch is being cancelled is refunded all the
   same (`unstarted.ts:42-44`). The contract takes the keeper's cancel in any
   live state.

## 5. Proofs

`StreamFactory_proofs` proves, for every rate, ceiling, pair of parties (one
address or two), set of addresses, deposit sizes, deadlines, block intervals,
fee choices and clock bound that `StreamAssumption` and `FactoryAssumption`
allow (natural numbers, a positive rate and ceiling, positive block intervals):

| Theorem | Says |
|---|---|
| `TypeCorrect` | `[]TypeOK` |
| `Solvency` | `[]Solvent` |
| `TimeBilled` | `[]OnlyTimeRunIsBilled` |
| `FeeShare` | `[]FeeWithinShare` |
| `ExactEnd` | `[]EndIsExact` |
| `Refinement` | `Spec => MeterSpec` |

The argument. None of the properties is inductive: that a settle pays for time
really run needs to know where the open segment stands in real time. `ClockInv`
says it: an open segment began `startedAt + closedActiveSeconds + slept`, the
stream has run its closed seconds and the open segment, a paused one has run
exactly its closed seconds, and neither has closed a whole pot. `IInv` is
`TypeOK`, `ClockInv` and the safety properties together. One lemma per action
shows that it keeps `IInv`; the ends share `EndKeepsIInv`, the money steps
`PayKeepsBooks`, and the few nonlinear facts (a product and its quotient) come
from `Arithmetic`. The refinement maps the clone to a `PrepaidMeter` (`held` to
`escrow`, `earned` to both payees) and needs `IInv` for two facts: what is
earned is covered by seconds run, and the end returns all that is held.

### The pipeline

`Indexer_proofs` and `IndexerOrder_proofs` are about `PipelineSpec`, for every
rate, cap, clock, number of logs, tries and failures (`IndexerAssumption`: the
pot is the whole cap, as `createWithPermit` makes it).

| Module | Theorem | Says |
|---|---|---|
| `Indexer_proofs` | `StreamIsTheContracts` | `PipelineSpec => Spec`: what is proved of the contract holds here |
| | `PipelineTypeCorrect` | `[]PipelineTypeOK` |
| | `BooksAreTheChain` | `[]BooksMatchChain` |
| | `ToldOnce` | `[]MerchantToldOnce` |
| | `TotalsAreFinal` | `[]FinalTotalsExact` |
| `IndexerOrder_proofs` | `RowFollows` | `[]RowFollowsNewestTurn` |
| | `SecondsFollow` | `[]SecondsUnlessMisread` |
| | `RevivedByOvertaken` | `OnlyOvertakenRevives` |

The theorems hold whatever `Together` and `AtHead` are: for any batching, with
reconcile at any moment. `PipelineInv` is the contract's `IInv` and five parts.
`LogInv`: the logs tell the stream; it is funded, started and ended once, and
the log of the end carries the totals. `DeliveryInv`: what is posted, replayed
or in a transaction is a log of the chain, and what is in a transaction is in no
other and is not known yet, which is what the unique index is for. `BooksInv`
ties the sums: for each of six kinds of amount, what the chain moved less what
the books show is what the logs not yet stored carry. A sum over a sequence is
recursive, and its facts would need an induction over data, so `Pending(m, w, S,
x)` says that a function of partial sums exists that ends in `x`; the lemmas say
how `x` changes when a log is stored or appended, and that it is zero when all
are stored. `OutcomeInv` says what the merchant has heard from which logs are
stored, and ties the reason of an end to how long the stream ran. Each step
either emits (`EmittedLogs`, `LogsAppended`: a step emits an event at most once)
or applies a log (`AppliesKeepsInv`, one branch per event of `applyLog`).

`IndexerOrder_proofs` is about the row, and assumes nothing of the order of logs
either. `OrderInv` is `PipelineInv`, what is known of the observed history
(`HistoryInv`) and three parts. `LogOrder`: a start is the
first turn and an end the last log, and the newest turn in the logs tells the
state of the stream. `RowInv`: the turn applied last tells the state of the row,
and what comes once (the start, the deposit, the totals of the end) is in the
row as soon as its log is. Where the two turns are the same log, the row is the
stream's: that is `RowFollowsNewestTurn`. `NapInv` ties the seconds: as long as
every resume has read the pause it ended, the stream's pauses that are over, less
those the row has counted, are what the resumes not yet stored carry
(`Pending` again). So an older turn that is applied last and a resume that did not
find its pause are the only ways to a wrong row, and the findings
`reconcile_overtakes` and `arrival_order` show them taken.

### Checkout, keeper and sweep

`Keeper_proofs` is about `KeeperSpec`, for any number of rows, wallets, offers,
concurrent callers, requests and faults, in both start modes.

| Theorem | Says |
|---|---|
| `KeeperTypeCorrect` | `[]KeeperTypeOK` |
| `StreamsStayBound` | `[]StreamsAreBound` |
| `CapsPartInOneWay` | `CapsPartOnlyMidStart` |
| `PermitPaysOnce` | `[]OneStreamPerPermit` |

What is on its way is seen as sets: `Waiting`, `Arriving`, and `Payments`, the
creates that wait together with the streams there are. A stream keeps the number
of the transaction that paid for it, so executing, reverting or losing a
transaction never enlarges `Payments`, and only the broadcast of a create does.
`OneStart` then says of every row that is not `troubled`: its payments are one,
of the row's cap, and the hash of that one is in the hands of the start that
broadcast it and afterwards in `pending_tx`; until a start has broadcast there
is no payment at all. `Owned` says that a hash that a row or a start holds is
that of a create for that row, so that ingest cannot bind another row's stream
by it. `BoundOrHeard` says of every stream that its row is bound to it, or that
`StreamCreated` has yet to arrive; with `Owned` and `OneStart` the arrival binds
it. `CallsTrue` and `OthersTrue` say that requests and the sweep refer to rows
that are there, and that the keeper's refer to rows with a stream. TLC checked
`KeeperInv` on the instance of the run `checkout` before it was proved. A row
becomes `troubled` where the code leaves it unprotected (section 2), so
`StreamsStayBound` also says that these are the only ways to lose a stream.

The other two need no `OneStart` and hold of every row. For the caps, each step
is shown to make no payment, to leave the row its cap, or to pay the cap that
its start carries (`Keeps`, `PaysTheSame`); what is left is `PrepareRow`, and a
prepare that read a hash has refused or made another row. For permits, `PermitInv`
follows one from the signature on: a start in hand and a create that waits carry
a permit of their row (`StartsSigned`, `WaitingSigned`), and a stream one whose
nonce its wallet has passed (`Spent`), so that no later create is accepted with
it.

### The queue and the other parts

Each theorem is about the part's own specification (`DeliveriesSpec`, `CliSpec`,
`NorthwindSpec`, `SecretsSpec`, `KeysSpec`, `FaucetSpec`). The lemma `EachPart`
of `Rules_proofs` and of `Parts_proofs` shows that a run of all the parts is a
run of each, which gives the type invariants of the two runs.

| Module | Theorem | Says |
|---|---|---|
| `Deliveries_proofs` | `QueueTypeCorrect` | `[]DeliveriesTypeOK` |
| | `NoTwoHolders` | `[]OneHolder` |
| | `TriesAreCounted` | `[]TriesCounted` |
| | `FinalStays` | `FinalIsFinal` |
| | `DisabledOnlyAfterFailures` | `DisabledAfterFailures` |
| `Rules_proofs` | `GraceIsHonoured` | `[]GraceHonoured` |
| | `StopsAreAnnounced` | `[]StopsAnnounced` |
| | `DropsStayWithinLimits` | `[]DropsWithinLimits` |
| | `RulesTypeCorrect` | `[]RulesTypeOK`, for `RulesSpec` |
| `Parts_proofs` | `AnsweredOnce` | `[]OneAnswer` |
| | `NothingRunsUnmetered` | `[]RunsAreMetered` |
| | `PartsTypeCorrect` | `[]PartsTypeOK`, for `PartsSpec` |

- The queue, for any number of deliveries, slots, attempts, resends and crashes.
  `QueueInv` is the types, `OneHolder` and four facts. `Holds`: what is left of a
  lock and the time it has been held make up a whole lock, an attempt was sent
  no longer ago than it was claimed, and an automatic one is the next of a
  delivery that has not ended. From it and `AttemptTime < LockTime` follows that
  a delivery in work is locked, so `Claim` finds it only after its attempt is
  over, which is what both `OneHolder` and `FinalIsFinal` need. `TriesLeft`: only
  the last failure ends a delivery. `PostsCounted` matches POSTs with the
  attempts answered, the one under way and the crashes. `StreakInSilence`: a
  streak of failures is no older than the time without a 2xx to an automatic
  attempt, give or take an attempt that started before the last and failed after
  it.
- Secrets: `Keeps` says that what is promised of a secret is covered by the
  previous secret's time left, and `Serves` the same of what an attempt has read
  or signed with, unless the secret was rolled since.
- Keys: `LastSweepCounts` says that a key at its last unit of time that the sweep
  has seen is announced. It needs that no grace is so short that it ends before a
  sweep (`KeysAssumption`).
- The faucet, for every set of requests and all four limits: `OneServed` says that
  only the head of the queue is past the count, `Counted` are the drops recorded
  and the one that was sent and is about to be, and each limit holds of
  `Counted`, so that the next count sees every drop but the `Unrecorded` ones,
  which are no more than there were cuts.
- The CLI stream: `CliInv` knows the rows' types and that a good answer in a
  CLI's hand was given by a local server, or for a frame it sent to none.
  Nothing has to be known of the frames on a wire or in a batch, as an ack is
  judged by the row it finds.
- The example merchant: `NotYetOn` says that until the platform has told that the
  meter runs, nothing that the server keeps or has read says so: the session,
  the run, a claim or a boot under way, an event. Each webhook, claim and boot
  copies one of these into another.
- Types that are more than types: a batch of the keeper is never longer than
  `Batch` (`PassFits`: what is estimated was in the slice), and an object of the
  demo that is inserted and not yet marked belongs to a pass about to mark it
  (`Unmarked`).

### Only model-checked

Every action property of the passing runs is proved, and every invariant but
two: `RowMirrorsStream` and `SecondsElapsedExact` hold where logs come in order,
which the constants of `pipeline` give and the code does not promise; what holds
in every order is proved in their place. The liveness properties
(`CapAlwaysEnds`, `EndedRowCloses`, `HeldEnds`, `EveryDeliveryEnds`,
`FramesEnd`, `MetersEnd`, `CapReachesTheRow`, `EndIsShown`, `SeedComesBack`) are
out of the prover's reach: they need `ENABLED`, from fairness, and an induction
over what is left to do. They stay with TLC and its bounds, as do the runs that
expect a violation, whose counterexamples refute on one instance.

## 6. Not modelled

The web application (its pages render what the API answers), the saas example,
the docs site, auth, sign-in and CRUD routes, mails, the heartbeat and the
balance sample. Of the parts that are modelled: the indexer's own entities,
endpoint creation and deletion, the notices of endpoint secrets, the examples'
keys and the seeded meters of the demo, the authorise flow of the React package,
session creation, expiry and 'again', the nonce resend, and chain
reorganisations (the code keeps `block_hash` and handles none).

Divergences seen while reading and not turned into runs:

- FR-WRK-050 (`docs/specs/worker-frd.md:69`) says that any 2xx clears the failure
  streak. `manualAttempt` leaves it alone (`deliver.ts:129-149`), so an endpoint
  that has answered a Resend can be disabled all the same.
  `DisabledAfterFailures` counts automatic attempts only.
- FR-WRK-030 (`docs/specs/worker-frd.md:53`) says that a successful Resend makes an
  exhausted delivery succeed; `manualAttempt` never changes the status.
  `FinalIsFinal` allows it.
- `checkout.ts:185` says that `pending_tx` is written immediately so that ingest
  can bind the stream, but a log that arrives before it is ignored for good.

Seen in `Checkout` and `Keeper`:

- Two starts of one row that overlap leave the hash of the one that reverted, and
  the stream of the other bound to nothing (the reason for `troubled`).
- A prepare that overlaps a start writes its cap over the one being paid: the
  keeper settles and `cap_reached` is decided by a `max_duration_seconds` that the
  stream was not made with (`checkout.ts:104-109`). `CapsPartOnlyMidStart` names
  this as the only way.
- Two wallets can each have a row and a stream of one session while neither is
  confirmed; a prepare that loaded the session while it was open points it to a
  fresh row after it has completed, though FR-API-033 says that a completed session
  cannot be prepared again.
- A merchant's start or a sweep's cancel that is accepted and then lost leaves a
  stamp that no code clears, so that the sweep passes the row by and the subscriber
  waits beyond `start_by` (`unstarted.ts:22-26`); `HeldEnds` excepts it.
- A Stop that overlaps another, or the sweep, sends the duplicate that
  `checkout.ts:193-194` rules out.

Seen in the parts around the core, where no run is about it:

- CLI: a Resend of a CLI delivery that is still queued, while nobody listens,
  keeps it queued (`expireUnacked` passes over rows with `manual_requested_at`),
  though `cli-stream.ts:125` says that a crashed CLI never leaves rows queued
  for ever; `FramesEnd` excepts it. A manual ack and an automatic attempt may
  carry the same number `n`.
- Keeper: a row still `paused` because the log of its resume came late, of a
  stream whose end the indexer missed, is not selected by the keeper and so
  never handed to reconcile; only the hourly pass closes it.
- Example merchant: of two Runs queued together the second passed the check for a
  spent session (`server.ts:131`) before the first ended it; a late `active`
  clears `canceling` and a second cancel goes out beside the first, against
  `server.ts:520`; a restart between a start and its confirmation leaves the
  meter to the cap (`orphaned`); a claim that read the platform before a webhook
  came, or a late `subscription.created`, sets a running session back to
  `authorised`.
- React meter: a first read that fails leaves `error` for good, as nothing follows
  from there; the poll that notices the closed window may come before the message
  of an accepted stop, which is then reported as closed.
- Notices: the dedupe key of `secret_expiring` is of the endpoint and not of the
  secret, so that the second secret to expire is never announced (FR-WRK-042); a
  grace extended after its notice is not announced again.
- Demo: between the insert and the mark of a seed object another pass or a judge
  may archive or delete it, though `demo-reset.ts` says that seed objects are
  never touched there; a crash between `createMerchant` and `UPDATE demo = true`
  makes `ensureDemoMerchant` fail on the unique email from then on
  (`db/demo.ts:21`: "Safe to call repeatedly").
- Start again: `again` reads `restarted_as`, awaits, and inserts
  (`checkout-sessions.ts:587-591`), so two requests at once both open a follow-on,
  against the comment above it, "One follow-on per session".
- Sign-in: a crash between `createMerchant` and `createApiKey` leaves an account
  without publishable keys; `issueMagicLink` counts and then inserts.

## 7. Plan

Done: the contracts with the abstract meter and their proofs, Ingest and Indexer,
Deliveries, Relay, Checkout and Keeper, the parts around them (Settler,
CliStream, Northwind, Widget, Secrets, Keys, Faucet, Demo), and proofs of the
safety properties that the passing runs check, but for the two of section 5 that
need logs in order. Left:

1. `Session`: creation, expiry and 'again' (two follow-on sessions of one
   receipt).
2. An abstract specification of the platform's books, with `Indexer` shown to
   implement it, so that what merchants and subscribers may rely on can be read
   without the delivery.
3. Safety that the liveness properties rest on, where it is worth a statement of
   its own: which rows the keeper's due query can still miss (`Settler`), which
   frames `expireUnacked` still passes over (`CliStream`).
