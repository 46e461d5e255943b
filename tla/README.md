# VEM: a TLA+ model of the vending system

VEM runs clothes vending machines: a cloud service that sells, takes payments
and commands machines, and on every machine a daemon that drives the hardware
and a touch screen. This directory models the parts where money, stock and
physical goods can get out of step, checks them with TLC on small instances and
proves the main safety results with TLAPS for all instances.

Paths are relative to the repository (`src/` here is its root). `PROJECT.json`
maps every definition to the lines it models.

## 1. The system

### Parts, their state and their operations

| Part | State of record | Operations that change it |
| --- | --- | --- |
| Orders (`service-api/src/orders`) | `orders` (`status`, `paymentState`, `fulfillmentState`), the payment row's intent-creation lease | create an order with its idempotency key, create its payment intent, cancel from the machine, operator recovery |
| Payments (`service-api/src/payments`) | `payments`, `payment_events`, provider configuration | webhooks; scheduled, on-read and manual queries; expiry scan; operator's close and manual handling; payment-code attempts |
| Inventory (`service-api/src/inventory`) | `inventories` (on hand, `reserved_qty`), reservations, inventory movements, raw machine movements and their reconciliation cases | reserve, release, confirm, expiry sweep, ingest and apply movements of the machine, resolve cases |
| Vending (`service-api/src/vending`) | `vending_commands` | create in the payment's transaction, publish, ack, result, timeout, operator resolution, compensation |
| Refunds (`service-api/src/refunds`) | `refunds`, refund events | stage, dispatch under a lease, provider answers, reconciliation, webhooks |
| Maintenance, notifications, error policies | work orders, notifications | deduplicated side inserts of the above |
| Machines, planograms, machine operations | machine rows, planogram versions | administration |
| MQTT gateway (`service-api/src/mqtt`) | none | verify, route, publish |
| Access, machine authentication, audit | users, roles, tokens | administration |
| Daemon, dispense execution (`vending-daemon/src/mqtt.rs`, `state/store.rs`) | SQLite: `command_log`, `outbox_events`, `stock_movements`, `order_sessions`, slot states | receive a command, drive the hardware, journal, commit side effects, block a slot, recover, publish the outbox |
| Daemon, checkout (`transaction.rs`, `payment_creation_critical_section.rs`) | checkout marker, order session | create an order, poll it, cancel it |
| Daemon, stock (`state/store.rs`, `stock_upload.rs`) | the projection of each slot (physical and saleable stock, sales state, blockers), the staged count, `stock_movement_sync` | count, refill, upload, finalize, apply a snapshot |
| Daemon, the rest | configuration, media cache, device bindings | device and operating-system adapters |
| `vending-core` | none (one call to the lower controller at a time) | drive the controller over the serial line |
| `daemon-ipc-contracts`, `packages/shared`, `packages/db` | none | contracts, schema |
| Machine UI, admin UI | none of record | clients; the machine UI polls the current order every two seconds |
| Simulators | none | test equipment |

### How they interact

1. The touch screen asks the daemon for an order, the daemon asks the service.
   The service writes order, payment and reservation in one transaction, then
   obtains a QR code from the provider under a leased, fenced claim.
2. The customer pays. The service learns it from a webhook, from the machine's
   status poll, from a scheduled query, from the expiry scan or from an
   operator; all of them write the same rows.
3. The transaction that records the payment inserts the dispense command
   (outbox). It is published over MQTT at once and by a periodic job.
4. The daemon acknowledges, dispenses, journals the outcome, commits its side
   effects and reports the result through its own outbox. The stock movement
   travels separately.
5. On the machine the daemon talks to the lower controller over a serial line whose
   frames carry no command number.
6. An operator at the machine counts and refills; each movement is uploaded,
   applied or made a case for an operator at the platform, and snapshots of the
   platform's stock overwrite the machine's.
7. The service applies result and movement, or times the command out, and
   refunds what was not delivered. An operator may settle an unknown outcome and
   have the machine dispense again (compensation).

### What is hard

* Handlers read a row, await the provider, and write later: another handler
  settles the payment in between.
* Provider calls time out with an unknown effect; webhooks are lost, late or
  duplicated.
* Requests stall past their lease and go on.
* The service or the daemon dies between two commits, or between a physical
  effect and the record of it.
* MQTT delivers at least once in both directions.
* A call on the serial line is answered by frames that may belong to an earlier one.
* Two copies of the stock, the machine's and the platform's, are written by both.
* The order's state on the machine lags behind the one in the cloud.

`PROJECT.json` lists these hazards at the line where they bite, with the
properties that cover them.

### What makes each part correct

* Settlement: a payment is settled once; a command exists exactly for a captured
  payment; a closed order is not dispensed and keeps no money; stock is
  accounted; every order leaves `pending_payment`, except a WeChat order whose trade
  never opened and one whose payment an operator's unconditional write closed.
* Intent creation: an overtaken request writes nothing; only durable QR codes
  are shown; a payment that was given up cannot be paid; creation makes progress.
* Dispense execution: one start of the mechanism per command; one outcome; its
  side effects all or nothing; the outcome of an order's latest command is reported,
  unless the order's session on the machine was over before it knew that command.
* Fulfilment: a line has one live command; its rows agree however success and
  failure race; it ends with its unit or its money, not both; every command ends.
* Refunds: a refund is closed only as the provider decided it; one refund per
  reason; what the books say came back came back; every open refund ends.
* Payment codes: a customer is charged for one code; captured money is kept or in
  somebody's hands; a closed order is not charged; a worker that lost its lease
  writes nothing; a submitted attempt ends.
* Checkout: one task of the daemon creates an order at a time, and no write of a
  session spans a planogram switch. A request that timed out may still be on the wire,
  and reach the platform after a switch when its marker was deleted meanwhile.
* Serial line: a success belongs to the call that reports it; a failure has a cause.
* Stock: a movement is applied once; what is accepted is applied; a slot with a
  refused movement or a failed dispense is not sold before the operator has been
  there; the ledger accounts for the stock; every upload ends.

## 2. Modules

| Module | Contents |
| --- | --- |
| `OrderProjection` | the status enumerations and `projectOrderStatus`, pure |
| `PaymentContract` | abstract: what the rest of the system may rely on when it sells against a payment |
| `PaymentSettlement` | how a QR order is paid for or closed; implements `PaymentContract` |
| `PaymentIntent` | who creates a payment's QR code |
| `PaymentCode` | paying with a scanned code; implements `PaymentContract` |
| `RefundLedger` | the rows that fulfilment and refunds share, and the writes on them |
| `Fulfillment` | how the service gets a paid order's units out of the machine (over `RefundLedger`) |
| `RefundDispatch` | how refunds reach the provider and its answers come back (over `RefundLedger`) |
| `DispenseContract` | abstract: what the service may rely on when it sends a command |
| `DispenseDaemon` | how the daemon executes commands; implements `DispenseContract` |
| `SerialDispense` | how the daemon's serial adapter has the lower controller dispense |
| `Checkout` | the daemon's checkout and what keeps planograms out of it |
| `StockSync` | counts, refills, uploads, cases, snapshots and sales of a machine's stock |
| `MCPaymentSettlement`, `MCPaymentIntent`, `MCPaymentCode`, `MCFulfillment`, `MCRefundDispatch`, `MCDispenseDaemon`, `MCCheckout` | instances for TLC |
| `PaymentSettlementProofs`, `PaymentStartProofs` (intent and payment code), `FulfillmentProofs`, `RefundDispatchProofs`, `DispenseDaemonProofs`, `SerialDispenseProofs`, `CheckoutProofs`, `StockSyncProofs` | theorems |

Operators that begin with "Mutation:" in their comment are deliberately wrong
variants of the definition below them. No specification uses them; they
document which bug a property would catch.

### PaymentContract

A payment is open, paid (the goods may be handed out) or closed, and its money at the
provider is not there, offered, taken or returned. Goods are handed out only against
money that was taken, once and for all, and no money is asked for afterwards; a
payment is closed only when nothing can be taken any more, and then takes nothing.
`doubt` marks the payments for which the code gives the second part up: an operator
overruled the row without a condition, or the close went ahead without the provider's
word. Even then no goods are handed out unpaid.

Both ways of paying implement it. For a shown code (`PaymentSettlement`) "paid" is
the existence of the dispense command, "closed" a payment row that failed, was
canceled or expired without one, the money is the provider's trade behind a persisted
QR code, and the doubt is `blind` or `unsure`. For a scanned code (`PaymentCode`) the
one payment stands for all attempts: the money is taken when one of them is captured,
offered as long as a charge of any of them may still take it, and there is never a
doubt.

### PaymentSettlement

Variables are columns of `payments`, `orders`, `inventory_reservations`,
`inventories.reserved_qty` and `vending_commands`, the set of payment events
already stored, and three things outside the database: the clock relative to
`expiresAt` (`ahead`, `overdue`, and `compensated` once the expiry scan's
compensation window is over), the provider's trade, and `tasks`.

A handler with a provider call in it is two or three actions. The first checks
the row and performs the call, leaving a record in `tasks` with what the provider
answered; the last is the transaction that writes. Anything may happen in
between, including `Crash`, which forgets the task. `BeginQuery` and
`ApplyScheduled`, `ApplyOnRead`, `ApplyManual` are the three queries;
`BeginExpire`, `ApplyExpirePaid`, `ExpireAtProvider`, `ApplyExpireLocal` the
expiry scan; `BeginCancel`/`ApplyCancel` the machine's cancel;
`BeginClose`/`ApplyClose` and `markPaymentManualHandling` the operator.
`transitionProviderPaymentTerminal` is the shared locked transaction of every
terminal answer.

Two history variables mark what the code itself leaves open: `blind`, an operator
write without a compare-and-set hit the payment, and `unsure`, the order was
closed without a definite provider answer. The properties name these exceptions
explicitly instead of excluding them from the model.

`provider` is `payments.providerId`, since the adapters differ. Alipay reports a
missing trade as pending (`alipay.provider.ts:238`); WeChat answers 404, its adapter
throws (`wechat-pay.provider.ts:233`), and `isTradeNotFoundError`
(`payments.service.ts:235`) does not recognise that, so that the queries, the
expiry scan's among them, end without a write. Canceling a paid trade reverses it at
Alipay (`alipay.trade.cancel`); WeChat refuses. A cancel call that fails is "unknown"
or "refused" by its error text, and may have taken effect. Assumed of the providers,
as the code assumes it: a trade reported as definitely failed or closed can no
longer be paid.

### PaymentIntent

One payment, several concurrent requests (`Workers`), the lease columns `owner`,
`fence` and `lease` (ticks left), and per request where it is, the fence it
claimed and what it learned. Claim, heartbeat, provider call, the fenced write,
the error path after a failed write (check the lease, then ask the provider to
cancel), the retry after an explicit "trade does not exist", and the machine's
status poll, which takes the same lease. The write may fail after it was
committed (`PersistFails`). A late `TradeOpens` stands for a provider that
executes a request whose caller timed out. `OthersSettle` stands for the handlers
of `PaymentSettlement`.

### DispenseDaemon and DispenseContract

Each committed SQLite transaction is an action; what is only in memory
(`phase`, `job`, `scan`, `inflight`, `answer`) is lost in a `Crash`. `job` is the
program counter of the MQTT loop, which handles one message at a time, or of the
start-up scan. `handle_dispense_command` may be taken at any time for any issued
command: that is redelivery. `HandlerFails` is an error return at any of the
fallible writes. `recover_journaled_dispense_side_effects` is both the start-up
scan and the 30-second worker, which interleaves with the loop.
`refresh_current_from_backend` and `apply_backend_order_status` are two actions,
since the answer is applied after it was read. The session is reduced to the
command it names and whether its next action is terminal. The answer that ends it may
name no command, as the service's does for an order in manual handling
(`transaction.rs:1096`); from then on nothing is polled (`transaction.rs:317`), and the
outcome of a command published later is never committed (`store.rs:2166`).

The mechanism is external: `MotorDrops` may come before the answer, after the
local timeout, or never. Only a controller that saw the drop answers success:
`SerialDispense` shows that for a call that found the controller idle. For a call
that met a controller still at work for an earlier one it does not hold (see
`SuccessIsDelivered` below).
`Transmit` is the MQTT client, which sends the event in flight while the loop
polls it.

`DispenseContract` is what remains for the rest of the system: a command is
accepted, concluded with one outcome and told; a unit drops at most once, a
concluded success has dropped, and a unit may still drop after any other outcome.
`KeepsContract` is the refinement (`stage`, `outcome` and `told` are functions of
the log, the journal and the wire).

### RefundLedger, Fulfillment and RefundDispatch

`RefundLedger` has the rows of one paid order (status columns, lines, refunds) as
one record, and every write that the two sides share as an operator from rows to
rows: staging an automatic refund in full or for the failed lines, marking a line,
requesting a refund again, a refund's terminal transaction. A transaction that
makes several writes is the composition of their operators, in the code's order,
each reading what the one before left. Amounts are abstracted to what they cover.

`Fulfillment` adds the commands (a dispatch command per line, one compensation),
their reservations and stock, raw movements, recovery actions and the machine.
`published` is the set of commands that ever reached the broker: a message may be
received at any later time, any number of times or never, and a machine's outcome
stays receivable. The machine keeps `DispenseContract`: it accepts a command that
was published and tells at most one outcome. The dispatcher reads a command and marks it
sent later; a success is looked up, its context read and then confirmed
(`confirming` holds the steps under way, for results, movements and the operator);
a recovery action is started, carried out and completed in three transactions,
`Crash` forgets the last two. Deadlines are steps that may come at any time.

`RefundDispatch` has five kinds of jobs: the leased dispatcher, the operator's
request and query, the reconciliation timer, and webhooks. Each reads the row,
calls the provider and writes the answer in a later transaction. The provider is
external: idempotent per refund number, decides once, and never pays back more
than was paid; a call that throws may have reached it. Fulfilment appears here as
what it does to the shared rows.

### PaymentCode

Attempts are rows with a trade of their own. A claim is named by its worker, since
owner tokens are fresh; `holder` is the lease. `wire` holds requests that outlive
the worker that sent them; they reach the provider at any time or never. Charge,
query and reversal are each a check of the lease, a call and a conditional write.
Expiry, the machine's cancel, webhooks and the operator's requests are the other
writers of the same rows. `NotFound` is what the provider's adapter makes of a query
for a number the provider does not have: "unknown" for Alipay, which answers
"processing" (`alipay.provider.ts:247`), "failed" for WeChat (`wechat-pay.provider.ts:771`).

### Checkout

The durable marker, the in-memory flight with its detached task, the gate (creation
lock and sale lease, always taken together), callers that create, poll, cancel and
restore, and the platform's answers. A task outlives its caller and is lost in a
`Crash`; requests on the way to the platform are not. Reconfiguration of device
bindings (`ipc.rs:3113`, `shutdown.rs:614`) looks at the fence and the active
session only, not at the marker, and is left out; so is payment by code.

### SerialDispense

`adapter` is the program counter of `dispense_inner` with its counters; `down` and
`up` are FIFO lines that lose frames; the controller is external, translated from
`apps/lower-controller-sim` and the protocol document. A read may time out whatever
is on its way, so nothing is assumed of the controller's speed. Closing the port
drops what is on the line. Two history variables: `overlapped` (the calls that found the
controller at work) and `trouble` (the calls for which a frame was late, lost or
spoilt, a fault happened or the deadline passed).

### StockSync

The daemon's side: tasks of one movement per slot, `sync` (whether a movement's
upload is due or how it was answered), the staged count and the projection:
physical and saleable stock, `blocked` (the rows of `sale_safety_blockers`) and
`state`, the `slot_sales_state`, of which "held" is `frozen` or `suspect` and "shut" is
sold out or any state that waits for a reconciliation. `Upsert` is
`upsert_stock_projection_with_state_in_tx`, the write that refills, counts, snapshots
and drops share; `apply_sale_safety_blocker_in_tx` and `block_command_slot`
(`update_slot_sales_state`) write beside it, and replace each other's mark. The
projection exists from the start, since `apply_planogram` gives every slot its row; the
planogram is the machine's first. A
refill changes the projection at once; a count is staged and overwrites it when all
its movements are accepted. The service's side: `raw`, the stored movement, and
`onHand`, `reserved`, `ledger`. The handler of an upload is a record in `call`, one
step per database call: look the movement up, store it, apply it in a transaction
of its own or make it a case, settle older cases. It may end between any two of them
(`HandlerEnds`), and its uploader may stop listening
(`mark_stock_movement_upload_failed`). Two uploaders, the timer and the request that
follows a task, may send the same movement; an uploader whose list of due uploads
is old is the same as a slow request. Cases are resolved by an operator at the
platform; a snapshot is read and applied in two steps. One order at a time sells a
unit: reserved, dropped, committed at the machine, confirmed at the platform. Or its
dispense fails, with or without a drop: the failure is journaled, the slot held in a
later transaction that may never come and that every redelivery repeats, and the
platform releases the unit or, on an operator's word, confirms it.
`applied`, `torn` and `distrusted` are history: how often a movement changed stock,
whether its handler was cut off between its two transactions, and the slots on which
a refusal or a failure was put since the operator's last refill or committed count.

## 3. Runs

| Run | Instance | States, time | Shows |
| --- | --- | --- | --- |
| `settlement` | 1 order of either provider, 2 calls in flight, fair | 114,908, 40 s | settlement under all pairs of overlapping handlers keeps `PaymentContract`; every overdue order leaves `pending_payment`, with the two exceptions above |
| `intent` | 2 requests, lease of 2 ticks, 4 leases, fair | 107,616, 36 s | the fence and what it protects; a dead creator does not stop the payment |
| `payment_code` | 2 scans, 2 workers, 4 claims, 1 upset, fair | 376,420, 142 s | one charge at a time, captured money kept, closed orders not charged, `PaymentContract` without a doubt, stale workers silent, attempts end |
| `fulfillment` | 1 line, 1 unit, 2 refunds, every operator's act | 976,793, 133 s | stock, commands and line rows agree, and what has ended stays ended, under operators, repeats and crashes |
| `fulfillment_auto` | 2 lines, 2 confirmations under way, no operator, fair | 45,715, 70 s | the service on its own: unit or money, failed lines refunded, every command ends |
| `refunds` | 2 lines, 1 refund, 2 jobs, fair | 96,969, 78 s | a refund is closed as the provider decided; every open refund ends |
| `refunds_again` | 1 line, 2 refunds, 1 job | 1,478,573, 61 s | one refund per reason; the books are backed by what the provider paid |
| `dispense` | 1 command, 2 crashes, fair | 12,218, 9 s | the daemon's safety, its contract, and that a journaled outcome is reported unless the session was over before it knew the command |
| `serial` | 2 calls, 2 frames per direction, completion sent twice | 1,431,092, 40 s | success is the call's own, failure has a cause |
| `checkout` | 2 callers, 2 keys, 2 flights, 2 planograms, 1 restart, symmetric | 715,524, 48 s | one creating task, no session written over a planogram switch |
| `stock` | 1 slot, 1 order, 2 uploads, 2 tasks, 1 upset, fair | 662,138, 190 s | movements applied once, accepted ones applied, slots with a refusal or a failure unsold until the operator came, ledger exact, uploads end |

One run ends in a counterexample, a disagreement between the code and what it says
of itself (`findings` in `PROJECT.json`): in `refund_and_compensation` (2 lines, 2
refunds) an operator compensates one line of an order while the failure of another
stages a refund; the two "are mutually exclusive" in `startRecoveryAction`, which
looks for refunds once.

### Stated and refuted

Each module ends with properties marked "Said of the code, and not so": sentences
of a comment, an error text, a test or a document that TLC refutes within seconds. They
are kept beside the model without a run.

| Property | What happens |
| --- | --- |
| `MissingTradeExpires` | a WeChat order whose trade never opened stays in `pending_payment`: its query throws at every turn of the scan (`payments.service.ts:819`) |
| `StablePaymentIsNotClosed` | an operator's close overwrites a payment that succeeded during its provider call |
| `PaidKeepsReservation` | the sweep releases the stock of a paid order |
| `PaidTradeIsNotReversed` | the machine's cancel reverses a trade paid after its check (`orders.service.ts:1155`); the order is dispensed |
| `SupersededCancelsNothing` | a request checks its lease, stalls, and cancels its successor's trade |
| `UnknownFreezesSlot`, `RemainsRecoverable` | a failure after the commit leaves the slot of an unknown outcome on sale (`mqtt.rs:399`); an outcome is not committed once the session is terminal without its command: a compensation, or an order in manual handling that an operator's query (`payments.service.ts:4597`) has dispensed after all |
| `UnknownIsManual`, `DelayedSuccessConfirms` | another line's result takes an order with an unknown command out of manual handling; a success after the reservation was swept stays a reconciliation |
| `ProcessingIsReconciled`, `RefundedStaysRefunded` | a late "processing" reopens a refund no timer looks for; a refused second refund sets a fully refunded payment back |
| `RequestIsCarriedOut`, `SucceededIsNotReversed` | an operator's query is not carried out when the claims are used up; a reversal begun under the lease reaches a trade that another worker booked as captured |
| `CapturedIsKept`, `ClosedIsNotCharged` with `NotFound = "failed"` | a charge stalls, a query of the absent trade closes the order, and then the charge arrives |
| `CreatedIsRemembered` | a poll deletes the marker of a creation that waits for the platform |
| `SuccessIsDelivered` | a call that meets a controller at work takes the end of the earlier call for its own (`serial.rs:834`, against `src/protocol/下位机协议.md:148`) |
| `CommittedIsAccepted` | a count with a movement the operator rejected is committed: sent again, it is `already_accepted` (`store.rs:5129`) |
| `CountTakesEffect` | a count below `reserved_qty`, or a crash, leaves an accepted row whose stock never changes |
| `DropFindsStock` | a count made after a drop and committed before it leaves the drop nothing to take |

### Bounds

* `MaxTasks = 2` (settlement): two overlapping handlers; a handler that finished
  before another began leaves only database state, which the run explores without
  bound. A third handler can run as a whole in between when it needs no provider
  call. One order suffices for the per-order properties, since orders share only
  `reserved_qty`; the theorems hold for any number of orders, units and calls.
* Intent: `LeaseTicks = 2` separates "held", "expired" and a renewal; two requests
  are a predecessor and a successor, `MaxFence` bounds how often the lease changes
  hands. Theorems: any number.
* Payment code: two scans are needed for a second charge, two workers for a stale
  one; four claims stand for the eight of the code (submission, a query, a
  reversal, the limit); one upset is a crash, a stall or an operator's request.
* Fulfilment: one line has the race of success, failure, timeout, operator and
  compensation for one unit; two lines without an operator have the last line
  deciding on the refund of both. Both instances hold two refunds, a failed one
  and the one after it.
* Refunds: two overlapping jobs with one refund, or two refunds with one job at a
  time; the reconciliation gives up after one attempt instead of twelve. Theorems:
  any lines, refunds and jobs.
* Dispense: two crashes reach a crash during recovery. One command leaves out
  that a second one of the order overtakes it; the theorems cover its safety, and
  `JournaledIsReported` excepts it.
* Serial: two calls are needed for an answer to an earlier one, two frames per
  direction for an overtaken heartbeat; the three attempts are the code's.
* Checkout: a second request, flight, key, planogram and a restart are each needed
  once. Theorems: any number.
* Stock: one slot of one unit has every race between count, refill, sale, case and
  snapshot; two tasks a refill after a count or a corrected count; one upset is an
  uploader that gives up, a handler that ends or a dispense that fails. That a corrected
  count keeps the accepted slots of the first needs two slots, and is covered by
  the theorems only.

`CHECK_DEADLOCK FALSE` stands where everything may be done: all leases used up, all
commands ended, all calls returned, all tasks submitted.

### Fairness

* Settlement: time passes; a handler that began ends (calls have deadlines); the
  expiry scan comes round again, and not every one of its turns is hit by a crash
  or a provider timeout (strong fairness). Nothing is assumed of customers,
  webhooks, polls or operators.
* Intent: time passes, calls have deadlines, and the machine repeats its request
  under the same idempotency key.
* Payment code: work that began goes on, due attempts are claimed by the recovery
  timer, time passes, and the lease of a worker that is gone runs out.
* Fulfilment: the scheduler dispatches and times out every minute; a dispatcher is
  not killed every time before it marks the command (strong fairness).
* Refunds: timers come round again; a service that crashes again and again does not
  always die at the same point (strong fairness of the steps of a refund's jobs);
  leases expire.
* Dispense: the service manager restarts the daemon; its loop and its worker go on;
  the database accepts the side effects in the end; the machine UI polls an
  unfinished order; the broker is reachable again and again (strong fairness).
* Stock: handlers run on, the uploader's five-second timer sends what is due and
  takes the answers, each reading of the task finalizes. Back-off (5 s doubled
  without a limit, `store.rs:7827`) is left out: an upload that failed often is
  still tried again, but hours or days later.
* Checkout, serial line: none; only safety is checked.

## 4. Proofs

All theorems are about the specifications as they stand, for every value of the
constants that satisfies the named assumptions: finite sets of orders, lines,
refunds and sales, natural bounds, placeholders distinct from what they stand in
for. Each `*Proofs` module shows `Init => IndInv`, `IndInv /\ [Next]_vars => IndInv'`
with one lemma per action, and the properties as consequences.

**Settlement.** `IndInv` is `TypeOK /\ StockAccounting /\ Evidence /\ Rows`. The
order-level guarantees are not inductive: a late write is safe only because of what
its handler knows. `Evidence` says that what a task learned cannot be refuted (a
trade seen paid was captured, one seen closed or failed is dead), which rests on
the lemma `Monotone`: trades only move towards their end. `Rows` says how the payment
row accounts for command, close and stock. From these follow `CommandNeedsCapture`,
`PaidHasCommand`, `ClosedIsNotDispatched`, `NoStrandedMoney`; `StatusIsProjection`
and the action property `SettledOnce` are proved on top. `SettlementKeepsContract`
is the refinement of `PaymentContract`: a step changes one order (`StillFrame`), and
there it moves the money or the stage as the contract allows (`Moves`). It needs the
same two invariants: a close with a definite answer is allowed because that answer
still holds (`Evidence`), and a trade is opened and paid only while its payment is
open or in doubt (`Rows`). `CommandNeedsCapture` and `NoStrandedMoney` follow from the
contract, so no run checks these two.

**Intent.** `IntentInv` adds `FenceGuards`: while a request is creating and still
owns the newest fence, no QR code was persisted, so giving the payment up is safe.
`SupersededWritesNothing` follows because every write is conditional on the fence.

**Payment codes.** `CodeInv` is `PCTypeOK /\ ClaimsInv /\ RowInv`. `ClaimsInv` says who
may write: a lease is held by a worker that is at work on that attempt (`HolderInv`),
a request that somebody waits for is that worker's (`WireInv`), a worker that holds
the lease knows its attempt (`ClaimInv`), and a worker that was told the money will
not come was told the truth (`AnswerInv`). `RowInv` is about the rows: one attempt is
in play while the payment is open (`PlayInv`), a charge that may still take money
belongs to a submitted attempt that is in play while the payment is open
(`ChargeInv`), the money is never out of sight (`KeptInv`), and `ChargedOnce`. The last
holds for every answer to an unknown number. `CapturedIsKept` and `ClosedIsNotCharged`
are proved for `NotFound = "unknown"`, and are false otherwise. `StaleWritesNothing`
is proved step by step: every write is conditional on the lease. `CodeKeepsContract`
is the refinement of `PaymentContract`, also for `NotFound = "unknown"`. `CodeEffects`
sorts the steps by what the contract sees of them: nothing, a booking, a close, a call
that leaves, an answer of the provider, a decision of the customer. One more
invariant, `SuccessInv`, says that who was told of a success was told the truth, and
that a succeeded attempt has taken its money; without it a trade that is still
absent could belong to an attempt that already counts as paid.

**Fulfilment.** `IndInv` holds `StockFollowsCommands`, `LineIsCoherent`,
`OutcomeIsMachines` and what they rest on: `RowsInv` (an active reservation belongs to
a command that may still end), `CompensationInv` (a compensation follows a failed
dispatch), `RecoveryInv` (the commands a recovery action is about have failed, and
none is compensated before its action), `UnattendedInv` (what no operator touches) and
`MoneyInv` (without operators nothing is refunded while a line is open; afterwards each
failed line is paid back, in full only when all failed). `OneLiveCommand` follows from
`CompensationInv`, `UnitOrMoney` and `FailedIsRefunded` from `MoneyInv`, `EndsAreFinal`
from the guards of each step together with `RowsInv`.

**Refund dispatch.** `IndInv` is `TypeOK`, `JobsInv` (what a job was told is what the
provider has decided, and only rows that exist have jobs), `FreshInv` (the provider
knows no number whose row does not exist), `UniqueInv` (one active refund per
reason), `RowIsBacked` and `MoneyIsBacked`. The work is in the lemmas on the operators of
`RefundLedger`: which of them keep what the books say of returned money, and which
insert a row. `OneRefundPerReason` follows.

**Dispense.** `DaemonInv` is `TypeOK /\ CoreInv /\ ReportInv /\ InflightInv`. `MotorOnce`
needs to know that what the loop holds in memory agrees with the log
(`MemoryIsCurrent`) and that the log explains the mechanism (`JournalExplains`).
`ReportsAgree` and `CommitIsWhole` need each other: a report exists only for a
committed outcome, and only the first outcome is journaled. `InflightInv` carries
that to an event the MQTT client still holds. `DaemonKeepsContract` shows the
refinement: every step of the daemon is a step of the contract or changes nothing
it sees.

**Serial line.** `IndInv` adds to the two properties `PortInv` (the port is open
exactly while a call is under way, and the lines are empty otherwise), `OwnInv` (for
a call that found the controller idle, what the controller does and what is on the
line is that call's) and `CalmInv` (without trouble the frames on the line are the
ones the adapter's state waits for). Frames carry no number: these three say which
call a frame belongs to.

**Checkout.** `IndInv` is `TypeOK`, `GensInv` (generations are handed out in order),
`FlightInv` (a task that may still write a session is the active flight), `GateInv`
(who holds the gate), `MarkerInv` (while its marker stands, such a task and the
marker name one planogram) and `SpansNoSwitch`. `OneCreator` follows from
`FlightInv`: there is one active flight. It is about the daemon's tasks: the request
of a task that timed out is still on its way to the platform.

**Stock.** `IndInv` adds `ReservedInv` (`reserved_qty` counts the orders that hold a
unit, and `on_hand_qty` covers it, over counts, refills, cases and sales), `CallInv`
(a handler that applies or marks a movement is the only one, and the row it stored
is still accepted and not applied), `FreshInv` (a movement without a row was not
applied) and `WithheldInv` (a slot that is not to be sold has a blocker, and then no
saleable stock, or else is held; `BlockedIsNotSold` follows). `AppliedOnce` needs
`CallInv`: two handlers pass the first look-up, and only the unique row decides who
goes on.

Only model-checked: liveness (`OverdueSettles`, `CreatedMovesOn`, `SubmittedEnds`,
`CommandEnds`, `OpenSettles`, `JournaledIsReported`, `UploadsEnd`), which needs
fairness and `ENABLED`, outside the prover; and the counterexample. Every other
property of a passing run is a theorem. Types are proved with each inductive
invariant (`TypeOK`, `PCTypeOK`).

## 5. Not modelled

* Row locks: each database transaction is one step. Lock-order deadlocks
  (settlement locks payment and order before the machine row,
  `payments.service.ts:3258`) are aborted by PostgreSQL and retried by the callers.
* Signatures, HTTP, parsing, formatting, logging, audit entries, notifications,
  what a provider's unknown answer is mapped to beyond the cases named.
* Several payments per order, and the limit of eight scheduled queries per unexpired
  payment; the scheduled query is allowed any number of times, and liveness does
  not rely on it.
* In the daemon: retention of the command log (`store.rs:1896`) and the outbox,
  outbox priorities and back-off, progress events, environment control, the
  whole-machine maintenance lock, device bindings, media.
* On the serial line: the fault reset's own answers (only its effect), environment
  commands, USB discovery, frame bytes.
* Of stock: conflicting payloads under one movement id, weak attribution, abnormal
  variance, the legacy single movements, the blockers that a snapshot removes from
  an obsolete reconciliation (`store.rs:5620`), a change of planogram while uploads
  are under way and the stock and blockers it takes over. A refill whose movement
  ended in a reconciliation keeps its task, so that no other refill can be submitted
  for the planogram (`store.rs:3811`).
* Hazards that no module reaches: a manual query that writes a non-terminal answer
  over the status without a condition (`payments.service.ts:4559`), a crash in the
  middle of a recovery action's own bookkeeping (`orders.service.ts:2292`), a
  partial refund that projects a fulfilment state read earlier
  (`refunds.service.ts:121`), a refund reopened by its webhook
  (`refunds.service.ts:1719`).
* Everything listed as `not_modelled` in `PROJECT.json`, with reasons there.

## 6. Plan

Done: settlement, intent, payment codes and the contract they share, refund ledger
and dispatch, fulfilment, dispense daemon and contract, serial line, checkout, stock;
proofs of all of them.

Next, in this order:

1. A composition of payment, fulfilment and refund dispatch that follows one order's
   money and its unit, over the rows of `RefundLedger`, with `PaymentContract` in the
   place of the two ways of paying.
2. `SerialDispense` under `DispenseDaemon`: the mechanism of the daemon's model
   replaced by the adapter, to say what `SuccessIsDelivered` costs the contract.
3. `StockSync` with `Fulfillment`: dispense movements and counts on one slot.
4. The fault-reset protocol of the serial line; machine commands and planogram
   versions at the service.
