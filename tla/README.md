# ADVFX in TLA+

This directory specifies the parts of the ADVFX shop whose correctness depends
on the order in which things happen, or on sums that must agree: the checkout,
the payment of an order and its fulfilment, the background jobs for product
files, the upload and conversion of 3D models, and the quote a customer pays.
The code is TypeScript: a NestJS API on PostgreSQL (`src/3d-commerce-api`) with
background workers, and a Next.js storefront (`src/3d-commerce`). TLC checks
the specifications on small instances; TLAPS proves the theorems for every
value of the constants.

| Module | Part of the system | Composed with |
|---|---|---|
| `OrderPayment` | one order and its money | `Orders`; implements `Settlement` |
| `Fulfilment` | a paid order on its way out and back | `Orders`; implements `PaidOrder` |
| `Checkout` | orders from carts, idempotency keys, a coupon's limits | implements `CouponBook` |
| `Quote` | one call of `PricingService.calculate` | |
| `ProcessingJobs` | jobs of product files and their workers | implements `JobBoard` |
| `Conversion` | a 3D conversion from its upload to the product's model | extends `ConversionUpload` |
| `Orders` | the statuses of an order and `ORDER_TRANSITIONS` | |
| `Settlement` | what the shop promises about the money of an order | `Orders` |
| `PaidOrder` | what the shop promises about a paid order | `Orders` |
| `CouponBook` | what orders that claim one coupon promise | |
| `JobBoard` | what the table of processing jobs promises | |

`MC...` modules instantiate them for TLC, `..._proofs` modules hold the theorems.

Paths below are relative to `src/3d-commerce-api/src/` unless they say more.

## The system

| Component | State | Operations | What makes it hard | What makes it correct |
|---|---|---|---|---|
| Orders (`orders/`) | `Order`, `OrderItem`, `Promotion.usageCount` | createFromCart, updateStatus, expireUnpaidOrders | customer, administrator, cron and webhook write the same row | one order per idempotency key; coupon uses given back once; status moves along the table |
| Payments (`payments/`) | `Payment`, `PaymentAttempt`; orders and payments at Razorpay | create, cancel, retry, verify, webhooks, recovery of creations and refunds | Razorpay delivers late and repeatedly, answers get lost, rows are read without locks | an order confirmed once; money is fulfilled, refunded or flagged; a refund is booked only if made |
| Returns (`orders/returns.service.ts`) | `ReturnRequest` | request, updateStatus with refund | races with the administrator's refund | one refund; order and return agree |
| Shipments (`shipments/`) | `Shipment` | update | order status is read before the write | no shipment of an unpaid order |
| Checkout, pricing (`checkout/`, `pricing/`, `shipping/`) | none of their own; they read carts, campaigns, rules, promotions | quote, calculate | sale, coupon and tax are rounded line by line, each on a sum of its own; a quote is used after a coupon has changed | totals add up; the tax is that of what is paid; the shop's price is charged; limits of coupons hold |
| Cart, wishlist (`cart/`, `wishlist/`) | `Cart`, `WishlistItem` | add, set, remove, merge | check then increment; merge of a guest cart | quantity limits; nothing lost in a merge |
| Custom build (`custom-build/`) | `CustomRequest` | submit, quote, checkout | two checkouts of one request | one order per request |
| Processing jobs (`processing-jobs/`) | `ProductFileProcessingJob`, `ProductFile` | create, claim, complete, fail, retry, recover stale | workers crash, or come back after they were given up | one active job per file; the file shows the job's outcome |
| 3D conversion (`3d-conversion/`) | `ThreeDConversionJob`, multipart uploads and objects in S3 | start, complete, abort, the worker's claim and process, publish, retry, remove | completion repeated or taken over while under way; stale workers; crash inside a publication | only whole uploads are converted; no object that is still needed is deleted; everything settles |
| Storage, product files (`storage/`, `product-files/`) | S3 objects, disk cache | put, get, invalidate | fill races invalidation | no stale object served after an invalidation |
| Products, categories (`products/`, `categories/`) | catalog rows | CRUD, hierarchy | parent moves, multipart uploads | the hierarchy is acyclic |
| Authentication (`auth/`) | users, tokens, nonces | login, register, reset, captcha | nonces presented twice | a nonce and a token work once |
| Users, notifications, administration, observability | rows | CRUD, dashboards | little | - |
| Storefront (`src/3d-commerce/src`) | guest cart and wishlist in the browser | contexts, pages | requests that fail half way | the guest cart is not lost |

The parts interact through the database and through calls. Razorpay calls
`PaymentsService.handleWebhook`; a minute cron calls `expireUnpaidOrders`, which
calls back into the payment reconciliation; `updateStatus` calls Razorpay from
inside a transaction. The worker of the processing jobs creates conversions; the
conversion worker finishes abandoned uploads through `ThreeDConversionService.complete`
and publishes through its `publish`. `OrdersService.createFromCart` prices the
cart again through `PricingService.calculate`. Every reconciliation, whoever starts it, ends in
`applyCapturedPayment` and, for money that came too late or twice, in the
refund at the end of `captureFromWebhook`.

PROJECT.json lists each component with its status and each hazard with its
line and the properties that cover it.

## OrderPayment: one order and its money

`OrderPayment.tla` models a single order from the moment createFromCart
has committed it. The state is the order's row, the payment row, one attempt
per Razorpay order, the usage count of its coupon, two row locks, what Razorpay
knows, and the program counter and locals of every handler in flight (`req`).

### Steps

PostgreSQL runs the transactions at READ COMMITTED, so a transaction is not one
step in general. A step of the specification is

- one transaction whose reads are protected by a row lock it takes first, if it
  makes no call in between (`CancelFinal`, `RefundClaim`);
- otherwise each unlocked read and each group of writes of its own
  (`CancelRead` and `CancelWrite`, `RetryStart` and `RetryWrite`);
- one call to Razorpay (`CreateCall`, `RefundCall`, `AdminRefund`).

`payLock` and `ordLock` name the transaction that holds `SELECT ... FOR UPDATE`
on Payment and on Order across steps. Every writer of a row waits for its lock
(`Writable`), as UPDATE does. A plain read does not wait.

| Code | Actions |
|---|---|
| `createRazorpayOrder` | `CreateStart` (checks), `CreateClaim` (updateMany to CREATING), `CreateCall`, `CreateCallFails`, `CreateSaveRead`, `CreateSaveWrite`, `CreateRelease` |
| `recoverStaleOrderCreations` | `RecoverStaleCreation` |
| `applyCapturedPayment` | `CaptureBegin` (row lock, reads), then `CaptureConfirm` or `CaptureLate`; `CaptureNothing`, `CaptureDuplicate` |
| refund in `captureFromWebhook` and its copies in verify, cancel and the expiry | `RefundClaim`, `RefundCall`, `RefundCallFails`, `RefundMark`, `RefundPay` |
| `verifyRazorpayPayment` | `VerifyStart`, `VerifyFetch`, then a capture |
| webhooks `payment.captured`, `order.paid` | `HookStart`, then a capture |
| webhook `payment.failed` | `FailStart`, `FailLock`, `FailCommit` |
| `cancelRazorpayPayment` | `CancelStart`, `CancelFetch`, then a capture or `CancelRead`, `CancelWrite`; `CancelFinal` after a refund |
| `retryRazorpayPayment` | `RetryStart`, `RetryWrite`, `CreateRead` |
| `expireUnpaidOrders` | `ExpireStart`, `ExpireFetch`, then a capture or `ExpireLock`, `ExpireCommit` |
| `recoverPendingRefunds` | `RecoverStart`, `RecoverFetch`, `RecoverPay` |
| `updateStatus` | `AdminStart` (checks), `AdminMove`; for a refund `AdminLockPayment`, `AdminLockOrder`, `AdminRefund`, `AdminCommit` |
| Razorpay | `RzpAuthorize`, `RzpCapture`, `RzpFail` |
| failures | `Crash`, `DeadlockVictim`, the lost answers in `RefundCall` and `AdminRefundFails` |

`confirmed[o]` counts how often a capture of Razorpay order `o` ran the
confirmation block: purchase metrics, the cart lines that are removed, the
status of the custom request.

### Abstractions and bounds

- `Req` bounds the handlers in flight (2 in the runs), `RzpOrder` the Razorpay
  orders that can be created (1 or 2). Two handlers are enough for each of the
  races below; the proofs need no bound.
- One failed payment per Razorpay order, and at most one captured payment, as
  Razorpay guarantees for an order of its own. Several failed payments would
  repeat the same event.
- Amounts and currency always match, and a refund is of the whole amount. The
  branches for a mismatch return early without a write.
- The order always has a coupon with `OtherUses` uses by other orders (1 in the
  runs), enough for a lost use to be visible.
- The include-read of an order with its payment is one step.
- `PaymentStatus.AUTHORIZED` exists in the schema but no code assigns it.
- The pending-order check that `retryRazorpayPayment` repeats before it calls
  `createRazorpayOrder` is merged with that call's reads.
- `cancelRazorpayPayment` writes three rows in `CancelWrite` in one step; a
  deadlock on the way is a `Crash` there.
- The three steps of the cron (expiry, stale creations, pending refunds) start
  independently of each other. The stale recovery has no clock: a creation may
  be declared stale at any time, since two minutes say nothing about its owner.
- `Ops` selects the operations of an instance; "crash" and "lost" in it switch
  on crashes and lost answers.

### Settlement, the abstract specification

`Settlement.tla` is the same order without handlers, locks, payment rows and
attempts: the status, the uses of the coupon, of each payment whether the shop
holds or has returned its money, the payments that confirmed the order, and
whether an administrator's refund is decided. A capture is `Confirm`, an
administrator's or the expiry's change `Move`, and the money of an order that is
being fulfilled goes back (`Return`) only between `Decide` and `Refund` or
`GiveUp`. Two things the code does are part of the promise because nothing in the
code prevents them: a capture under way confirms an order that was cancelled
meanwhile, and a decision can be lost after the money has gone.

`Ledger` in `OrderPayment` instantiates it. An authorized payment counts as none;
a refund is decided from the moment `AdminLockOrder` has compared the status under
both locks until the transaction ends. `SettledAtOnce` says that every step of the
handlers is one of its steps or none. It needs customers who neither cancel nor
retry: `CancelWrite` cancels a confirmed order and `RetryWrite` makes its money
look unclaimed, which `Settlement` has no step for.

### Fairness

`FairSpec` assumes what the code and its environment provide: a handler that
runs is resumed by Node and gets a row lock in the end (strong fairness of
`HandlerStep`, since locks come and go); the detector ends a deadlock; the cron
ticks every minute whatever else goes on (`ExpireStart`, `RecoverStart`);
Razorpay redelivers a captured event until it is answered (`HookStart`); time
passes (`CloseWindow`) and Razorpay settles authorized payments. Nothing is
assumed about customers, administrators, or calls that get lost.

## Fulfilment: a paid order on its way out and back

`Fulfilment.tla` starts where `OrderPayment` confirms the order: CONFIRMED,
payment CAPTURED, shipment PENDING, no return. From there administrators move
the order (`OrdersService.updateStatus`), update its shipment
(`ShipmentsService.update`) and decide on a return
(`ReturnsService.updateStatus`), and the customer asks for one
(`ReturnsService.create`), several of them at once. `money` says whether
Razorpay holds the captured money or which of the two refunds returned it.
`Orders.tla` holds what both modules share: the statuses of an order and
`ORDER_TRANSITIONS`.

| Code | Actions |
|---|---|
| `updateStatus` | `AdminStart` and `AdminCheck` (findOneAdmin reads the order, then the payment), `AdminMove`; for a refund `AdminLockPayment`, `AdminLockOrder`, `AdminFetch`, `AdminRefund` or `AdminRefundFails`, `AdminCommit` |
| `ShipmentsService.update` | `ShipmentUpdate`, one transaction under the Order lock |
| `ReturnsService.create` | `ReturnStart`, `ReturnCreate` |
| `ReturnsService.updateStatus` | `ReturnUpdate`, `ReturnClaim`; for a refund `ReturnPayment`, `ReturnFetch`, `ReturnRefund` or `ReturnRefundFails`, `ReturnBook` |
| failures | `Crash`, the lost answers in the two `...Fails` actions |

Neither read of `findOneAdmin` takes a lock, and a return's refund is issued
between two unlocked statements: those gaps are what the module is about.

Abstractions: a refund is of the whole amount, so what remains to be refunded is
all or nothing; a second capture of one order is excluded (`OrderPayment` shows
when it happens); tracking numbers, dates, notes and mail are left out; a
shipment update that is rejected writes nothing and is no step. `Faults` switches
crashes, transaction timeouts and lost answers on.

### PaidOrder, the abstract specification

`PaidOrder.tla` is the same order as its owner sees it: the order's status, its
parcel, its return, and whether the shop holds the money. There are no locks, no
reads that age and no payment row. `Send` is an administrator or the carrier
moving order and parcel forward, `Request` and `Rule` a return and its decision,
`GiveBack` Razorpay returning the money, and `Book` the books saying so, with or
without a return. `Promised` in `Fulfilment` instantiates it without distinguishing
which flow returned the money, and `HandledAtOnce` says that every step of the
requests is one of its steps or none. It includes `OrderForward`: no writer takes
an order back a stage. What it does not promise is what the code does not do: a
customer who saw the order delivered may ask for a return after an administrator
refunded it, and money may go back for a return that is rejected meanwhile
(`RejectedReturnKeepsMoney`, a finding).

## Checkout: orders from carts, their keys and a coupon

`Checkout.tla` models `createFromCart` called by several customers, more than
once with one idempotency key, with and without the shop's one coupon, and what
becomes of the orders as far as the coupon is concerned. The state is the
committed orders (`None` for an id that is free), `Promotion.usageCount`, the lock
on Promotion, and the calls and handlers in flight. What a transaction writes
becomes visible at its commit, so the claim of a use, the insertion and the commit
are one step, `Place`; what it reads before are steps of their own.

| Code | Actions |
|---|---|
| the lookup of the key | `Find`; again inside the transaction `TxFind` |
| `PricingService.calculate` | `Quote` (the coupon's limit), `QuoteUses` (the customer's) |
| cart and address inside the transaction | `Tx` |
| `SELECT ... FOR UPDATE` on Promotion, the count of the customer's orders | `LockPromotion`, `Count` |
| claim, `order.create`, commit | `Place`, `PlaceUsedUp`, `PlaceCollides` (P2002) |
| the `catch` | `FindCollided` |
| errors that are not about the coupon | `TurnedAway`: address, cart, prices, or a coupon switched off or expired, at any point where the code looks |
| the expiry, and `updateStatus` of an unpaid order | `Cancel`, which gives the use back (`ReleaseUse`) |
| `updateStatus` otherwise | `ConfirmByHand` without a payment; `Withdraw`, the cancellation of such an order, which keeps its use; `Refund` |
| `applyCapturedPayment` | `CaptureRead`, the status without a lock; `CaptureWrite`, CONFIRMED by id |
| closing transaction of `cancelRazorpayPayment` | `DismissRead`, also without a lock; `DismissWrite` |

Abstractions: what is bought and for how much; CONFIRMED stands for the statuses
from CONFIRMED to DELIVERED; the limits of the coupon do not change while it is in
use (an administrator may set one below the uses that exist); whether there is
money behind a step is left to `OrderPayment`. The last transaction of a cancel
with a refund (`CancelFinal` there) compares the status under the Order lock after
a capture has recorded the money; it finds nothing to cancel and is left out.

Three history variables say what the coupon's counter cannot: `returned`, the
orders whose use was given back; `strays`, uses given back once more, which a
payment dialog does that read PENDING_PAYMENT before the expiry or an administrator
cancelled the order; and `revived`, orders that a capture confirmed after they were
cancelled, although their use is free for others by then. The properties are exact
about both: `UsesAreCounted` is the counter as the code leaves it, and `LimitHolds`
and `CustomerLimitHolds` say that no order beyond the limits comes from anywhere
else, in particular not from calls that race for a use.

`CouponBook.tla` is the abstract specification: orders are placed one at a time,
with a key that is free and only while the coupon has a use left, counted over the
orders themselves. It has neither the counter `usageCount`, nor locks, nor calls.
Orders end and are confirmed in it as the code does it, also out of order: nothing
in the code prevents a cancelled order's revival, or that a dialog ends an order in
any status and gives its use back again. `PlacedAtOnce` (`CouponBook` with
`book <- orders`) says that the calls, which look, quote, lock, count and insert in
separate steps, and the handlers, which write what they read before, implement it.

The run has two calls or handlers at a time, three orders and limits of two uses in
all and one per customer: a refunded order keeps its use and frees its customer, so
both limits bind, and the last use is raced for. `Few` in `MCCheckout` bounds what
does not claim a use: one order without the coupon, or one that was revived or gave
its use back twice. The proofs need neither bound.

## ProcessingJobs: files, jobs and workers that come too late

`ProcessingJobs.tla` models the table `ProductFileProcessingJob`, the
`processingStatus` of the files, the loops of any number of API processes and
the callers of the service. A step is one statement of the database, since no
operation of this part uses a transaction; a worker keeps in between what the
code keeps in local variables: the job in hand, the attempts it read at its
claim, the stale jobs it found.

| Code | Actions |
|---|---|
| `ProcessingJobsService.create` | `CreateFind` (the two reads), `CreateInsert`, `CreateCollides` (P2002), `CreateAnswers` |
| `retry` | `RetryPasses`, its guard: the run and the proof show that it never holds, so there is no step to model |
| `ProductFilesService.delete` | `DeleteFile` (the jobs cascade) |
| `runLoop`, `processNextJob` | `Poll`, `Manual` |
| `recoverStaleJobs` | `RecoverRead`, `RecoverJob`, `RecoverFile`, for each job found |
| `claimNextJob` | `ClaimRead`, `ClaimJob`, `ClaimReload`, `ClaimFile` |
| `processFile` | `ProcessDone`, `ProcessFails` |
| `enqueueLegacyModelOptimization` | `EnqueueFind`, `EnqueueCreate`, `EnqueueNote` |
| completion, `handleProcessingFailure` | `FinishFile`, `FinishJob`; `FailFile`, `FailJob` |
| time, failures | `Age` (a job has run for longer than `staleAfterMs`), `Crash` |

`JobBoard.tla` is the abstract specification: what the table promises, whoever
works on it. A file has one active job; the only way to PROCESSING is a claim,
and every claim is counted; a job fails only with its attempts used up; what was
deleted stays away. It has no workers. `BoardKept` (`JobBoard` with `board <-
jobs`) says that every step of the workers is one of its steps or none; the late
writes of workers that lost their job are `Requeue` and `Complete` there, which
the promise has to allow, also of a job that was over.

Abstractions and bounds: reading and validating the stored file only succeeds or
fails; `Model` are the GLB files, which get a follow-up conversion. `MaxJobs`
bounds the jobs created (2), `MaxCrashes` the crashes (1); two workers are enough
for one to lose its job to the other. `Age` has no clock: work may always take
longer than the lease. `outputFileId` is never written by the code, so
`cleanupProcessedSource` has nothing to do and is left out.

Fairness (`FairSpec`): a worker whose process lives takes its next step (weak),
its loop polls again (strong, because a call of `processNextJob` shares the
worker with it here), and time passes (`Age`). Nobody has to call the service.

## Conversion: from an upload to the model of a product

`ConversionUpload.tla` has the source's multipart upload: the browser's
`uploadConversionDirect`, `start`, `complete` and `abort` of
`ThreeDConversionService`, and the worker's treatment of old uploads.
`Conversion.tla` extends it with the life of the job afterwards; its `Next` is a
step of the upload, of the worker, of an administrator, or of time. The state is
the one row of `ThreeDConversionJob`, the objects in storage that belong to it
(`store`), the multipart upload there, and what each process remembers.

| Code | Actions |
|---|---|
| `start` and its `catch` | `StartCreate`, `StartOpen`, `StartSave`, `StartUndo`, `StartFails` |
| `uploadConversionDirect` | `PutParts`; it calls complete or abort, the former also again after a lost answer |
| `complete` | `CompleteRead`, `CompleteClaim` or `CompleteTakeover` (the owner has been silent for 30 s), `CompleteReread`, `StorageCompletes` or `StorageRefuses`, `SizeKnown` or `SizeUnknown`, `CompleteQueue`; for a wrong size `DiscardObject`, `DiscardRow` |
| `abort` | `AbortRead`, `AbortStorage`, `AbortRow` |
| the upload part of `recoverStaleJobs` | `SweepUpload`; `complete` called by `Recovery` |
| `claimNextJob`, `process` | `Claim`, `Fetch`, `Convert`, `NoteConverted`, `Optimize`, `Done`, `DeleteSource`, then a publication when a target is named; `Unready` after a failed one |
| `handleFailure` | `Fails`, `FailRead`, `FailRow` |
| stale running jobs | `Overdue`, `SweepStale` |
| `publish` | `PublishClaim`, `PublishRead`, `PublishCopy`, `PublishCommit`, `PublishUndo`, `PublishUndoCopy`, `Tidy`, `TidyRow` |
| requests of administrators | `AskPublish`; `AskRetry`, `RetryRow`; `AskRemove`, `RemoveObjects`, `RemoveRow` |
| the owner of a borrowed source | `OwnerDeletes` |
| failures | `CrashCall`, `CrashClient`, `Crash` |

A step is one statement of the database or one call of the storage; reads that
the following statement repeats in its `where` are merged with it. A call of the
storage may fail without effect, or succeed with its answer lost. `Lapse` and
`Overdue` are the clocks: the 30 s after which a COMPLETING upload may be taken
over, and `staleAfterMs`.

Abstractions and bounds: Blender and the optimizer succeed or fail; an object is
there or not; `fits` says whether the parts add up to the declared size. `Kind`
gives the origins of the source (uploaded model, uploaded GLB, or borrowed, with or
without a target product); `MaxOps` the requests of administrators, `MaxCrashes`
the crashes (1 each in `Conversion_job`). `createFromExistingGlb` and `rerun` only
create the row of a job that borrows its source, a GLB of the catalogue or the
converted GLB of another job, which is where `Init` starts for it. The source
belongs to somebody else, who may delete it at any time (`OwnerDeletes`): the other
job with its publication or removal, or `ProductFilesService.delete`. An abort and a
completion are not requested for the same upload: the shipped client does one or the other. `NothingLost` was also
checked, outside the run, with two workers (16.6 million states) and, together
with the inductive invariant, with two requests (4.3 million); the theorem below
needs no such bound. The documented deployment has one worker at a time
(`docs/3d-conversion-production.md:26`).

Fairness: a call that has begun goes on, the worker's loop runs, time passes
(weak); the sweep gets to look at a lapsed upload, and the storage does not
refuse it for ever (strong, since both depend on what others do in between).
Nobody has to send a request. A state in which every call is over and the job at
rest is an end, so deadlock is not checked in these runs.

## Quote: what a cart costs

`Quote.tla` is one call of `PricingService.calculate`: `PriceLine` for each line
of the cart (or `RefuseLine`), `Ship`, `ApplyCoupon`, `ApplyNoCoupon` or
`RefuseCoupon`, `TaxLine` for each line, `Finish`. What the call reads between
its awaits (the products, the campaign, the shipping rule, the promotion) is
chosen anew where it is read, from every value there may be: an administrator may
change a table at any of them. The rounding is the code's: `Math.round`
(`Rounded`), `Math.floor` and the clamps of the basis points. `ShopPrice` is what the storefront
computes for the same product (`mapCatalogProduct` in
`src/3d-commerce/src/lib/catalog-api.ts`).

A line also carries `upTo`, the sum of the lines so far, which the code does not
keep; it says which part of the goods has been taxed. Quotients are exact, which a
double is for amounts a shop can have. Amounts are natural numbers: the DTOs check
prices and the amount of a flat rate; `admin.upsertPromotion` does not check
`maxDiscountMinor`. The run has carts of two lines over a price with odd paise and
a larger one; the amounts are kept small because TLC computes in 32 bits. The
proofs need neither bound.


## What the runs check

| Run | Instance | Properties |
|---|---|---|
| `OrderPayment_customer` | every operation, the administrator confirming by hand and refunding, with lost answers; 1.4 million states | `TypeOK`, `ConfirmedOnce`, `RefundsAreReal`, `NoStrandedMoney` |
| `OrderPayment_reconcile` | all but cancel and retry, the administrator confirming, moving on, cancelling and refunding, with crashes and lost answers; 1.2 million | `CaptureKept`, `ConfirmedNotRefunded`, `CouponReleasedOnce`, `RefundedOrderReturnsMoney`, `SettledAtOnce` |
| `OrderPayment_settles` | one Razorpay order, fair, with lost answers; 8 thousand | `WindowIsFinal`, `LateMoneyReturned`, `LostAnswerReconciled` |
| `Fulfilment_deliver` | three requests, with crashes and lost answers; 0.36 million | `TypeOK`, `ShipmentTracksOrder`, `RefundsAgree`, `CancelReturnsMoney`, `MoneyBackIsBookable`, `HandledAtOnce` |
| `Checkout_coupon` | two calls, two customers, one key each, three orders, captures, payment dialogs, administrators, crashes; 1.8 million | `TypeOK`, `UsesAreCounted`, `LimitHolds`, `CustomerLimitHolds`, `LoserFindsOrder`, `PlacedAtOnce` |
| `ProcessingJobs_fleet` | two workers, a caller, one file, two jobs, one crash, fair; 0.27 million | `TypeOK`, `OneActiveJob`, `RetryNeverPasses`, `NoFileForgotten`, `AttemptsBounded`, `BoardKept`, `JobsSettle` |
| `Conversion_job` | a request that may be repeated by the sweep, one worker, one administrator, one crash, fair; 0.3 million | `TypeOK`, `UploadWhole`, `NothingLost`, `BorrowedKept`, `CompletionRecovers`, `WorkSettles` |
| `Quote_cart` | carts of up to two lines under every campaign, rule and coupon; 0.61 million | `TotalAddsUp`, `TaxMatchesGoods`, `ShownIsCharged` |

Deadlock is checked in the runs of `OrderPayment`, `Fulfilment` and `Checkout`: a
state in which a handler is in flight and nothing can move is an error (`AtRest`
is the only stuttering step there). A worker of `ProcessingJobs` can always poll. A finished
quote, and a conversion that nobody works on, are over: their runs do not check it.

Some properties hold only up to a point, and say so: `AttemptsBounded` allows one
attempt too many per further worker, which is what late workers can cause;
`NoFileForgotten` speaks of executions without a crash, since a crash between the
writes of the job and of its file leaves the file PROCESSING for good;
`CompletionRecovers` excepts an upload that was aborted or deleted in storage. The runs of
`OrderPayment` leave operations out where the property does not hold with them;
that is what the first two runs below show, each on the smallest set of
operations.

| Run | What happens | What the repository says |
|---|---|---|
| `OrderPayment_retry_refund` | retry reads the payment row, a capture confirms the order, retry overwrites the row with PENDING; the redelivered event is taken for a late payment and the confirmed order is refunded | the comment at `payments/payments.service.ts:786` says this must not happen |
| `OrderPayment_dismiss` | cancel reads PENDING_PAYMENT without a lock, a capture confirms the order, cancel writes CANCELLED and FAILED | `payments/payments.flow.spec.ts:362`: "dismiss must not cancel a provider-paid order" |
| `Fulfilment_rejected` | a return's refund is issued between the read of the request and its claim; another administrator rejects the request in between, so the money is gone and the request stays REJECTED | `orders/return-transitions.spec.ts:26`: "never refunds an unapproved or rejected request" |
| `Conversion_published` | a publication fails, sets the stage back to READY and only then deletes its copy; another publication of the same job takes place in between, and the model of the published file is deleted | `docs/glb-cache-rule.md:27`: "Because published model URLs are immutable, an old cached GLB never needs to be overwritten" |

Each property has a mutant in PROJECT.json, a plausible mistake in one mapped
definition (the operators named `Bug...`) under which the property fails.

### Observed while modelling, without a run

Orders and payments.

- Two deliveries pass the REFUNDED check; after the first has refunded, the
  second sets the attempt back to CAPTURED (`payments/payments.service.ts:868`)
  and asks Razorpay for a second refund, which Razorpay rejects.
  `docs/security-hardening-rollout.md:39` says that the claim prevents this.
- A capture that read PENDING_PAYMENT writes CONFIRMED by id over a cancellation
  committed meanwhile (`payments.service.ts:888`), against the test at
  `orders/orders.service.spec.ts:77`. The use of its coupon has been given back, and
  another order may have taken it: the coupon is then used more often than its limit
  in all or per customer. `docs/security-hardening-rollout.md:73` says that the lock on the
  promotion prevents "concurrent claims from bypassing the limit", which is what
  `LimitHolds` and `CustomerLimitHolds` check; a revival is no claim.
- A payment dialog that read PENDING_PAYMENT gives the use of the coupon back although
  the expiry or an administrator has done so meanwhile (`payments.service.ts:329`):
  `usageCount` is too low from then on, and one order more can have the coupon. It
  also lets the counter reach 0 before the last unpaid order with the coupon has
  ended. Its expiry then throws at `orders.service.ts:738` and is rolled back, at
  every tick; the loop has no `catch` there and takes the oldest order first, so no
  later order is expired and the two recoveries of
  `orders-expiration.scheduler.ts` do not run. `WindowIsFinal` is about one order
  whose coupon other orders use as well, and does not meet this.
- An administrator who cancels an order that was confirmed by hand and never paid
  does not give its use back (`orders.service.ts:555`).
- `ORDER_TRANSITIONS` lets an administrator confirm an order that nobody paid,
  against the comment at `orders/orders.service.ts:24`.
- An administrator's cancellation looks at the payment before its transaction
  only. When the order was confirmed by hand while a capture was under way, the
  capture leaves its status CONFIRMED, so the comparison of the status under the
  lock does not notice it: the order is CANCELLED with its captured payment, and
  the redelivered event is answered as already captured. The comment at
  `orders/orders.service.ts:469` says what must not happen: "a paid customer with
  no refund and no order". `OrderPayment_customer` has no such cancellations.
- A crash between the commit of a late capture and the claim of its refund
  strands the money: the redelivered event is answered as already captured.
  `OrderPayment_settles` therefore has no crashes.
- A second call of `createFromCart` with its key and a coupon may miss the order
  at the lookup and then find the customer's only use taken by that order: the
  answer is the coupon's error (`orders.service.ts:211`), not the order, as
  `orders.service.spec.ts:22` has it for collisions.

Processing jobs.

- `retry` can never succeed: a FAILED job has no attempts left.
- The recovery re-queues by status alone, so it can take away a job that was
  claimed again after it was read; workers write their outcome by id, so a late
  one revives a COMPLETED job or exceeds `maxAttempts`.
- The recovery's write of the file, delayed, can leave a file PENDING whose job
  is COMPLETED; a crash before it leaves the file PROCESSING with a FAILED job.
- `enqueueLegacyModelOptimization` reads and then creates: two workers can create
  two conversions of one file.

Conversions.

- A worker whose automatic publication lost to an administrator's writes READY by
  id over PUBLISHING or PUBLISHED (`three-d-conversion.worker.ts:233`).
- Who loses the claim of a completion goes on when the winner is still completing
  (`three-d-conversion.service.ts:151`), although the comment at line 156 says the storage is called once.
- PUBLISHING is left for ever by a crash or a failed copy; no sweep looks at it.
- COMPLETING stays when the upload was aborted or its object deleted before a
  crash: every later attempt fails for lack of an answer about its size.
- With two workers, a late one can mark a job READY whose output an
  administrator's retry is deleting; the publication then fails at the copy.
- A rerun that waits loses its source when its original is published, perhaps by the
  worker itself, or removed (`three-d-conversion.service.ts:472`, `:593`), and a job
  made from a product's file when the file is deleted
  (`product-files/product-files.service.ts:281`). It then fails at the fetch. `trashed` records what administrators, and the owners of
  borrowed sources, have begun to delete, and `NothingLost` speaks of the other
  objects.
- `handleFailure` on a row deleted meanwhile ends in an unhandled rejection; two
  retries at once reset a job that is running again.

- A repeated call of `ModelMultipartService.complete`
  (`products/model-multipart.service.ts:152`) is refused by the storage, and its
  `catch` deletes the object that the first call has queued a conversion of. The
  shipped client calls it once.

Prices.

- `displayedAmountMinor` in `products.service.ts` ignores the campaign's category,
  although its comment says it mirrors the storefront.
- `ShippingService.quote` breaks ties by the oldest rule, `calculate` by the
  newest, and only the former restricts weights to WEIGHT_BASED rules.
- The CSV import creates sizes on sale at a price of 0 when none is given; the
  bulk recalculation can overwrite a price set by hand meanwhile and skips
  ARCHIVED products; two writers of a price can leave two active ones.

Cart, custom requests and the payment page.

- The limit of 99 is checked on a read and applied by an increment
  (`cart/cart.service.ts:50`); a guest's cart can be merged twice; the cart may
  change between the quote and the order made of it, which the code turns away by
  comparing the total.
- Two checkouts of one custom request make two orders, the later one taking over
  the link (`custom-build/custom-build.service.ts:299`).
- "The checkout total changed" does not refresh the quote on the payment page,
  which looks for "Cart changed" only.


## What is proved

For every value of the constants, from the assumptions named in the modules
(bounds are numbers, `None`-like constants are none of the other values, workers
and administrators of a conversion are different processes), each theorem from
an inductive invariant of its own. PROJECT.json lists the theorems with the
properties they state.

**`OrderPayment_proofs`**: `TypeOKHolds`, `ConfirmationHappensOnce`,
`BookedRefundsAreReal`, for any number of handlers and Razorpay orders, with
crashes, deadlock victims and lost answers. The thirty actions are first reduced
to a few shapes (`CaptureShape`, `RefundShape`, `CreateQuiet`), which say what a
step does to the order, the attempts and the confirmations. `TypeInv` adds to
`TypeOK` that a captured payment row names a payment of one of the order's own
Razorpay orders. `ConfirmInv`: nothing is confirmed while the order is
PENDING_PAYMENT, no step leads back there, and a handler about to confirm that
read PENDING_PAYMENT holds the lock on Payment, so it is alone. `RefundInv`: a
handler about to book a refund has Razorpay's answer, and Razorpay never takes a
refund back.

**`OrderPayment_money_proofs`** sets apart the two handlers that write rows from an
older, unlocked read, each only where it does harm; crashes, deadlock victims, lost
answers and every move of an administrator are included throughout.

| Theorem | Operations it excludes |
|---|---|
| `OnlyDismissOrAdminCancelsPaid`, `RefundNeverDeadlocksWithCapture`, `OnlyBlindWritesLeaveTable` | none |
| `CouponIsReleasedOnce` | cancel (`WithoutCancel`) |
| `FulfilledOrderKeepsItsMoney`, `RefundedMeansReturned` | retry (`WithoutRetry`) |
| `CapturedStaysCaptured`, `OrderImplementsSettlement` | both |

The exclusions are as weak as the code allows. TLC finds `CouponReleasedOnce`
violated on the instance of `OrderPayment_reconcile` once cancel is added to its
operations, and `ConfirmedNotRefunded` and `RefundedOrderReturnsMoney` once retry
is; `CancelWrite` and `RetryWrite` both overwrite a captured row.

`OrderLockInv` holds for every operation: the expiry about to cancel, and an
administrator about to refund, hold the lock on Order, and the expiry under its
lock still sees PENDING_PAYMENT. `OnlyDismissOrAdminCancelsPaid` follows, an
action property no run checks separately (`OrderPayment_dismiss` shows that its
exception for the payment dialog is needed). `LocksInv` says who may hold each row
lock at which of its steps; `RefundNeverDeadlocksWithCapture` follows: an
administrator's refund and a capture never wait for each other, which is what the
comment at `orders/orders.service.ts:496` claims of the lock order. It is about that
pair only. The expiry locks Order before Payment and can deadlock with either,
which `DeadlockVictim` breaks; the closing transaction of a cancel writes Order,
then Payment, and can deadlock with a capture, too, but is one step here.
`OnlyBlindWritesLeaveTable` says that every change of the order's status is in
`ORDER_TRANSITIONS`, by `TableInv` (an administrator's target follows from the
status read, which is the order's own once both rows are locked), and names the
two exceptions, a capture that confirms and `CancelWrite`: the cancelled order
that a capture revives can be revived by nothing else. `CouponInv`: without
cancel, the order's own use is among those counted while it is PENDING_PAYMENT,
and no others are released.

`MoneyInv` says how the rows agree: while the order waits, and while a handler is
about to confirm it from a status it has read, nothing has been captured
(`Fresh`); the payment row of an order that a capture confirmed names that capture
(`Backed`); a claimed refund is never of that capture (`ClaimsOther`). For each
handler it says what stays true until its next step: a refund under way finds no
order its capture confirmed (`ReturnsOther`), and an administrator who refunds
holds both locks and the confirmed capture (`AdminKnows`). `OthersKeep` shows once
what each of the thirty actions owes the handlers that do not take it; `BlandMoney`
and `SoberMoney` deal with the actions that write little.

The refinement needs `RealInv` besides: whoever books or refunds a payment has one
that Razorpay captured, and no handler is about to revive a refunded order. Each
action is then shown to be one step of `Settlement` (`CaptureStep`, `ReturnStep`,
`ExpireStep`, `MoveStep`, `DecideStep`, `AdminRefundStep`, `BookRefundStep`,
`CrashStep`, `PayStep`) or invisible to it (`Mute`). TLC checked `RealInv` on the
instance of `OrderPayment_reconcile` first.

**`OrderPayment_stranded_proofs`**: `NoMoneyIsStranded`, for every operation of
the customer, cancel and retry included, without crashes and without
cancellations by an administrator (`WithoutCrashOrAdminCancel`), which strand
money as described above. `StrandInv`: the payment row names a capture of an
order that is not being fulfilled only until the handler that recorded it claims
its refund (`LateIsClaimed`), and a recorded capture's attempt moves on to the
refund only (`Consistent`). It rests on what handlers know: who saves a new
Razorpay order is the only one to have it, who applies a capture has one that
Razorpay confirmed, and `payment.failed` acts under a lock that no capture passed.

**`Fulfilment_proofs`**: `TypeCorrect`, `ShipmentsTrackOrders`,
`RefundsAreAgreed`, `CancellationsReturnMoney`, `MoneyBackCanBeBooked`,
`OrdersMoveForward`, `FulfilmentKeepsPromise`, for any number of concurrent
requests. The properties are not inductive alone: a request acts on what it read
several steps ago. `OrderIsPaid` says that the order has a paid status or is
REFUNDED, `AdminInv` what a request of an administrator still knows at each of its
steps, and `ReturnInv` that a return exists only of an order DELIVERED or REFUNDED
and that the money is back wherever a return is about to book it. The refinement
of `PaidOrder` adds `Asked`, that what a request on a return wants may follow from
the status it saw, which is what makes its conditional update a step of the
abstract return; it has one lemma per group of actions, and `ShipmentTracksOrder`
gives `Send` its parcel. `OrderForward` has its theorem too; no run checks it
apart from `HandledAtOnce`.

**`Checkout_proofs`**: `TypeCorrect`, `UsesCounted`, `LimitIsKept`,
`CustomerLimitIsKept`, `LosersFindTheOrder`, `DialogsGiveBackTwice`,
`OrdersRefineBook`, with captures that revive, dialogs that give back twice and
every move of an administrator. Uses are cardinalities of sets of orders, so the
proofs rest on the library's theorems about finite sets. `CallInv` says that a call
between its count and its commit holds the lock on Promotion, and that its customer
has a use left for all that time; it stays true because nothing but a claim adds an
order to those that are counted: a capture that revives one puts it among the
revived. `KeysAreUnique`: no two orders have one key of one customer.
`CounterInLimit`: the counter never passes the limit, although the coupon may.
The writes to orders are of three kinds, those that give a use back (`GivesBack`),
that only end an order (`Keeps`) and that confirm one (`Confirms`); each is shown
once to keep the invariant and to be a step of `CouponBook` (`WriteStep`,
`WriteIsInBook`), whoever makes it. The refinement of `Place` takes the invariant:
the counter that it compares is the number of uses that `CouponBook` counts, and
what a call counted under the lock is still so when it commits.
`DialogsGiveBackTwice` says where `strays` come from: every other step leaves them
alone, because an order that is PENDING_PAYMENT has not given its use back.

**`ProcessingJobs_proofs`**: `TypeCorrect`, `OneActivePerFile`, `RetryIsDead`,
`JobsRefineBoard`, `AttemptsAreBounded`, `NoFileIsForgotten`. `Table` (an id without a job is blank, a failed job is
exhausted, a file has one active job) is kept by every step of `JobBoard`,
whoever takes it; `Memory` says that no worker remembers more attempts of a job
than there are. Each needs the other: a worker may only write FAILED because what
it remembers is not too much, and what it remembers stays right because attempts
never decrease on the board. The refinement follows: every action is a step of
the board or leaves it alone. `AttemptsAreBounded` needs finitely many workers
(`WorkerAssumption`): from the moment a job's attempts are used up, its attempts,
its place in the queue and the number of workers that remember fewer attempts than
there are cannot grow together (`Budget`), because each return to the queue costs
one such worker. `NoFileIsForgotten`: only a claim shows a file as PROCESSING, and
without crashes whoever did is still on the way to write it (`OnItsWay`).

**`Conversion_proofs`**: `TypeCorrect`, `QueuedUploadsAreWhole`,
`BorrowedIsKept`, `NothingIsLost`, for any number of requests, workers and
administrators. `IInv` has `Fresh` (before the job's row is complete nothing else
of it exists), `NotYetWhole` (until the storage has completed the upload the row
has not left its upload) and `SharedSafe` (nobody remembers a borrowed source among
the objects to delete, and it is in storage until its owner deletes it). `Stored`
extends it for `NothingIsLost`: an upload
of the right size is never discarded by a completion (`DiscardsMisfits`), its
abort excludes its completion (`AbortAlone`), and whatever a worker or a
publication relies on is in storage or among what an administrator, or the owner of
a borrowed source, began to delete
(`WorkStored`, `SourceKept`, `OutputKept`, `RemovalsKnown`).
`OnlyFailedPublishWithdraws` narrows the finding of `Conversion_published`: nobody
has the key of the published model among the objects that they tidy up or remove
(`Harmless`), so a published model can only be lost to the failure path of
`publish`.

**`Quote_proofs`**: `TypeCorrect`, `TotalIsRight`, `TaxIsRight`, `ChargedAsShown`,
for carts of any length and any prices, rates, rules and coupons. `Inv` follows
the sums through the loop over the lines (`SumsAgree`, `LinesAddUp`, `TaxSoFar`).
The heart is `OneLine`: the discount's share of a line is rounded down and its
tax rounded to the nearest unit, which together put the tax off by less than one
minor unit per line.

### Only model-checked

- Everything about what must happen in the end: `WindowIsFinal`,
  `LateMoneyReturned`, `LostAnswerReconciled`, `JobsSettle`, `CompletionRecovers`,
  `WorkSettles`. The prover handles neither fairness nor ENABLED.

No module uses a RECURSIVE operator, and no theorem needs an induction over data:
the loops of the code are steps of the specifications.

## Not modelled, and why

- **Cart, wishlist.** Writes of one line each. Two requests that race on a line
  can pass the limit of 99, and a cart merged twice counts twice, so no property
  about quantities survives; what protects the shop is the comparison of the
  totals when the order is made. A decrement after a confirmation acts on lines
  read before it.
- **Custom build.** Its checkout creates an order in PENDING_PAYMENT, which
  `OrderPayment` covers from there on; quotation and the link to the order are
  writes of one row.
- **Multipart uploads of products** (`products/model-multipart.service.ts`). A
  second copy of the protocol of `ConversionUpload`, without a row before its end,
  hence without takeover and sweep.
- **Products, categories, users, addresses, notifications, administration,
  observability.** Administration of single rows, lists and counters; the few
  races on two rows are in the observations above.
- **Authentication.** What matters is cryptography and expiry by the clock; a
  captcha's nonce is consumed by one insert under a primary key.
- **Image and mesh processing, manufacturing prices.** Numerical code behind
  library calls; the conversion sees only that it succeeds or fails.
- **Storage.** The disk cache, signing and streaming. What complete, abort, head,
  copy and delete do to the objects of a conversion is in `ConversionUpload` and
  `Conversion`.
- **Shipping rules.** `Quote` takes any rule; which one matches a cart is left open.
- **Partial refunds** and amounts that do not match. Refunds in the specifications
  are of the whole amount.
- **Storefront.** Contexts and pages mirror the server's state;
  `uploadConversionDirect` and the catalogue's price are modelled.

