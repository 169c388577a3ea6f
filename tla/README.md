# Vertov: a TLA+ verification of its credits, jobs, billing and documents

Vertov sells generated video and images for prepaid credits. A customer's
request takes a hold on credits, a worker buys the generation from a vendor,
and in the end the hold is charged or returned. Around that stand the ways money
comes in (checkouts, renewals, refunds), the budget of the expensive last vendor, paid
requests of the script editor, studio renders, boards edited in several tabs, and what
is kept or deleted when. This directory holds TLA+ specifications of all of these,
the TLC configurations that check them on small instances, and TLAPS proofs of
their safety. Paths below are relative to `src/`.

1. [The system](#1-the-system): components, state, interactions, hazards
2. [The modules](#2-the-modules): what each models and how it maps to the code
3. [The runs](#3-the-runs): questions, bounds, why they are enough
4. [Fairness](#4-fairness)
5. [The proofs](#5-the-proofs)
6. [Findings](#6-findings)
7. [Not modelled](#7-not-modelled)
8. [Plan](#8-plan)

## 1. The system

Three processes share one PostgreSQL database, one Redis (with BullMQ queues on
it) and an object store: the web application (`apps/web`), the HTTP API
(`apps/api`) and any number of workers (`apps/worker`). Nothing is shared in
memory; everything that can go wrong goes wrong between two statements of two
processes, between the database and a queue, or between us and a vendor.

```
 API --one transaction: job + hold + outbox row--> PostgreSQL
                                                      |
              drainer (every worker, 2 s poll) <------+
                          |  jobId = outbox row id
                          v
                BullMQ: jobs.run, credits.commit, credits.refund, mail, ...
                          |
        runJob --submit/poll--> vendor        commit/refund processors
          |                                          |
          +--one transaction: status + outbox row----+--> credit ledger
 reapers (leader-locked interval) ---> jobs stuck, claims stale, credits expired
```

### Components

Each entry: the state it keeps; its operations; what is hard; what makes it
correct. `PROJECT.json` repeats the list with its status.

**Credit ledger** (`packages/credits/src/service.ts`,
`packages/db/schema/credits.ts`). *State:* double-entry rows
`credit_transactions`, one unique idempotency key per leg; `credit_buckets`
(granted, reserved, consumed, origin, expiry); `credit_bucket_allocations`, which
job holds how much of which bucket. *Operations:* grant, reserve, commit, refund
(full and partial), clawback, expiry of the registration gift, extension of a
billing cycle. All but grant lock the user's row first. *Hard:* three tables
must move together in five operations; holds outlive the buckets' expiry and
clawbacks; replays must be free of effect. *Correct when:* no bucket is
oversold, the two books agree, a hold stays backed until it is settled, and
settlements never exceed the hold.

**Transactional outbox** (`packages/credits/src/outbox.ts`, `queues.ts`).
*State:* `outbox_jobs` (queue, payload, attempts, next attempt, processed).
*Operations:* enqueue in the caller's transaction; drain: select a batch without
locks, add each row to its queue, mark it; count failures; dead-letter; redact
mail; pace settlements. *Hard:* every worker drains, nothing is locked between
select and mark; calls fail after taking effect; a release that does not know
a queue; settlements must never be dead-lettered. *Correct when:* processed
means handed over, settlements leave in the end, nothing starves, redacted
mail is never sent.

**Generation jobs** (`apps/api/src/jobs-routes.ts`, `apps/worker/src/job-runner.ts`,
`reaper.ts`, `packages/db/src/route-attempt-journal.ts`,
`packages/providers/byteplus/src/journaled-adapter.ts`,
`fallback-chain-adapter.ts`). *State:* `jobs` (status, `provider_job_id`,
`requeued_at`), the journal of provider submits, the BullMQ message with its
lock and counters, the locals of every running `runJob`, and what the vendor
is generating at our expense. *Operations:* create, deliver, claim, recover,
submit on a leg, poll, persist, settle, fail, retry, sweep, erase. *Hard:*
at-least-once delivery with expiring locks; a paid submit whose answer is lost;
a reaper and an account erasure that end jobs under a live worker; a commit
whose acknowledgement is lost. *Correct when:* a job ends once, settled as it
ended, nothing is bought twice, and every job ends.

**Settlement** (`job-runner.ts`, the commit and refund processors in
`apps/worker/src/index.ts`, the erasure in `apps/api/src/me-profile.ts`). The
commit, partial refund and refund rows of one job reach the ledger in any order
and more than once. *Correct when:* the hold is either charged or returned, for
good, and nothing stays held.

**Official-leg budget** (`packages/db/src/official-leg-ledger.ts`,
`packages/providers/byteplus/src/official-fallback-adapter.ts`,
`apps/worker/src/official-leg-budget.ts`). *State:* one row per attempt on the last leg:
what was booked, billed and earned. *Operations:* reserve under an advisory lock,
settle by invoice or estimate with the job, release, sweep. *Hard:* a settlement
between the reading of the budget and the booking; a failed submit beside a billed one of
the same job; a crash between booking and submit. *Correct when:* no attempt goes out that
could exceed a cap, no billed loss leaves the books, no booking stays for ever.

**Provider adapters and leg health** (`packages/providers/byteplus/src`). *State:*
the circuit breaker's counters per leg. *Correct when:* a leg that is down is
tried last and comes back. The submit protocol itself is in `GenerationJob`.

**Studio renders** (`apps/worker/src/studio-render.ts`, `render-reaper.ts`,
`apps/api/src/studio.ts`). *State:* render status, the uploaded file.
*Operations:* enqueue, claim, checkpoints, complete, cancel, reap. *Hard:* a
cancellation between the last checkpoint and the completing update; two
deliveries of one message. *Correct when:* what the owner or the reaper decided stands,
and exactly a render that succeeded has an item, one, with its file.

**Billing: checkout intents, webhooks, refunds** (`apps/api/src/billing-intent.ts`,
`billing.ts`, `tochka-refund-reconciliation.ts`). *State:* pending
orders that claim a subject, payments at the bank, refunds in parts, the plan an
order made. *Hard:* a checkout that dies between order and
payment, a payment that succeeds after it was declared dead, webhooks twice,
late and out of order, three paths that reverse one grant, metadata replaced behind a settlement. *Correct when:* one
payable order per subject, one plan per paid order, and what was taken back is the
share of what was refunded.

**Subscriptions** (`apps/worker/src/subscription-cycle.ts`,
`apps/api/src/subscriptions.ts`). *State:* subscription status and period, renewal
orders, the agreement at the bank. *Hard:* a charge whose outcome is unknown, a customer
who cancels, upgrades or opts out during a renewal, a crash between order and charge.
*Correct when:* a cycle is granted once, for a paid order, and no renewal hangs.

**Welcome programme** (`packages/credits/src/welcome.ts`, `welcome-progression.ts`,
`welcome-expiry-reaper.ts`). *State:* one event per user and level, the rows of device
clusters and phones, counters of registrations. *Operations:* five grants, each asked for
again on every visit; the expiry of the first. *Hard:* the tabs of one user and the
accounts of one device ask at once, and each decides on what it read before it had a
lock; an expiry sweep of limited size. *Correct when:* a level is given once, a phone serves
one account, and a device stays under its cap.

**Paid script requests** (`apps/api/src/paid-claim.ts` and its callers). *State:* a
claim with a lease, a hold. *Hard:* reclaim by the next request, by the reaper,
and the late answer of the first handler. *Correct when:* a result is paid for once
and can be fetched again, every settlement finds its hold, no hold is stranded.

**Spend guard and rate limits** (`apps/api/src/spend-guard.ts`, `rate-limit.ts`,
`auth-throttle.ts`). *State:* Redis counters by day and window. *Hard:* a release
keyed by another day; a crash between reserve and release.

**Boards and folders** (`apps/api/src/boards.ts`, `folders.ts`, the editor's
`board-autosave-engine.ts` and `board-persistence.ts` in `apps/web/lib`, and
`GraphBoard.tsx`). *State:* a document with a revision on the server; in each tab a copy,
the engine's marks, a recovery copy in the browser; requests in flight. *Hard:* two
tabs, a request nobody waits for that arrives late, an edit during a save, a reset.
*Correct when:* no acknowledged edit is lost but by the user's choice.

**Retention** (`packages/db/src/media-retention.ts`; `gallery-reaper.ts`,
`project-trash-reaper.ts`, `anon-account-reaper.ts` in `apps/worker/src`; the claim of a
guest's work in `packages/auth/src/index.ts`). *State:* an expiry per media item, set by
every change of what its owner has paid for; guests' accounts, their work, objects under
their prefix. *Hard:* five handlers that must each set the clock; objects and rows that
are deleted in two steps; a reaper that compares two tables read at different moments, and uploads that
wait for none of its locks.
*Correct when:* paid media stay, unpaid media have a clock, the reaper takes nothing
from a person, and rows go after the objects that only they lead to.

**Routing and pricing** (`packages/shared/src/select-route.ts`,
`packages/credits/src/pricing.ts`, `apps/api/src/pricing-resolver.ts`). Pure
functions of configuration.

**Job events, scripts and studio timelines, administration and support, web
application, authentication, deployment.** No state machine of their own beyond
single-row updates; see [section 7](#7-not-modelled).

### Hazards

`PROJECT.json` lists what can go wrong at the line where it bites and is hard to
reach with a test, each with the properties that would show it. Three have no
property that a run checks: the welcome gifts' expiry sweep is not modelled; the renewal order
that a crash leaves pending and the requeued job whose message is gone are in the models, but
what follows from them is a choice of the code ([section 6](#6-findings)). The overlap of two
workers after a lost lock is covered in part: that a failed job stays failed is proved, that
nothing is bought twice holds only while BullMQ's lock does.

## 2. The modules

| module | models | implements |
| --- | --- | --- |
| `Tally` | sums of a row of integers, as a recursive function | |
| `CreditLedger` | the ledger of one user | |
| `JobHold` | abstract: the ledger as one job sees it | |
| `LedgerHolds` | that `CreditLedger` implements `JobHold` for every job | `JobHold` |
| `OutboxPromise`, `JobPromise` | the state that others see of the outbox and of a job, and what is promised of it | |
| `Outbox` | the outbox with racing drainers | `OutboxPromise` |
| `HoldPromise` | abstract: a hold is charged or returned, once | |
| `GenerationJob` | one generation job | `JobPromise`, `HoldPromise` (with sound locks and acknowledgements) |
| `Core` | `CreditLedger`, `Outbox` and `GenerationJob` side by side | `JobHold`, `OutboxPromise`, `JobPromise` |
| `JobSettlement` | `GenerationJob` composed with `JobHold` | `HoldPromise` |
| `PaidClaim` | paid script requests of one user, with their holds | |
| `LegBudget` | jobs that compete for the last leg's budget | |
| `Checkout` | the checkout of one subject by several requests | |
| `Refunds` | one paid order and its refunds | |
| `Renewal` | one subscription through its cycles | |
| `WelcomeGrants` | the grants of the welcome programme, as racing transactions | |
| `MediaRetention` | one user's media under changes of the account | |
| `RenderPromise`, `BoardPromise`, `ReaperPromise` | the state that others see of the next three, and what is promised of it | |
| `StudioRender` | one render | `RenderPromise` |
| `BoardAutosave` | one board in several tabs | `BoardPromise` |
| `GuestWork` | a guest's work, its claim at sign-in, the reaper of guests | `ReaperPromise` |
| `Billing` | `Checkout`, `Refunds`, `Renewal`, `MediaRetention` and `WelcomeGrants` side by side | |
| `Work` | `PaidClaim`, `LegBudget`, `StudioRender`, `BoardAutosave` and `GuestWork` side by side | the promises of the last three |
| `*Proofs` | the proofs ([section 5](#5-the-proofs)) | |
| `MC*` | constants for TLC | |

`JobHold` ties the pieces together: `CreditLedger` implements it (run `core`), and
`JobSettlement` uses it in place of the whole ledger. `Core`, `Billing` and `Work` put
components side by side, each with its own constants. These share no variable, so that
their interleavings would tell nothing new: the variable `focus` picks at the start the one
part that a behaviour is about, and the others rest. A fairness condition of a part is
guarded by its focus. The runs and the theorems are about the same `Billing!Spec` and
`Work!Spec`: `MCBilling` and `MCWork` only give the constants values. A promise module
declares the variables it speaks of, and both the component and the composition (`Core`, `Work`)
extend it, so that
the component's proof, in a module of its own, is about the property that the run checks.

### CreditLedger

One user; one action per operation, because every operation is one transaction
under the user's row lock (grant is one conflict-free insert). A call the code
refuses or replays changes nothing and is a stuttering step.

| TLA+ | code |
| --- | --- |
| `buckets` | `credit_buckets`, in creation order |
| `held[j][b]` | allocation rows of job j on bucket b: reserved less settled |
| `legs[kind][j]` | the pair of `credit_transactions` legs of job j under the parent key of that kind, 0 if absent |
| `grantLegs`, `clawLegs`, `l0Expiry` | the single legs of grants, clawbacks and the gift's expiry |
| `Walks` | the loops that take credit bucket by bucket in an order; stated as the one vector of amounts a greedy walk takes |
| `SpendOrder`, `ClawbackOrder` | the ORDER BY clauses: origin's priority, then expiry, then age; the clawback takes the order's own buckets first |
| `Grant`, `Reserve`, `Commit`, `Refund` | `grant`, `reserve`, `commit`, `refund` (full or partial by its key) |
| `Clawback`, `ReversePayment` | `clawback` with its debt bucket, behind `reversePaymentGrant`'s cap |
| `ExpireL0` | `expireL0ForUser`; its 72 hours are left out, it may come at any time |
| `ExtendCycle` | support's extension of a cycle's buckets (`admin-panel.ts`) |

The settlements are called with any amount from `HoldAmounts`, not only the right
one, and in any order: whatever the callers do, the ledger protects itself.

### Outbox

Every drainer has a program counter per row, since a batch is processed by
`Promise.allSettled`. Select reads without locking; add, mark and the failure
statements are steps of their own, so another drainer, a crash or a deployment
can come between any two. `AddFails` covers the call that fails after it took
effect. `handed` is what BullMQ was really handed, as data read from the drainer's
copy of the row: "full", or "redacted" when the text was already removed. Time is
one Boolean per row: `waiting` is true while its backoff runs.
`registered` is what queues the running release knows; `Deploy` replaces it.
BullMQ is external: it ignores an add under a retained id and may forget one that
has ended (`Evict`). `Revive` is the operator of the comment at
`packages/credits/src/outbox.ts:98`; it is enabled only for `RevivedKinds`. `NoQueue` counts a
row of an unknown queue like a failed call, as the code does; the comment above the code says
otherwise ([section 6](#6-findings)).

### GenerationJob

One job, its message and up to two overlapping runs of `runJob`. Each statement,
transaction or vendor call is one step; `run[w].at` names the step, the other
fields are the function's locals. `Crash` may come before any step.

| TLA+ | code |
| --- | --- |
| `status`, `requeued`, `token` | `jobs.status`, `requeued_at`, `provider_job_id` (as the attempt it belongs to) |
| `owed` | settlement rows written to the outbox, and "erased" for the refund the erasure makes itself |
| `journal` | `route_attempt_journal`, one outcome per attempt |
| `live` | history: attempts the vendor accepted, whose end nobody has seen |
| `delivery` | BullMQ: waiting, active under a holder's lock, ended; attempts and stalls |
| `Read`, `Claim` | the read of the row and the guarded claim, two statements |
| `Recover` | resume from the handle, from an accepted journal row, or refuse to submit while one is unresolved |
| `Begin`, `Vendor`, `Record*`, `NextLeg`, `InlinePoll` | `generate` of the journaled legs inside the fallback chain |
| `Settle` | the settling transaction under the user's advisory lock |
| `CloseAttempt`, `Requeue`, `FailJob`, `CloseFails` | the catch block |
| `Sweep` | `sweepStuckJobs`; its timeouts are left out: it may come at any time, which includes every real moment |
| `EraseReads`, `EraseWrites` | `DELETE /v1/me`: it reads the open jobs, then refunds and fails them |

`Faults` switches on what the infrastructure does rarely: "lock lost" (BullMQ's
lock expires under a live worker), "ack lost" (a commit succeeds and its
acknowledgement does not arrive), "gateway gone" (a provider's keys are removed
between two runs). The last conditions `Bindable`.

### JobSettlement

`GenerationJob` with a `JobHold`: creating the job reserves, the outbox rows in
`owed` land by `Land(key)` whenever the ledger will take them, the erasure refunds
inside its transaction. The amount charged is any amount up to the cost.

### PaidClaim

Requests of one user and one operation, each with the row it may insert and the hold
it may take. The handler's statements are steps of their own (`Claim` to `Close`), since the
call of the model takes seconds and a lease can run out at any of them. `Reclaim` is
`reclaimStaleClaim`: it deletes the row and schedules the refund in one transaction, but
only if the row says that credits were held. `Sweep` is the reaper's version of it.
`Commit` and `Refund` are fenced by the row: whoever finds it gone leaves the money to
the one who took it. `owed` are the outbox rows, `Land` is their arrival at the ledger.

### LegBudget

`rows` is `official_leg_spend` in order of booking; `Loss` and `Spend` are the sums of
`readOfficialLegSpend`, per job and floored at zero, so that one job's profit does not hide
another's loss. `ReadBudget` and `Book` are the two statements under
`OFFICIAL_LEG_RESERVATION_LOCK`, which `Finish` takes as well. The model gives each attempt
the vendor's true bill, known to nobody until it is invoiced, so that the properties can
speak of it. `Release` closes one failed submit, `Tick` is the reaper's sweep with the jobs it
fails, `Age` moves the oldest rows out of the window. One window stands for the day's and
the month's, which follow the same rule.

### Checkout, Refunds, Renewal

`Checkout`: a request inserts a pending order that claims its subject (the unique
index on the live intent), or finds the one that does and resumes it (`Drive`), or probes a
bound one and buries it when the bank says that it is dead (`Ask`, `Bury`). `Create` goes to the
bank with the order's id as key; `Release`, `Attach` and `Annotate` are the statements after it.
`Settle` and `Cancel` are the webhooks, at any time and repeatedly. `named` is whether the
order's metadata name the subscription it delivered: `Settle` writes that, and `Annotate`, the
handler's last statement under Tochka, replaces the metadata whole. Two assumptions are about the
banks ([section 4](#4-fairness)): `Steady`, for YooKassa, and in `Create` that Tochka answers
a repeated `paymentLinkId` with the payment it has.

`Refunds`: clerks ask for refunds by the administrator's route (`Request`, `Ask`,
`Hear`, `Conclude`, each a statement or a call, `Crash` between any two);
`RefundByHand` is made at the bank itself; `Report` and `ObserveRefusal` are the webhook
and the reconciler, which may tell of any refund at any time. `Share` is the rounded share of
the grant, and `Apply` takes the difference to what was taken before; a full refund ends the plan
only if the metadata still name it (`named`), and `Annotate` is the late statement of a second
request for the same order (`late`), which erases the name. `Cancel` is the cancelled payment:
it takes the credits back and leaves the plan.

`Renewal`: the cycle worker's candidate goes through `Select`, then one of `Expire`,
`SkipPending`, `NoAgreement` or `Insert`, then `Charge` with its outcomes and `Attach` or
`Recover`; `seen` is the row it read. The customer's requests (`Cancel`, `Resolve`, `Upgrade`, `CancelDowngrade`, and the toggle and the
scheduled downgrade, which read in `Wish` and write in `Grant`) and the webhook (`Settle`) come at any moment.
`CancelAgreement` is the reconciler's pass over agreements that are not to be charged.
Under Tochka a period is charged at the bank; the stub renews at once.

### WelcomeGrants

`events` is `free_grant_events`, to which the ledger's leg and the bucket belong in the
same transaction. Each visit is a transaction: `Begin` is the reads that a grant starts
with, one definition for each of the five (`GrantL0` to `GrantL3`, `GrantDaily`);
`InsertCluster` and `ClaimPhone` are the inserts of the phone's grant; `LockUser`,
`LockCluster` and `Issue` are `issue`, whose locks are what the decision rests on. `rows` are
the rows a transaction has locked or inserted, which it keeps until `Issue` commits or
`Abort` gives up; two that wait for each other can only abort. A grant bears the day on
which its transaction began, since `created_at` is PostgreSQL's `now()`, and the rolling sum
takes the day on which it is read.

### MediaRetention

The expiry of each item is one of NULL, to come, past. `Promote` and `Demote` are the
two updates of `media-retention.ts`; each handler that changes the account (`Subscribe`,
`FallDue`, `Renew`, `EndPlan`, `BuyPack`, `RefundPart`, `RefundPack`, `CancelPack`) applies the one
that it applies in the code, or none. `Paid` has the three disjuncts of `hasPaidMediaStorage`;
`tiered`, the account's own tier, is constant, since only seeds and the developers' console write
it. `Delete` remembers the old clock, `Restore` puts it back or starts a new one, and the reaper
picks, removes objects and removes rows in three steps, with `RollBack`.

### StudioRender

Deliveries of one message run side by side. `Pick` reads the row, `Claim` is the guarded
update, `Checkpoint` the cancel check between steps, `Upload` stores the file, and
`Complete` is the transaction that locks the row and publishes, or finds it ended and
removes the file. `Catch` fails the render; `Cancel` and `Sweep` may come between any two.

### BoardAutosave

A document is the set of edits in it, so that "contains" is inclusion. Per tab, the
engine's marks keep their names (`localDirty`, `dirty`, `saving`, `timer`). `Save` sends the
document with the tab's revision, `Serve` is the server's compare and set, `Saved`,
`Conflict` and `Failed` are the three answers. `Hide` and `Close` send a beacon that may arrive
at any later time (`Arrive`) or be dropped with the tab (`Die`). `stored` is the recovery copy of
the browser, offered when a tab opens the board again. `given` is what the user chose to give up:
the side not taken in a conflict, and a reset after its confirmation.

### GuestWork

The identities are one guest and one person, who may have had an account before. `Move` is
`claimAnonymousWork`: rows of boards, scenarios and projects change owner, objects stay
where they are. `DropGuest` is Better Auth's deletion of the linked guest. `Tick` to
`Compare` are the reaper's reads; the two tables of the orphan sweep are read in either
order. `ReapStale` and `ReapOrphan` take the advisory lock that the claim takes too, make the check
again and `Open` the reaper's transaction with a list of the account's keys; `Sweep` removes
them, or stops half way and leaves the rows for the next day; `Commit` deletes the rows. While the
transaction is open (`reaper.on`) the claim and what else deletes the account wait for it.
Uploads take no lock: `Store` may come between any two of these steps. `listed` remembers every key
that a sweep has ever listed, so that the promise can speak of what the reaper has seen.

## 3. The runs

`pass` runs finish without an error; `violation` runs show a disagreement
([section 6](#6-findings)). Deadlock is not checked where the system may rest:
all calls made, all rows processed, the job ended.

| run | question | bounds |
| --- | --- | --- |
| `core` | Can any sequence of operations make the books disagree, oversell a bucket or the balance, or let one job's settlement touch another's hold? Can racing drainers, failing calls, a crash, an old release and BullMQ's forgetting lose a row, count a processed one, or hand over a redacted mail? With sound locks and acknowledgements, is a job settled as it finished, and nothing bought twice? | see below. 315,005 states |
| `outbox_live` | Are settlements handed over in the end, and is every row that is not left dead-lettered, though the rows before it fail for ever? | 2 rows, 1 drainer, a batch of 1, 1 crash, ceiling 2. 16,020 states |
| `settlement` | Under every fault, does the ledger charge or return the hold exactly once, leave nothing held, and does every job end? | 1 worker, 2 attempts, 1 stall, 1 replay, 2 submits, 2 legs, cost 2, all three faults. 124,526 states |
| `billing` | Can checkouts, refunds, renewals, welcome grants or the media clock double, lose or hang something? | see below. 280,274 states |
| `work` | Can claims, the leg's budget, renders, boards or the reaper of guests? | see below. 528,248 states |
| `job_chain`, `outbox_unknown`, `plan_unbound`, `claimed_media`, `optin_uncharged`, `paid_media_expires`, `autosave_lost` | one disagreement each | |

The parts of `core`: a ledger with 2 jobs, 3 buckets (a pack of 2, a subscription of 2 that expires at
1, a gift of 1), a clawback of the pack and a clock to 2; an outbox with 2 rows of any kind, 2
drainers, batches of 1, ceiling 2 and 1 crash, in which the two drainers are interchangeable; a job
with 2 workers, 3 attempts, 1 stall, 1 replay, 3 submits and 2 legs, without faults.

The parts of `billing`: a checkout with two requests for one tier and one for another, under either
bank; an order of price 3 and grant 5 with a refund of 1, one of the rest and one of 1 by hand, two
clerks and, under Tochka, perhaps a second request with its note still to make; a subscription up to
its fourth cycle; two media items of an account with or without a tier; two accounts on one device
with one phone and two visits at a time. The parts of `work`: three script requests of which
two share a key; two jobs and three attempts with a worst case of 2, bills of 0 or 3, a price of 3
and a cap of 5; two deliveries of a render; a board in two tabs with two edits and two revisions;
a guest with one document.

Why these bounds are enough for the cases that matter:

- *Ledger.* Two jobs are the fewest that compete for a bucket, and no operation
  relates more than two. Three buckets of different priority and expiry let a
  walk cross a bucket's boundary, let a hold outlive its bucket, and leave room for a
  debt bucket (a clawback after the pack was spent). Amounts up to 2 against
  buckets of 1 and 2 give exact, partial and crossing takes. The proofs in
  section 5 cover the rest.
- *Outbox.* Two rows are a row and what comes before it; two
  drainers give every race, since a third could only repeat one; a ceiling of 2
  has a failure before the last and the last. The rows of a batch are worked on in
  parallel and share nothing but the drainer's life, so that a batch of 1 loses no race
  between two drainers over a row; the proofs are for any batch. In `outbox_live` a batch
  of 1 is the tightest starvation: one failing settlement could block everything.
- *Job.* Two overlapping runs are what a lost lock gives; with 3 attempts and 3
  submits a job can be retried, requeued and redelivered in one behaviour; 2
  legs are a primary and a fallback. `job_chain` needs 3. Under the faults one worker is
  enough to lose an acknowledgement and to meet the reaper and the erasure; that two of
  them change nothing for `FinishedIsOwed` and `FailedIsFinal` is proved.
- *Checkout.* The third request finds what two have left: one order buried and one live, or
  one resumed by two. A tier of its own gives the conflict of items.
- *Refunds.* Three parts of a price of 3 leave a rest, and 5 credits do not divide by 3, so
  rounding shows.
- *Renewal.* The fourth cycle leaves two after the first renewal, so that what one
  renewal leaves behind meets the next.
- *Welcome.* Two visits at a time are two tabs of one account or two accounts of one
  device. A gift of 2 for registering, 1 for each other level and a cap of 4 let both
  accounts register and leave nothing for a return. With one device the cases
  of a return from another device, and of the phone's grant that inserts a new cluster,
  do not occur in the run. Windows of one day and a clock of one step let a gift leave the window
  once; a clock of 2, or a window of 2, makes the run of all five parts longer than five minutes.
  `GiftsAreBounded` is proved for windows of any length and any number of days.
- *Claims.* A key's two requests race; a third with another key finds the user's one row
  in progress in its way.
- *Budget.* The third attempt is the retry of one job beside the other's; a bill of 3 is
  above and one of 0 below the worst case; the cap admits two worst cases but not two
  invoices of 3.
- *Boards.* Two tabs and two edits are the fewest by which one save can lack what another
  has. Two revisions suffice for a base that is behind.
- *Guests.* No operation relates two documents. The guest's one key is in some behaviours
  listed and in others stored behind the list; both at once need a second document, for which there
  is the proof.

What each property says is in the comment before it. The main ones:

- `BooksAgree`: the double-entry legs and the buckets are two accounts of one
  amount, whatever sequence of operations ran.
- `HoldsAreBacked`, `HoldsImplemented`: a hold is there when its settlement comes,
  whatever clawback, expiry and other jobs did; each settlement takes only from
  its own hold.
- `NoOverdraft`: a reservation succeeds only against what the user may spend,
  counting a debt.
- `ProcessedWasHandedOver`, `HandedOverIntact`, `ProcessedIsFinal`,
  `AttemptsBounded`: the outbox's at-least-once promise under races.
- `SettledAsFinished`, `FinishedIsOwed`, `FailedIsFinal`, `NoSecondPurchase`:
  the job's status, the money owed and the vendor's work tell one story.
- `PromiseKept`, `LedgerKeepsPromise`: refinement of `HoldPromise`, by what is owed
  and by what the ledger took. The job alone breaks it when an acknowledgement is lost;
  composed with the ledger it holds, because only one of a full commit and a refund
  finds the hold. That is why the ledger's own guard matters.
- `OneChargePerKey`, `OwedIsHeld`, `HoldsSettle`: a result is paid for once and stays
  fetchable; no settlement is scheduled that the ledger would refuse for ever; no hold is
  stranded, wherever a handler stopped.
- `ApprovedUnderCap`, `LossesAreBooked`, `BookingsClose`: the last leg's budget, by the
  vendor's true bills and not by what the table says of them.
- `OnePayable`, `PaidIsPlannedOnce`, `PaymentsConclude`: one order of a subject can be paid;
  paid orders make one plan and are never buried; money that arrived is delivered.
- `ClawbackMatchesRefunds`, `RefundsConclude`: what was taken back lies between the shares
  of what was applied and of what was confirmed, in whatever order it was heard; a cancelled
  payment leaves no credits; a plan outlives a full refund in one case only, when a
  late note under Tochka has erased its name from the order.
- `CyclesArePaidOnce`, `RenewalsConclude`: granted exactly the cycles reached, each for a
  paid order; no elapsed period lingers without a charge in flight.
- `FreeMediaHasAClock`: whoever was never charged, or whose plan has ended and whose pack was
  refunded whole, has no media without a clock. Left out, because the code starts no clock
  there: a pack whose payment was cancelled, one refunded in part, and an account with a tier.
- `OrdinaryRowsDelivered`: a row of another queue is handed over and marked, unless it is left
  dead-lettered for ever. `UnknownQueuesWait`, which the code does not keep, says when it may not be.
- `RenderOutcomeStands`, `NothingSavedIsLost`: as named above.
- `GiftIsBounded`: whatever transactions race, a level is given once, a phone's gift goes to
  one account, and what a device was given within the window stays under the cap.
- `ReapedInOrder`: the reaper takes work only from a guest past its time
  or claimed, and nothing that a sweep has ever listed outlives the account's rows, however often
  the sweep is cut short. What an upload stores after the list may ([section 6](#6-findings)).

## 4. Fairness

- `Polling` (outbox): the drain loop never ends (`setInterval` in every worker), a
  call or statement that was started ends, a failure is counted in the end, a
  release that knows the queue is deployed, a backoff elapses. Strong fairness of
  selecting a row that is in the batch again and again: a backoff is at least ten
  seconds and the poll two, so the loop cannot miss every moment at which older rows
  wait. Nothing says that a call succeeds.
- `Recovering` is not assumed by the specification. It is the hypothesis of
  `SettlementsHandedOver`: the queue and the database answer in the end.
  `OrdinaryRowsDelivered` holds without it: a row whose calls go on failing is dead-lettered.
- `SettlementSpec`: weak fairness of the reaper's sweep (some worker always leads
  it) and of landing a settlement row the ledger would take (the outbox's promise,
  plus the settlement queues' retries). *No* fairness for the job's workers:
  any of them may stop for ever at any step, and the job still ends.
- `Checkout`: weak fairness of the two webhooks, which the bank repeats until they are
  acknowledged. None for the requests: a customer may close the page. Beside fairness two
  things are assumed of the banks. `Steady`: YooKassa answers a repeated `Idempotence-Key`
  alike, refusals included. And, built into `Create`: Tochka answers a repeated `paymentLinkId`
  with the payment it has made (`apps/api/src/billing-intent.ts:9`).
- `Refunds`: weak fairness of the reconciler for each refund (an interval of every worker).
  None for the administrator's request, which may die at any step.
- `Renewal`: the worker's due query and what follows it, the reconciler's pass, and the
  webhook. Strong fairness of the worker's pass, since a customer's request may change the row
  between the query and the step and back; the interval comes again and again. None for
  the customer.
- `PaidClaim`: a lease expires, the reaper sweeps, a settlement lands. None for handlers.
- `LegBudget`: the reaper's tick, and that it reaps a job that is stuck. None for workers.
- `StudioRender`, `BoardAutosave`, `MediaRetention`, `WelcomeGrants`, `GuestWork`: none; nothing there is
  claimed to happen.

## 5. The proofs

`TallyProofs` proves the facts about sums that the ledger needs: that `Total`
is typed, additive, unaffected by what is past its bound, that one entry's change
changes it by as much, and that a sum of naturals bounds each summand. `Total`
unfolds a recursive function. The provers cannot instantiate an induction theorem
whose parameter is an operator, so `SetInduction` states induction with a set of
numbers and rests on the existence of a least element, and `PrefixExists` shows
that the recursive function exists before it is unfolded. The same is done for
`SumFunctionOnSet` of the community modules, with which the ledger sums its calls, a hold
its settlements, an order its refunds, a device its gifts and the leg its losses:
`FiniteSetInduction` and `SumExists` carry the lemmas that a sum is typed, splits off an element,
changes by what one summand changes, and grows or falls with its summands.

`CreditLedgerProofs` proves, for every number of jobs, buckets, grants, clawbacks,
amounts and times:

| theorem | says |
| --- | --- |
| `LedgerInvariant` | `Spec => []LInv` |
| `TypeCorrect` | `Spec => []TypeOK` |
| `CapacityIsKept` | `Spec => []BucketsWithinCapacity`: the database's CHECK never fires |
| `ReservedIsAllocated` | `Spec => []ReservedIsHeld` |
| `HoldsStayBacked` | `Spec => []HoldsAreBacked` |
| `SettledWithinHold` | a job's settlements together never exceed its hold |
| `BooksNeverDrift` | `Spec => []BooksAgree` |
| `NeverOverdrawn` | `Spec => NoOverdraft` |
| `HoldsAreImplemented` | `Spec => HoldsImplemented`: the ledger implements `JobHold` for each job |

`LInv` is the conjunction of `TypeOK`, `BucketsWithinCapacity`, `ReservedIsHeld` and
`HoldsAreBacked`. None of the four is inductive alone: a commit keeps a bucket
within its capacity only if what it takes was reserved there, which is
`ReservedIsHeld`; that stays true only if the allocations a settlement takes are
the job's own; and that settlements leave allocations equal to pending legs needs
the walk to take exactly the amount, which is typing and `Walks`. With the
conjunction each operation changes one vector by a walk `take`, and the sum lemmas
carry that through all four. The assumptions are the two named ones of
`CreditLedger`: bounds are naturals, and calls have positive amounts.

`BooksAgree` compares the accounts with what the buckets have left, reserve and consumed.
`Books` says the same of each column by itself (granted, reserved, consumed), so that an
operation is shown to change a column and its legs by one amount, and adds what is needed for the
sums to be sums: only finitely many grants and clawbacks have been made. That a leg is written
exactly when its column moves is where replays, refused calls and debt buckets matter.
It is kept relative to `LInv`. The refinement maps a job's `reserved` and `taken`
to its legs; that a settlement finds enough is the same fact in both, `PendingOf`, which
`LInv` ties to the allocations.

`OutboxProofs`, for any number of rows, drainers, queues and crashes:

| theorem | says |
| --- | --- |
| `TypeCorrect` | `Spec => []TypeOK` |
| `ProcessedRowsAreHandedOver` | `Spec => []ProcessedWasHandedOver` |
| `ProcessedRowsAreFinal` | `Spec => ProcessedIsFinal` |
| `AttemptsStayBounded` | `Spec => []AttemptsBounded` |
| `MailIsHandedOverIntact` | `Spec => []HandedOverIntact`, if mails are not revived |

Two of them need more than the property. A counter below the ceiling plus the number
of drainers is not inductive: the drainers that picked the row before the ceiling
was reached still count. `TriesBounded` adds them: attempts plus open tries stay
below the bound, for a picked row was below the ceiling when it was selected.
That a mail is handed over intact rests on `RedactedIsOut`: a text is removed
only from a row that is processed or has reached the ceiling, which no drainer
selects again, and the copy of a drainer that holds the row is whole. The
assumption `"email" \notin RevivedKinds` is needed: see the first observation at the end of
[section 6](#6-findings).

`GenerationJobProofs`, for any number of overlapping workers, attempts, stalls,
redeliveries, journaled submits and legs:

| theorem | says | faults |
| --- | --- | --- |
| `TypeCorrect` | `Spec => []TypeOK` | all |
| `FinishedJobsAreOwed` | `Spec => []FinishedIsOwed` | all |
| `FailedJobsStayFailed` | `Spec => FailedIsFinal` | all |
| `JobsAreSettledAsFinished` | `Spec => []SettledAsFinished` | no lost lock or acknowledgement |
| `JobsKeepThePromise` | `Spec => PromiseKept`, that is `HoldPromise` under its mapping | no lost lock or acknowledgement |
| `NothingIsBoughtTwice` | `Spec => []NoSecondPurchase`, for at most two legs | no lost lock, no gateway gone |
| `SettlingJobIsAJob` | `SettlementSpec => Spec`: composed with its hold, the job is still that job | all |
| `HoldsEndOneWay` | `SettlementSpec => LedgerKeepsPromise` | all |

`TypeOK` alone is not inductive: BullMQ's counters stay in range only because a
message that has not ended still has an attempt left (`DeliveryCounts`), and the
journal is written only at an attempt in hand (`InHand`). That a failed job stays
failed needs no invariant but these: every statement that revives a job is guarded
by its status. That money and end agree needs three more facts, conjoined in
`SettledInv`. `Exclusive`: a worker that runs holds the message, which is what the
lost lock breaks. `NotYet`: it works on no job that succeeded, which is what the lost
acknowledgement breaks, and it matters because the catch block fails the job without
a guard on its status. `ErasureLocks`: a job the erasure has read cannot succeed
before the erasure writes, which is the advisory lock. The assumptions are the named
ones of `GenerationJob` and the faults a theorem excludes.

That nothing is bought twice is one generation at most in `live`. It holds because of what
every step of `runJob` knows, which `BuysOnce` says: who submits has found no handle, and
nothing is live; between the submit and the handle only the attempt in hand is; and a job
that goes back to the queue leaves nothing live but what its handle names. `OneLive` and
`LiveIsHandled` say that of the job between runs. A lost lock breaks it (two runs submit), so
does a gateway that is gone (a handle that cannot be resumed), and so does a third leg, as the
run `job_chain` shows: hence the hypothesis `Legs <= 2`. A lost acknowledgement does not.

`HoldsEndOneWay` needs no exclusion: whatever the job owes, the ledger
takes a full commit or a full refund, never both, since `HoldInv` says that everything taken
together stays within the hold and that a refund takes the whole of it.

`BillingProofs`, for any constants that satisfy the named assumptions of `Billing` (finitely
many refunds, a positive price; a last cycle; amounts and bounds that are naturals):

| theorem | says | its invariant |
| --- | --- | --- |
| `PaidOrdersArePlannedOnce` | `Spec => []PaidIsPlannedOnce` | `OrdersFollowPayments`: an order ends only as its payment did, and payments end once |
| `OnePaymentIsPayable` | `Spec => []OnePayable`, if `Steady` | `OneLive`: one order at most holds the subject; it lets go when its payment has ended or was refused |
| `EveryCycleIsPaidOnce` | `Spec => []CyclesArePaidOnce` | `CyclesFollowCharges`: only the next cycle of an elapsed period has a pending order |
| `FreeMediaExpire` | `Spec => []FreeMediaHasAClock` | `MediaInv`: with the types, inductive as it stands |
| `ClawbacksMatchRefunds` | `Spec => []ClawbackMatchesRefunds` | `RefundsFit`: rows and clerks know of the bank only what happened there; what the bank returns stays within the price. `PlanFits`: a plan whose name the order has lost is Tochka's, and its late note has been made |
| `GiftsAreBounded` | `Spec => []GiftIsBounded` | `GiftFits`: a row has one transaction; who is about to issue has the device's row, and the sum it read is still an upper bound |
| `BillingIsTyped` | `Spec => []TypesOK` | all of them |

`Steady` is the hypothesis that YooKassa answers every create of one order alike, which the
code asks for with the order's id as key and cannot enforce: a provider that refused a create and
later accepted its repetition would have a payment whose subject is already free. The other
theorems do without it.

`WorkProofs`, for any constants that satisfy the assumptions of `Work` (finitely many
jobs, a positive worst case, the other amounts and bounds naturals):

| theorem | says | its invariant |
| --- | --- | --- |
| `KeysAreChargedOnce` | `Spec => []OneChargePerKey` | `ClaimsFit`: one row per key; a hold is charged for a row that is completed and returned for one that is gone |
| `SettlementsFindHolds` | `Spec => []OwedIsHeld` | `ClaimsFit` |
| `LossesStay` | `Spec => []LossesAreBooked` | `BudgetFits`: what a closed row costs by its source; only a job that succeeded has earned |
| `LegStaysUnderItsCap` | `Spec => ApprovedUnderCap` | `BudgetFits` |
| `OneOutcomeStands` | `Spec => RenderOutcomeStands` | `RenderFits`: the claim leaves the queue for good, so that one run at most works; its file stays until it decides |
| `EditsStay` | `Spec => NothingSavedIsLost` | that of `BoardAutosaveProofs` |
| `GuestsAreReaped` | `Spec => ReapedInOrder` | that of `GuestWorkProofs` |
| `WorkIsTyped` | `Spec => []TypesOK` | all of them |

That no attempt goes beyond the cap is the hardest of these. The decision rests on losses
read one statement earlier, and rows go on changing in between. `LossesAreSeen` is the fact: while
somebody holds the lock, the losses do not exceed what it has read. Every other operation
has to be shown to add nothing to them: a settlement replaces the worst case by an
invoice, but it needs the lock; a release and an ageing row take a cost away, and they must
not take a revenue away with a cost left behind. For the latter, `LastEarns` says that what a
job earned stands on the last of its rows that cost anything: rows leave the window in order
of age, so a job's costs leave no later than its revenue. Losses are floored per job, so that the sum lemmas are used twice.

`BoardAutosaveProofs`, for any number of tabs and edits and any bound on revisions in the
naturals: `TypeCorrect`, and `SavedEditsStay`, that is `NothingSavedIsLost`. What the server
holds is safe only if whatever could replace it contains it: `AllSee` says that every open
tab, save and beacon whose base is the server's revision contains the
server's document but for what the user gave up, and `SavesAreOfTheTab` that a save in
flight carries no edit the tab does not have. A save of an older base is refused, and so needs nothing.

`GuestWorkProofs`, for any number of documents: `TypeCorrect`, and `PeopleKeepTheirWork` and
`RowsGoAfterObjects`, together `ReapingIsSound`, that is `ReapedInOrder`. The reaper decides
again under the claim's lock, from rows it reads there; that this is enough rests on four
facts: a person with an active row has an account, a guest with an active row and no account
was claimed, an erased row has no account, and whoever owns a document has a row. While a
transaction is open what it has confirmed stays true (`OpenIsConfirmed`), because the claim and the
erasure wait for it. That rows go last needs more than the guard of the commit: `ListIsWhole`
says that of all keys ever listed under the account, those still there are in the list at hand,
and that rests on keys being fresh (`UploadsAreFresh`): what is stored behind a list was never
on one, and what an earlier sweep left is listed again.

The last two modules prove about the component alone. `WorkProofs` instantiates them and
shows that every behaviour of `Work` is a behaviour of each (`BoardsRun`, `GuestsRun`: a step is a
step of the part in focus, or leaves its variables alone), so that what was proved there holds of
the composition. The definitions the theorem module sees through its instance are shown to be
those that `Work` sees through its own (`TheBoards`, `TheGuests`).

Every invariant and every action property of a passing run is now a theorem. Only
model-checked are the liveness properties `SettlementsHandedOver`, `OrdinaryRowsDelivered`,
`JobsEnd`, `HoldIsReleased`, `PaymentsConclude`, `RefundsConclude`, `RenewalsConclude`, `HoldsSettle`
and `BookingsClose`, since the prover does not do liveness under fairness, and what the
`violation` runs refute.

## 6. Findings

Each is a `violation` run with a short counterexample.

| run | the code | what it says of itself |
| --- | --- | --- |
| `job_chain` | A fallback leg that accepted the submit and fails while polled is followed by the next leg's paid submit | `apps/worker/src/job-runner.ts:556` "instead of submitting a second paid provider job" |
| `outbox_unknown` | A row of a queue that no running release knows is counted to the dead-letter ceiling like a failed call, and is then selected no more | `packages/credits/src/outbox.ts:95` "Rows for unknown queue names are logged and left pending so a deploy that adds the missing queue still drains the backlog" (line 217 says the opposite) |
| `plan_unbound` | After Tochka's answer the subscribe handler replaces the order's metadata, whatever the order has become. When two requests drive one order, the later one does so after the settlement and erases `subscriptionId`; a full refund then revokes nothing (`apps/api/src/billing.ts:1431`) | `apps/api/src/billing.ts:813` "Bind the delivered subscription to its source order. Refunds and support reconciliation must be able to revoke the exact plan created by this payment" |
| `claimed_media` | The claim at sign-in moves a guest's documents; the objects they show stay under the guest's prefix, and the reaper of guests removes that prefix | `apps/worker/src/anon-account-reaper.ts:27` "already moved all real content (boards/scripts/studio_projects) to the new real userId" |
| `optin_uncharged` | The reconciler cancels the agreement of a plan whose renewal is off, which is how each plan starts; turning renewal on makes no new agreement, and the renewal fails | `apps/api/src/subscriptions.ts:470` "flips cancelAtPeriodEnd. Defaults start at true (opt-in)" |
| `paid_media_expires` | A renewal that settles late makes the plan active and leaves the expiry that media got while it was past due | `packages/db/src/media-retention.ts:55` "paid is permanent, free is thirty days" |
| `autosave_lost` | The answer to a save clears the marks of an edit made during the save; a tab closed before the next debounce loses it (Open, Edit, Save, Serve, Edit, Saved, Close) | `apps/web/app/boards/[id]/GraphBoard.tsx:1313` "loses ≤4s of work, and pagehide flushes even that" |

Further observations, made while modelling. The models have these behaviours; no
property forbids them.

- What a guest's upload stores after the reaper has listed the prefix, before or after the rows go,
  stays in the object store, and no row leads to it any more
  (`apps/worker/src/anon-account-reaper.ts:93`, `apps/api/src/studio.ts:897`). The comment at line 81 there calls the
  rows the only durable pointer.
- A cancelled payment (`apps/api/src/billing.ts:1288`) takes the credits back, keeps the plan, and
  demotes no media; nor does a refund in part. A pack's buyer keeps media without a clock then, although
  `packages/db/src/media-retention.ts:55` says that unpaid media have one.
- A dead-lettered mail is redacted (`packages/credits/src/outbox.ts:270`), so when a human
  clears its attempts, as the comment on line 98 of that file suggests, it is sent empty.
- A clawback takes from expired buckets of the order too
  (`packages/credits/src/service.ts:523`): the balance does not fall by what was taken.
- The reaper's requeue (`apps/worker/src/reaper.ts:155`) writes no run message. If BullMQ's
  own has completed, nothing runs the job, and it is refunded at the queue timeout,
  although line 120 calls it "worth resuming, not refunding".
- A settling commit whose acknowledgement is lost is followed by the catch block's failure
  and refund row (`apps/worker/src/job-runner.ts:1016`). The ledger refuses that refund, so
  the customer keeps the result and pays; the job says failed.
- The erasure refunds under a key of its own (`apps/api/src/me-profile.ts:319`); a refund
  row of the worker or the reaper for that job then never lands and is retried for ever.
- A Tochka payment is never reported as dead to the probe
  (`apps/api/src/billing-intent.ts:187`): an abandoned checkout blocks its subject until it
  is paid or an administrator steps in.
- Under Tochka a scheduled downgrade is never applied: the renewal keeps the old tier
  (`apps/worker/src/subscription-cycle.ts:218`), while `apps/api/src/subscriptions.ts:690`
  expects that "the cycle worker swaps to `pendingTier`".
- A renewal order that stays pending (a crash before the charge, or an outcome that no
  webhook ever tells) makes every later pass skip the subscription
  (`subscription-cycle.ts:143`). `RenewalsConclude` allows for it.
- A document that a guest makes between the claim's transaction and the deletion of the guest
  is not claimed, and goes with the shell.
- The phone's grant inserts the row of its device before it locks the user, and every other
  grant locks the user first (`packages/credits/src/welcome.ts:721` and `:411`): two visits of one user
  on a new device can wait for each other. One is aborted, and asks again on its next visit.

## 7. Not modelled

- *Time* is a small clock in the ledger and otherwise freedom: what a timeout delays
  may come at any moment.
- *Money amounts*, prices and margins before the hold: the cost is a constant.
- *The vendor's and BullMQ's* insides: modelled by how the code uses them.
- *User interface, forms, wire formats, timelines, prompts, catalogues:* most of the
  repository's lines. They transform data or render it, with no protocol that two parties
  share. Where the web application does keep state against the server, in the board's
  autosave, it is modelled.
- *Spend guard* (Redis counters by day and window; a release after midnight credits another
  day's counter), the welcome programme's registration counters, switches, breaker and
  expiry sweep, the project trash, leg health: single counters or sweeps, next in the plan.
- *Job events* are, by their own comment, a best-effort layer over polling.
- The redaction's promptness: that a secret does not linger in a row whose drainer
  died between counting and redacting is in the model as a behaviour, but not
  stated as a property.
- The quota, throttle and margin checks before a job is created.

## 8. Plan

Every safety property that a run checks has its proof. What is left, most consequential first:

1. **The welcome programme's expiry sweep** of 200 rows without an order, whose liveness is an open
   hazard, and the registration counters; with it, wider windows and a second device in a run of
   the programme alone.
2. **`SpendGuard`**: the day's counter across midnight. **Project trash.**
3. **`PaidClaim`** over `JobHold`, as `JobSettlement` is: its `hold` is an abstraction of
   the ledger that only the reading of the code justifies.
4. **Legs beyond two**: what `NoSecondPurchase` still promises of a chain of any length, as a
   bound by the number of legs.

Abstract specifications worth adding: an at-most-once charge that `Checkout` and
`Renewal` implement, and a compare-and-set register for boards.
