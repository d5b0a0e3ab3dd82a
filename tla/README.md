# Verification of the AI-SCRM backend

The repository is a multi-tenant sales assistant: customers write to a shop
over the web, WeChat or WeCom, an AI answers, salespeople take over, tenants
pay for packages of tokens.  The server is one Go program (gin, gorm,
PostgreSQL, Redis, optionally Kafka), run as one or several processes.

This directory holds TLA+ models of the parts of it where several actors meet
— how messages are merged and answered once, how orders are paid, granted and
refunded, where tokens go, who talks to a customer, and the queues, rows and
tickers around them — the TLC runs that check them, and TLAPS proofs.

* [Inventory](#inventory) — the parts, their state, how they interact
* [Modules](#modules) — what models what
* [Runs](#runs) — what each run shows, its bounds and its fairness
* [Disagreements](#disagreements) — where the code does not do what it says
* [Proofs](#proofs)
* [What is not modelled](#what-is-not-modelled)
* [Plan](#plan)

To repeat a run: `tlc -config QueueCore.cfg MCMergeQueue`; to repeat the
proofs: `tlapm MergeQueueProofs.tla`.

## Inventory

`PROJECT.json` lists every component with its files.  Those with a protocol:

| Component | State | Operations | What is hard | What makes it correct |
|---|---|---|---|---|
| Merge queue, one process (`internal/service/message_queue.go`) | a `CustomerQueue` per customer under `q.mu`: rows, batch, epoch, reply slots, claims; goroutines on `q.cond` | `EnqueueAndWait`, `waitForMerge`, `SetReply`, `SimpleMessageDone`, `ShutdownDrain`, watchdog | who is woken, batches that time out while their holder lives, sharing one condition variable | each message answered once, by the reply that covers it; one holder; nobody sleeps for ever |
| Merge queue, several processes (same file, `redisclient`) | lock, list of handed-over messages, numbered replies, delivery claims in Redis; the local epoch | `waitRemotely`, `absorbRemotePending`, `ClaimReplyDelivery`, `SweepIdleQueues` | every call to Redis interleaves; a process dies; epochs start again | no message lost, one live holder, publish before unlock, one delivery per reply |
| Orders (`internal/billing/billing_order.go`) | `billing_orders` rows | `CreateOrderForPackage`, `MarkOrderPaid`, `ReopenClosedOrderPaid` | unlocked quotes, late payments | one value is set off once; money is answered |
| Grants, reconciliation (`billing_grant.go`) | `reward_claims` ledger, tenant columns | `GrantOrderEntitlement`, `ReconcileBilling`, `SweepExpiredOrders` | repeated webhooks, crashes between transactions | a package is granted once, and in the end |
| Refunds (`billing_refund.go`) | refund number and provider status on the row | `MarkOrderRefunded`, `executeRefundPayout`, `reconcileOneRefundResult` | commit before the call, unknown outcome of the call | one refund number, books follow the provider |
| Usage sink, token buckets (`usage_sink.go`, `token_billing.go`, `usage_service.go`, `referral.go`) | buffers, debt rows, three buckets | `Record`, flush, settle, sweep; top-up, month, reward, clawback | crash between swap and insert, an insert that reports a false error, concurrent settlers and writers | tokens are conserved, no write of a bucket is lost, debt is worked off |
| Dunning (`dunning.go`, `package_service.go`, `api/super.go`) | tenant status and term, `billing_dunning` row, audit trail | sweep, `DunningOnPaid`, `GrantPackage`, `ResetDunning`, ban and release by hand | payments and administrators take no lock | only an administrator and a monthly package end a ban by hand; a paid tenant leaves the queue |
| Outbound queue (`internal/channel/outbound.go`) | `channel_outbound` rows | `Enqueue`, `ProcessDueOutbound`, `RetryDeadLetter` | slow workers against the revival of stale rows | a row has one owner |
| Outreach (`internal/outreach`) | `outreach_tasks` rows | `Create`, `Cancel`, `DispatchDue`, `SyncResults` | a message queued and its task not marked | a task is enqueued once, and decided in the end |
| Message bus (`internal/mq`, `internal/cdp/ingest_consumer.go`) | offsets, inbox rows, event ledger | `Publish`, `consumeLoop`, `EnsureProcessed`, `WithInbox` | crashes and rebalances between effect and commit | an event that is lost can be told, but for one case |
| Deals and quotes (`internal/deal`) | `opportunities`, `quotes` | create, move, edit; create, edit, send, decide, void, expire | decisions on rows read before, conditions on part of them | a won deal has an amount; versions tell quotes apart |
| Conversation (`internal/api`, `internal/chatflow`, `internal/channel/inbound.go`) | mode, lock, switch and moments of a conversation; the customer's owner | four entrances; takeover, reply, transfer, release, claim | a request works with its copy for two minutes | nobody talks over a person; a claimed customer stays claimed |
| Flows (`internal/engine/flow`, `internal/state_machine`) | instance row, versioned machine row | `StartFlow`, `AdvanceFlow`, `syncStateMachine`, `SweepOnce` | walkers overlap, whole rows are saved, one version check | a flow that is over is closed |
| Tenant webhooks, token cache, login guard, e-mail codes, realtime hub, runtime configuration | rows, maps, Redis counters | claim and send; fetch and drop; check and count | read, then act | limits hold |

How they interact: the HTTP handlers and the channel workers call
`EnqueueAndWait`, generate a reply and call `SetReply` in a deferred release;
whether a reply may be generated at all, and by whom, is decided on the
conversation around it.  Outreach delivers through the outbound rows.  Payment
webhooks, administrators and two tickers (`cmd/server/main.go`) call the
billing functions, which meet in the rows of one tenant: an order's grant
lifts a suspension (`Dunning`) and fills the buckets (`TokenLedger`).  A payment
publishes an event whose consumer starts a flow.  Each of these meetings is in
the module of the part that has to cope with it; no two modules share a row
otherwise.

`PROJECT.json` lists the hazards, each at its line, with the properties that
would catch it, or the reason why none does.

## Modules

| Module | Models | Used by |
|---|---|---|
| `BatchedAnswers` | what the queue promises: messages arrive, a batch is taken, answered as a whole, then the next | `MergeQueue` (refinement) |
| `MergeQueue` | the queue of one customer, Redis off | `MCMergeQueue`, `MergeQueueProofs` |
| `RemoteMergeQueue` | the queue of one customer over Redis and the workers of one channel | `MCRemoteMergeQueue`, `RemoteMergeQueueProofs` |
| `BillingOrders` | the orders of one tenant with handlers, sweep, reconciliation and payment provider | `MCBillingOrders`, `BillingOrdersProofs` |
| `TokenLedger` | the tokens of one tenant in several processes | `TokenLedger.cfg`, `TokenLedgerProofs` |
| `OutboundQueue`, `Outreach` | the outbound rows with their workers, and the outreach tasks over them (composition) | `MCServices`, `SalesProofs` |
| `Deals` | the deals and quotes of one customer | `MCServices`, `SalesProofs` |
| `Dunning` | the subscription of one tenant | `MCServices`, `ServicesProofs` |
| `EventBus` | one partition with its consumers, handlers and inbox | `MCServices`, `EventBusProofs` |
| `Conversation` | one conversation with its requests and advisors | `MCServices`, `ConversationProofs` |
| `FlowEngine` | one flow with its walkers and its patrol | `MCServices`, `ServicesProofs` |

### MergeQueue

Each variable is a field of `CustomerQueue` with the same name, plus `pc`, the
place of each goroutine, and `sleepers`, the notify list of `q.cond`, which Go
wakes first in, first out.  An action is one critical section of `q.mu`, up to
the next `Unlock` or `cond.Wait`, so the actions interleave exactly where the
code releases the mutex.  A request is named by its goroutine, and a reply by
the epoch of the batch it was generated for, which is what the properties need
to tell replies apart.  `merged` is a history variable: the requests each
holder collected.

| Action | Code |
|---|---|
| `OpenIdle`, `HealAndOpen`, `Join`, `JoinBacklog` | the branches of `processLocally` |
| `JoinedWakes`, `BacklogSleepsAgain`, `BacklogReturns`, `TakeOver` | the two waiting loops and `takeoverNextBatchLocked` |
| `LeaveWindow`, `RestartWindow`, `WindowExpires`, `Collect` | `waitForMerge` and its timer |
| `PublishReply`, `StaleReply` | `SetReply` on either side of the epoch fence |
| `LockTimesOut` | `processing_lock_timeout` passes while the holder is in a phase of `StallsIn` |
| `DrainFinds`, `DrainForces` | `ShutdownDrain`, whose list of busy queues is made before it frees them |
| `SimpleMessage`, `SimpleMessageDone`, `SimpleWatchdog` | the lane of simple messages |

The switches name the timing assumptions a run makes.  `PromptWakeups`: seconds
(a window, a generation, a timeout) pass only when no goroutine is ready.
`MayOvertake`: the mutex is not a queue, so a newcomer may take it before a
woken request.  `MaySilent`, `StallsIn`, `MayDrain`, `MaySimpleStall` switch on
the silent release of a batch, slow holders, shutdown and slow simple replies.

### RemoteMergeQueue

An action is one call to Redis, or one local critical section.  While a live
process holds the lock every other request is handed over through the list, so
the local queue has one row and its other branches are those of `MergeQueue`.
A batch is named by the request that opened it.  `Crash` kills the goroutines
and the local queue of one process and leaves what it wrote to Redis; the lock
of a dead holder expires.  `SweepIdleQueue` drops an idle local queue, and with
it the epoch.  `SlowPolls` lets any time pass between two calls of one
goroutine; without it seconds pass only between polls.
A worker that is routed to a human releases its batch with a fixed text and
sends that text after the release (`RouteToHuman`, then `SendExitText`); it
claims nothing.  `trouble` bounds the run to one crash, one sweep and one such
batch, and remembers which batch it was.

### BillingOrders

An action is one database transaction or one call to the provider.  `ord`,
`plan`, `num` and `st` are what a handler carries from one to the next: the
order, the base it quoted, the refund number, the status it will write.  The
refund is two actions, `BeginRefund` and `CommitRefund`, because it counts the
upgrades at its start and only the order's row and the tenant's row are locked
until the commit; `RowLocked` and `TenantLocked` make the others wait.
`ReconcileBilling` is three lists (`RegrantMissing`, `RepayMissing`,
`QueryAccepted`): listing a row and dealing with it are separate steps.

What is abstracted:

* one tenant; every package is monthly.  A token pack is granted and refunded
  by the same transactions, with other columns;
* a price is 0 (the old package covers the new one) or 1, and a refund of a
  price above 0 is above 0 (otherwise the code refuses it, and a refusal
  changes nothing);
* `held[o]` stands for the tenant's columns that the grant of `o` moved: days,
  quota.  A refund takes back what `o` brought, and everything when
  `computeRefundForOrder` found no other paid order, which is the case `expire`
  without `expireTo`; it looks before the commit (`BeginRefund`), and the commit
  acts on what was found.  An upgrade takes the place of its base; `held` of the
  base is left as it is, because a refund of the upgrade falls back to it;
* nothing in the program looks at the money itself: a confirmation marks an
  order paid, whoever sends it.  An administrator may confirm what nobody has
  paid;
* the guard of the revival is by the channel of the order: a webhook of another
  channel is refused before it, and an administrator passes "manual";
* a channel is "mock", "manual" or "psp".  "psp" is a provider that can be
  asked about a refund (WeChat Pay, Alipay); an answer that cannot be had is
  "processing".  The HMAC gateway cannot be asked: its refunds stay `psp_ok`;
* messages to finance are the set `alerted`;
* the second half of `RefundNumber` is always 0.  It exists so that a number
  that is not stable can be expressed.

### TokenLedger

A flusher is the background goroutine of a process, or its main goroutine when
`Stop` flushes once more.  `buf` is the memory of a process, `hand` the batch a
flusher has swapped out, `rows` the table `usage_flush_retry`, `bk` the three
buckets of the tenant.  A settlement is `LockRows` (`SKIP LOCKED`),
`LockTenant`, and `Settle` or `SettleFails`, so the locks are held between
actions and a second settler goes past them.  What a bucket does not cover
becomes a row again.  `sums` counts tokens by what became of them, and what an
overflow, a crash, a shutdown or an insert with a false error cost.  The other
writers of the buckets are packs, free and monthly packages, the monthly reset,
and the reward of a referral with its recovery.  A monthly package has the quota
of the one before it, and sets back what was used unless the term is still
running (`GrantMonthly`).  Billing is enforced; the shadow balance is read by a
log line only and left out.

### OutboundQueue and Outreach

A worker claims rows in one transaction, offers them one after the other and
writes each result by id.  Time is abstracted: a row is due at any moment, and
a sending row becomes five minutes old at any moment, also under a living
owner, which is noted in `overrun`.  `Outreach` extends it with the dispatcher:
list, decide (`Enqueue` or skip or later), mark, then `Sync` from the row's
status.  `torn` counts the rounds that broke between the insert and the mark.
One round runs at a time: the ticker of a process is one goroutine, and with
Redis a lock that is renewed keeps other processes out (`main.go:1021`).
Several processes without Redis are outside the model.  So is the branch of
`SyncResults` for an outbound row that has been missing for a day: nothing
deletes one.

### Deals

Nothing in `internal/deal` is a transaction.  A request whose update repeats
the whole decision in its condition is one action; creating a deal, moving one
and numbering a quote are a read and a write, with `request` holding what was
read.  `edited` notes deals whose amount was edited under a move, `seen` the
quotes that `max(version)` looked at.

### Dunning

One tenant with its term in days since it ended, the row of its sequence, and
the audit trail reduced to the number of bans by hand, which also serves as the
clock that moments are compared with.  `ExpireCheck` and the sweep exclude each
other by a lock; payments (`MarkOrderPaid`, `GrantPackage`) and administrators
take none, and each of their statements is an action.

Every call may fail, with the consequence the code gives it: an unreadable
tenant still closes the sequence (`PayerSkips`), an unreadable sequence leaves
it open (`PayerFails`), an unreadable audit trail counts as one without bans
(`TrailUnreadable`), and a ban whose audit row is lost stays without one
(`AuditLost`).  `untold`, `overlap` and `unread` are history: a ban without a
row, a ban that came after the payment's look at the trail, a look that failed.
A grace of 0 days means that nobody is suspended.  The sequence is taken to be
switched on (`dunning_enabled`) and its sweep to get the lock.

### EventBus

The topic `user_event`: a partition has an owner, a consumer goes through
`fetch`, `ensure`, the two handlers, `mark` and `commit`, and may lose the
partition or die at any of them.  The ingestion goes through the inbox itself,
under the same event id.  `leaps` notes the events whose loss the code admits:
the ones passed by the commit of a later event, and the ones marked done by
`WithInbox` before the second handler ran; an event stays there also when it is
handed out again later.  `StartWelcome` may fail without telling the loop, and
`unwelcomed` notes the events that were lost so.

### Conversation

The row of a conversation (mode, lock, AI switch, pending hand-over, two
moments as ages in ticks), the owner of the customer, the requests of the
customer through four entrances and the advisors' handlers.  A request reads
the row once (`Begin`) and writes from its copy: `Judge` is `CheckHumanTimeout`
and the takeover decision, then lead capture, price route, strategy with its
hand-over or reopening, the visit with its delayed second leg, and `Finish`.
`free` and `late` are history: whether the conversation was free since an
advisor's last reply, and whether an answer began before that reply.

### FlowEngine

A walker reads the instance, executes nodes on its copy until one waits or the
flow ends, saves the whole row, and brings the state machine up to date: read,
then first row, completion, or advance under a version with one retry.  The
patrol scans running machines whose heartbeat is old, looks up the instances of
those at an end node and closes them, and renews the heartbeat of the others.
Any call may fail and any process may die (`MaxSlips`).  The graph is a
constant; the run has one with a strategy node, a loop and a waiting node.  A
machine is looked up by the patrol when its node has the id "end", as the end
node of every flow that is shipped.  The patrol takes 100 machines at a time in
no order (`state_machine.go:135`); the model has one, so its fairness says that
this one's turn comes.

### MCServices

It extends six of the modules, which share no variable; no step of one concerns
another, so a behaviour of all is one of each.  The variable `service` says
which one runs; it is chosen in the initial state, the others stay in theirs,
and fairness is stated for the steps of the service that runs.

## Runs

| Run | Instance | Distinct states | Shows |
|---|---|---|---|
| `queue_core` | 5 messages, 2 simple, batches of 2 | 44 k | types; no orphan row, no message merged twice, every reply covers its message, tables end empty; implements `BatchedAnswers` |
| `queue_stress` | 3 messages, 1 simple, silent releases, holders healed away, lost races, slow wake-ups, shutdown and watchdog at any moment | 497 k | one row per message, busy means one holder, a fenced holder publishes nothing, every request returns |
| `remote_core` | 2 workers and a web request, 2 processes, a crash, a sweep and an exit text at any moment, slow polls | 532 k | one live holder, nothing lost, publish before unlock, when a reply may be delivered twice or dropped, every request of a live process returns |
| `billing_core` | 1 order through a provider, 2 handlers, a reconciler, 2 faults, slow payouts | 56 k | one grant, one refund number, books follow the provider, refunds are final, money is answered, refunds that the books call accepted settle or are reported |
| `billing_upgrade` | an order paid on the spot and two paid by hand, 2 handlers, a reconciler, 1 fault | 4.5 M | a waiting upgrade has a paid base of its own; a lost base is marked |
| `token_ledger` | 2 processes, one stoppable, 2 calls of 2 tokens, buffers of 1, buckets of 1, one event, one fault | 343 k | conservation of tokens, no lost write of the buckets, debt is worked off |
| `services` | outreach: 2 workers, 1 task, 2 rows; deals: 2 users, 2 quotes; dunning: 2 reminders, 2 terms, 2 payments, 1 act, 1 failure; bus: 2 consumers, 2 events, 2 faults; conversation: 1 request at a time, 2 messages, 2 advisors, 2 acts; flow: 2 walkers, 4 walks, 1 slip | 1.5 M | one owner per outbound row, one row per task, tasks settle; won deals have an amount, versions differ; bans by hand stay, paid sequences close; events are accounted for; nobody talks over a person, claims stay; ended flows are closed |

Five more runs show a [disagreement](#disagreements) each.

Bounds.  Batches of two and five messages give a full batch, a backlog of three
and a second takeover, with somebody left for a third; a claim then survives
two batches, which is what pruning must allow.  Two simple messages wait for
one lane.  Under stress three messages and a simple one are enough for a
holder that was healed away, its successor, and a request that overtakes both.
Three requests on two processes give a holder, a waiter beside it and a waiter
elsewhere; a fourth adds no new pair.  One crash is enough for every place a
process can die at.  Two faults let a repaired step fail again.  Two upgrades
of one order are what it takes to set a value off twice.  A call of two tokens
on buckets of one is what it takes to split a deduction and to leave a rest; a
buffer of one overflows.  Two workers and one row are what revival is about;
the second row is the one a torn round adds.  Two terms and two payments let a
sequence start again after it was closed.  Two messages and two acts let a
person take over, and be taken over from, under a request.  Four walks let a
walker meet a completed flow that another has just synchronised, and lose the
version of the machine twice in one advance.  Requests of
one kind, handlers, and the two orders paid by hand are interchangeable; symmetry is used only where no
liveness is checked.

Deadlock is checked for the queues, whose `Idle` action is enabled exactly when
everyone is done, so a deadlock is a request left behind.  In the other runs
everything may really be settled for ever, so it is not.

Why some properties are conditional.  `MergedAtMostOnce` is checked without
silent releases: after one, a waiting request competes again and its message is
processed again on purpose (`message_queue.go:769`).  Nor does it hold with lost
races for the mutex: a backlog request whose batch was answered, and which a
newcomer overtakes before it wakes, is claimed for the newcomer's batch and
merged again.  `ReplyCoversMessage` needs prompt wake-ups: a joined request that
sleeps through two more batches finds its slot pruned and takes a newer reply.
`ImplementsAnswers` is checked without stalls and shutdown, which take batches
away from their holders by design.  `OnceUnlessNoEpoch` names the two ways in
which the code delivers twice: a waiter that reads the reply before its epoch is
written, and a batch answered with an exit text, which is sent after the release
and without a claim (`inbound.go:336`), while a worker that read it claims it
and sends it again.  `AcceptedRefundSettles` starts from the books: an
acceptance that was never written, because the process died first, stays
`psp_pending` and is the case of `billing_payout`.
`DroppedOnlyOnReusedEpoch` bounds the second disagreement.  `OneOwner`,
`OneRowPerTask`, `WonWithAmount`, `VersionsDiffer`, `LiftsOnlyItsOwn`,
`EventsAccounted`, `NotTalkedOver` and `EndedIsClosed` have exceptions, named in
the comment of the property and recorded by history variables where they are
needed: each is what the code does, and the property says that nothing else goes
wrong.  For `WonWithAmount` and `VersionsDiffer` the exception is the whole
interleaving that the code is exposed to.  One exception of
`LiftsOnlyItsOwn` and one of `EventsAccounted` contradict a comment of the code
([below](#disagreements)).

Fairness and its grounds:

* `MergeQueue`: weak fairness of waking, of the window timer and of `SetReply`:
  the Go scheduler runs every ready goroutine, the runtime fires every armed
  timer, the callers release in a `defer`.  Nothing is assumed of arrivals,
  time-outs or shutdown;
* `RemoteMergeQueue`: weak fairness of the waiters, which poll every 300 ms, of
  the holders, and of `LockExpires`, the time to live of a key nobody renews.
  Nothing is assumed of crashes and sweeps;
* `BillingOrders`: weak fairness of a process that has begun (it goes on unless
  it dies), and of the provider settling an accepted refund.  Strong fairness
  of confirmation, because the provider repeats a webhook until it is answered
  and an administrator confirms what was lost, and of the three lists, because
  each round of `ReconcileBilling` (every six hours, `main.go:638`) lists every
  row that matches; a row may leave and return between rounds, so weak fairness
  would not do.  The limit of 200 rows is not modelled;
* `TokenLedger`: weak fairness of a flusher that can go on, of the sweep of
  the rows, which a ticker starts, and of the expiry of a dead sweeper's lock;
* `Outreach`: weak fairness of the round and of the claim, which tickers start,
  of each step of a round and of a worker, of `Sync`, which every round calls
  for every queued task, and of a row that nobody holds becoming old;
* `Dunning`: weak fairness of the sweep, an hourly ticker, while dunning is
  switched on;
* `FlowEngine`: weak fairness of the patrol, called every minute, whose quota
  of 100 machines is taken to reach the one of the model, and of the
  heartbeat becoming old.  A customer's activity may renew it as often as it
  likes while the instance runs, which is why the property is about flows that
  are over.

## Disagreements

Each of the following is a run of one property that says what a comment of the
code says, and that TLC finds violated; `PROJECT.json` quotes the comments.

| Run | What happens |
|---|---|
| `remote_double_answer` | a waiter polls before the reply is published and tests the lock after it is gone; it takes over and answers again (`message_queue.go:887`) |
| `remote_silent_loss` | claims are keyed by a local epoch that starts again after an idle sweep; the worker's first answer is dropped (`:972`) |
| `billing_offset` | the check under the lock counts pending upgrades only, so two paid upgrades can share one base (`billing_order.go:121`) |
| `billing_late_grant` | a grant does not look at the status again; a refund that commits first takes nothing back (`billing_grant.go:202`) |
| `billing_payout` | a crash after the refund intent leaves `psp_pending`, which no list contains, and nobody is told (`billing_grant.go:119`) |

The others were met while modelling; the modules do what the code does, and
where a property would be violated it names the case as its exception.

* Queue: `Signal` wakes the goroutine that slept longest, not the holder, so the
  message that fills a batch of three does not end the window
  (`message_queue.go:714` against the comments at :713 and :1110).
* Tokens: at a shutdown the main goroutine may end the process while the
  background flusher has a batch in hand (`usage_sink.go:264` says that nothing
  is lost).
* Payments: a webhook's nonce is kept for good, and before the order is settled
  (`billing_service.go:277-318`).
* Dunning: payments take no lock although `dunning.go:22-24` says so; a monthly
  `GrantPackage` lifts a ban by hand (`:19-21`); the branch from suspended to
  expired of the reconciliation (`:436-449`) is never taken; the look at the
  audit trail drops its error (`:403`), so that a trail that cannot be read lifts
  a ban on record.
* Outreach: a task cancelled after it was listed is sent, and says cancelled
  (`outreach/service.go:275`).
* Bus: "not committed, wait for redelivery" (`kafka_publisher.go:136`) does not
  hold, because the commit of the next event passes it; a row that exists is
  processed again unless it is done (`inbox.go:14`, `:19`); the ingestion marks
  the shared row done before the handler after it has run; the failure to start
  the welcome flow is only logged (`orchestrate.go:230-239`), so that the event
  is done, consumed and committed without a dead letter, although
  `kafka_publisher.go:146-148` makes lost events countable by one.
* Deals: a move decides on the amount it read, and its update is conditional on
  the stage alone (`deal/service.go:306`, `policy.go:176`); two quotes can get
  one version (`quote.go:81`).
* Conversations: `CheckHumanTimeout` (180 s) clears `pending_handoff`, without
  which the reopening of an overdue hand-over (300 s) does nothing, so the two
  are not "orthogonal" (`chat_main.go:223`); cancelling the delay of a reply
  sends it at once (`chat_guest.go:385`); a conversation opened by an advisor's
  message is never locked (`advisor.go:1335`), so the price route and the open
  API talk into it; after a transfer without a reply the AI goes on answering on
  the web and stays silent on a channel (`inbound.go:126`); a conversation locked
  by `RoutePendingHuman` with the AI off is never reopened; a lead capture
  assigns the customer on a stale read and overwrites a claim
  (`chat_lead.go:88`); the visitor page sends the second leg of a visit without
  looking again (`chat_unauthorized.go:382`), although `preroute.go:131-133`
  calls that fixed.
* Flows: `AdvanceFlow` executes the node it stands at again, so a waiting node
  is never left (`engine.go:158`, against the comments of `nodes.go` on what
  comes after an answer).  A flow that ends in its first walk gets a machine
  that says running and is never completed (`engine.go:99-102`): the rows that
  `state_machine.go:118-131` blames on a window of time come from every such
  flow.  The retry of `syncStateMachine` writes the node of its old copy, so the
  version keeps nothing in step.  `terminalReconcile` looks at machines that
  stand at the end node only (`state_machine.go:222`): when a second walker has
  moved the machine elsewhere, the completed flow stays in the scan for ever
  (thirteen steps, no failure needed).

## Proofs

TLAPS proves the following for every set of requests, processes, orders,
workers, users, consumers or advisors, every limit and, unless a hypothesis is
given, every setting of the switches, from the assumptions named in the modules
and nothing else.  Every invariant of a passing run is the conclusion of one of
these theorems, under hypotheses that the run satisfies.

| Theorem | Property | Inductive invariant |
|---|---|---|
| `MergeQueueProofs!TypeCorrect` | `TypeOK` | itself; lemmas on the rows after placing and gathering keep them finite |
| `OneRow` | `OneRowPerRequest` | itself, over the rows, from `EnsureOwnRow` and `Gathered` keeping one row per request |
| `OneHolder` | `BusyMeansOneHolder` | `HolderInv`: the property, and that no holder, stalled ones included, is ahead of the epoch.  Without it the epoch a new batch takes might already be held |
| `Fenced` | `OnlyHolderPublishes` | `HolderInv`; only `PublishReply` puts a reply in a slot or in `lastReply` |
| `RowsWaitForSomebody`, if `~MayDrain` | `NoOrphanRow` | `OrphanInv`: the property; a holder that generates the current batch has closed it; a claim is held in the backlog and its row is in a batch |
| `TablesEmpty`, if moreover nobody stalls | `TablesAreClean` | `ClaimInv`: whoever holds, holds the current epoch, and a claim names the batch its row is in or the one that collected it.  `SlotInv`: no slot is older than the last batch but one once the queue is free |
| `CollectedOnce`, if `Calm` | `MergedAtMostOnce` | `OnceInv`: a row in a batch belongs to a request that stands in it (`PlaceInv`), a collected request stands where its batch put it (`MergedInv`), and a free queue has answered its last batch and woken the backlog (`FreeInv`) |
| `BatchesAnswers`, if `Calm` | `ImplementsAnswers` | `OnceInv`.  The mapping is `Status`; `Enqueue` is an arrival, `Collect` takes a batch, `PublishReply` answers it, everything else is a stutter |
| `RightReply`, if `Calm` and `PromptWakeups` | `ReplyCoversMessage` | `OnceInv`, `JoinedInv`: a joined request is asleep until its batch is answered, and its slot is there until it wakes; `ReplyInv`: a slot holds the reply of its own epoch |
| `RemoteMergeQueueProofs!OneProcessAnswers` | `OneHolder` | `LockInv`: whoever is past `TryLock` and before `Unlock` has the lock, and only the dead lose it |
| `RepliesComeFirst` | `PublishedBeforeUnlock` | `NumberInv` and `PublishInv`: numbers are drawn once, and where a holder stands says which of its writes can be read |
| `RepliesGoOutOnce` | `OnceUnlessNoEpoch` | `ReadInv` and `DeliverInv`: a reader that carries an epoch carries the holder's, what went out was claimed under it, and an exit text is sent once, by the batch that was routed to a human.  Assumes that the token of a free lock is no request |
| `HandedOverMessagesStay` | `NothingLost` | `Kept`: a request that was handed over is in the list, in a live hand or in a batch; what leaves one enters the next in the same step |
| `DropsNeedAReusedEpoch` | `DroppedOnlyOnReusedEpoch` | `DropInv`: a worker past its claim has delivered, has an exit text to send, or another batch has its epoch |
| `BillingOrdersProofs!TypeCorrect` | `TypeOK` | itself, in two halves: the rows, and the processes with what they carry |
| `GrantsOnce` | `GrantedOnce` | `HeldIsClaimed`: what is held is in the ledger, and once; refunds only lower it |
| `OneNumber` | `OneRecordedNumber` | `NumbersInHand`: a process about to call carries the recorded number, and an empty row has no caller |
| `BooksFollowTheProvider` | `SettledAsProviderSaid` | `WritesKnown`: a process about to write an outcome, however late, carries one the provider has given and does not take back |
| `UpgradeOwnsBase`, `LostBaseMarked` | `PendingUpgradeOwnsItsBase`, `LostBaseIsMarked` | `UpgradeInv`: both properties, one creator per order, one open refund at a time whose order stays paid and has no waiting upgrade.  The lock on the base row enters here |
| `RefundStays` | `RefundIsFinal` | the part of `UpgradeInv` about open refunds: whoever is about to revive or to commit finds the order closed or paid |
| `TokenLedgerProofs!TokensAreConserved` | `Conserved` | `LedgerInv`: a batch is in hand only between its swap and its insert (`HandInv`), a locked row is there as it was read and has one locker (`MineInv`); and each step adds as much to buffers, batches and rows as to the history (`Even`) |
| `BucketsAreNeverOverwritten` | `BucketsAddUp` | `SeenInv`: one flusher deducts at a time, from the buckets as they are, because the lock of the tenant's row is held from the read to the write.  `MonthInv`: what the month has charged and what is left of it are within the quotas given |
| `SalesProofs!RowsHaveOneOwner` | `OneOwner` | `QueueInv`: a row that was not held too long has at most one holder, is sending while it has one, and is what that holder will write |
| `TasksAreEnqueuedOnce` | `OneRowPerTask` | `RoundInv`: the rows of a task are counted by its status, its place in the round and `torn` |
| `WonDealsHaveAnAmount` | `WonWithAmount` | `MoveInv`: what a request that moves a deal carries is the amount of the row, or the deal was edited |
| `QuotesAreToldApart` | `VersionsDiffer` | `QuoteInv`: a number in hand is above every version its request has seen |
| `ServicesProofs!PaymentsLeaveBans` | `LiftsOnlyItsOwn` | `DunningInv`: records keep their shape (`Shapes`), no moment is ahead of the trail (`Moments`), a ban is in the trail or about to be (`Bans`), and a payment about to lift, that has read the trail, knows of every ban but the noted ones (`LiftKnows`) |
| `EventBusProofs!NoEventVanishes` | `EventsAccounted` | `BusInv`: a row that is done was served or is among the unwelcomed, what is below the committed offset is sure, what a consumer has in hand agrees with both |
| `ConversationProofs!ClaimedStaysClaimed` | `StaysClaimed` | types alone: only a lead capture that read nobody writes over an owner |
| `NobodyTalksOver` | `NotTalkedOver` | `ChatInv`: an advisor's reply leaves the row locked until someone frees it (`LockKept`), and every request past its decision saw it free, or began before (`TurnsOK`) |
| `ChatTyped` | types of `Conversation` | itself |
| `ServicesProofs!EachServiceRuns` | — | none: a step of the composition is to each service a step or a stutter |
| `ServicesTyped` | `ServicesTypeOK` | one strengthening per service: an answer is about a row in hand (`ReachTyped`), tasks and quotes name rows that are there (`DealsTyped`), an audit row follows an act (`DunningTypes`), no offset is ahead of the events (`BusTypedInv`), the version of a machine counts walks that are over (`FlowInv`) |
| `ServicesSafe` | the safety properties of the six services | the theorems above, through `EachServiceRuns` |

`Calm` is no shutdown, no stalled holder, no silent release and no lost race for
the mutex, as in `queue_core`; the section on [runs](#runs) says what goes wrong
without each.  The invariants of `MergeQueue` are layered so: `OrphanInv` needs
the first of these, `ClaimInv` the first two, `OnceInv` all four.

The assumptions: finite sets and positive limits (`MergeQueue`); known channels
and distinct "none" values (`BillingOrders`); `RemoteConstants`, the token of a
free lock is no request; finite processes, positive calls and a positive buffer,
buckets that are naturals (`TokenLedger`); `OutreachConstants` ("idle" is no
task, retries are naturals), `DealConstants`, `BusConstants` and `ChatConstants`
(amounts, numbers and timeouts are naturals), `DunningConstants` (days and terms
are naturals, the reminders a finite set), `FlowConstants` (the flow starts at a
node and its edges lead to nodes), and `ServicesConstants`, all of the last six.
Each proof has one step per action, or a frame lemma that disposes of the
actions that leave its variables alone.

Induction over data is done where it is needed, in first-order form: that a
fold over a finite set adds up (`TokenLedgerProofs`) is shown with a set in the
place of the predicate, from the theorem that a well-founded order has minimal
elements.

Only model-checked: liveness under fairness, which this prover cannot do
(`EveryRequestReturns`, `MoneyIsAnswered`, `AcceptedRefundSettles`,
`DebtIsWorkedOff`, `TasksSettle`, `SettledIsClosed`, `EndedIsClosed`), and the
five disagreements, which are counterexamples.

## What is not modelled

* Text: strategies, prompts, models, content safety, templates, attribution and
  analytics compute data, and no property here depends on it.
* HTTP, rendering, the front end, the gateway, middleware, metrics, tools.
  Most of the lines of `internal/api` are request parsing, queries and single
  writes; of its large files the models take the handlers that several actors
  race on.
* PostgreSQL: a transaction is atomic, `SELECT FOR UPDATE` excludes.
* Redis failing over to local locks, a process that is paused beyond the time
  to live of its lock, key expiry, the deadline of a remote waiter with its
  degraded notice, silent releases and `ShutdownDrain` in the Redis mode,
  requests with equal content (the list holds contents; the model assumes them
  distinct).
* The limit of the lists that the reconciliation works through, token packs,
  invoices, the nonce of a webhook.
* `TokenLedger`: the shadow balance, alerts, statistics of calls.
* `EventBus`: the publisher that only logs, malformed headers, the cancellation
  of a retry by its context.
* `Conversation`: the merge queue around a reply, fixed texts, failing writes,
  the merge of two identities, the branch of `CheckHumanTimeout` that goes by
  the customer's last message.
* `FlowEngine`: the path of sales, suspended instances (nothing suspends one),
  a flow without a tenant, which keeps no machine.
* Tenant webhooks repeat the claim and revival of `OutboundQueue` on other rows;
  the token cache, the login guard, e-mail codes, the realtime hub, scan
  deduplication and configuration reload are one row, key or map each, read and
  then written: a module of theirs would restate its guard.

## Plan

1. `MergeQueue`, `BatchedAnswers`, `RemoteMergeQueue`, `BillingOrders` and
   their proofs — done.
2. `TokenLedger`, `OutboundQueue`, `Outreach`, `Deals`, `Dunning`, `EventBus`,
   `Conversation`, `FlowEngine` and their proofs, and `MCServices` as a
   composition — done.
3. The common invariant of rows and claims in `MergeQueue`, the refinement of
   `BatchedAnswers`, the lists of `RemoteMergeQueue` and the sums of
   `TokenLedger` — done.
4. Open: `RightReply` without the hypothesis on lost races (TLC finds no
   counterexample on the instance of `queue_core`, but a request may then stand
   in a later batch than the one that collected it, so `OnceInv` has to be
   replaced); a process paused beyond the time to live of its lock in
   `RemoteMergeQueue`; the reconciliation's lists with their limit and many
   orders; the merge queue under `Conversation`, so that a reply that was merged
   is also one that may be spoken.
