--------------------------- MODULE BillingOrders ---------------------------
(***************************************************************************)
(* The orders of one tenant, from the quote to the refund paid out:        *)
(* internal/billing/billing_order.go, billing_grant.go, billing_refund.go. *)
(* HTTP handlers (a customer ordering, a payment webhook, the super-       *)
(* administrator confirming or refunding), the sweep that closes unpaid    *)
(* orders and the six-hourly reconciliation work on the same rows, and any *)
(* of them may die between two transactions.                               *)
(*                                                                         *)
(* One action is one database transaction or one call to the payment       *)
(* provider.  The refund is two actions, because what it counts at its     *)
(* start is used at its commit and only two rows are locked in between.    *)
(* Every package is a monthly one; a price or a refund is 0 or 1: nothing, *)
(* or something.                                                           *)
(***************************************************************************)
EXTENDS Naturals, Sequences, FiniteSets, Functions

CONSTANTS
    Orders,        \* the order rows, each created at most once
    Package,       \* the package each order buys
    Channel,       \* its payment channel: "mock", "manual" or "psp"
    Handlers,      \* the goroutines of HTTP requests, reused
    Reconcilers,   \* the processes that run ReconcileBilling
    NoOrder, NoNumber,
    MaxFaults,     \* bound: crashes, database and provider errors in a run
    SlowCalls      \* a payout may outlive the reconciler's 10-minute grace

ASSUME OrdersFinite == IsFiniteSet(Orders)
ASSUME NoOrderIsNone == NoOrder \notin Orders
ASSUME NoNumberIsNone == NoNumber \notin Orders \X Nat
ASSUME ChannelsKnown == Channel \in [Orders -> {"mock", "manual", "psp"}]
ASSUME ReconcilersApart == Handlers \cap Reconcilers = {}
ASSUME FaultsBounded == MaxFaults \in Nat
ASSUME SlowCallsIsBoolean == SlowCalls \in BOOLEAN

Procs == Handlers \cup Reconcilers

VARIABLES
    \* billing_orders
    status,      \* "none" until the row exists
    base,        \* upgrade_base_order_id
    amount,      \* amount_cents: 0 when the old package covers the new one
    paidLog,     \* the orders in the order of their paid_at
    late,        \* payment_data says late_payment_reopen
    outNo,       \* refund_out_no
    psp,         \* refund_psp_status
    \* the other tables
    ledger,      \* reward_claims: the orders with an order_entitlement row
    held,        \* how many times the tenant holds what each order bought
    \* outside the program
    money,       \* the orders whose money has arrived
    pspSeen,     \* the refund numbers the provider has accepted, per order
    pspOut,      \* what became of the refund at the provider
    alerted,     \* the orders the finance group was told to look at
    faults,
    \* each process: where it stands, its order, and what it carries from one
    \* step to the next: the base it quoted or, in a refund, the order that is left;
    \* the refund number; the status to write
    pc, ord, plan, num, st

rows == <<status, base, amount, paidLog, late, outNo, psp>>
tenant == <<ledger, held>>
provider == <<pspSeen, pspOut>>
job == <<pc, ord, plan, num, st>>
vars == <<rows, tenant, money, provider, alerted, faults, job>>

At(p, where) == pc[p] = where

\* p goes on at where, for order o, with base b, number n and status s in hand.
GoTo(p, where, o, b, n, s) ==
    /\ pc' = [pc EXCEPT ![p] = where]
    /\ ord' = [ord EXCEPT ![p] = o]
    /\ plan' = [plan EXCEPT ![p] = b]
    /\ num' = [num EXCEPT ![p] = n]
    /\ st' = [st EXCEPT ![p] = s]
Begin(p, where, o) == GoTo(p, where, o, NoOrder, NoNumber, "")
Return(p) == GoTo(p, "idle", NoOrder, NoOrder, NoNumber, "")

Init ==
    /\ status = [o \in Orders |-> "none"]
    /\ base = [o \in Orders |-> NoOrder]
    /\ amount = [o \in Orders |-> 0]
    /\ paidLog = <<>> /\ late = {}
    /\ outNo = [o \in Orders |-> NoNumber]
    /\ psp = [o \in Orders |-> ""]
    /\ ledger = {} /\ held = [o \in Orders |-> 0]
    /\ money = {}
    /\ pspSeen = [o \in Orders |-> {}] /\ pspOut = [o \in Orders |-> "none"]
    /\ alerted = {} /\ faults = 0
    /\ pc = [p \in Procs |-> "idle"]
    /\ ord = [p \in Procs |-> NoOrder] /\ plan = [p \in Procs |-> NoOrder]
    /\ num = [p \in Procs |-> NoNumber] /\ st = [p \in Procs |-> ""]

Fault == faults < MaxFaults /\ faults' = faults + 1

(***************************************************************************)
(* Ordering.                                                               *)
(***************************************************************************)

\* ActivePaidSubscription: the paid order with the latest paid_at.  It counts
\* only while tenants.expired_at lies ahead, so something must be held.
LatestPaid(o) ==
    \E i \in DOMAIN paidLog :
        /\ paidLog[i] = o
        /\ status[o] = "paid"
        /\ \A j \in DOMAIN paidLog : j > i => status[paidLog[j]] # "paid"
Subscribed == \E o \in Orders : held[o] > 0

\* CreateOrderForPackage up to the transaction: an unlocked read decides what
\* the order is an upgrade of.  The subscription may also have run out.
QuoteOrder(p, o) ==
    /\ p \in Handlers /\ At(p, "idle")
    /\ status[o] = "none"
    /\ \A q \in Procs : ~(At(q, "create") /\ ord[q] = o)
    /\ \E b \in Orders \cup {NoOrder} :
        /\ b # NoOrder => Subscribed /\ LatestPaid(b) /\ Package[b] # Package[o]
        /\ GoTo(p, "create", o, b, NoNumber, "")
    /\ UNCHANGED <<rows, tenant, money, provider, alerted, faults>>

\* The refund of an order holds its row, and the tenant's, until it commits.
RowLocked(o) == \E p \in Procs : At(p, "refund") /\ ord[p] = o
TenantLocked == \E p \in Procs : At(p, "refund")

MutBasePaid(b) == status[b] = "paid"
BaseStillGood(b) ==
    /\ status[b] = "paid"
    /\ \A u \in Orders : base[u] = b => status[u] # "pending"

CreateOrder(p) ==
    LET o == ord[p]
        b == plan[p]
    IN  /\ At(p, "create")
        /\ b # NoOrder => ~RowLocked(b) /\ BaseStillGood(b)
        /\ status' = [status EXCEPT ![o] = "pending"]
        /\ base' = [base EXCEPT ![o] = b]
        /\ \E a \in IF b = NoOrder THEN {1} ELSE {0, 1} : amount' = [amount EXCEPT ![o] = a]
        /\ Return(p)
        /\ UNCHANGED <<paidLog, late, outNo, psp, tenant, money, provider, alerted, faults>>

RefuseOrder(p) ==
    LET b == plan[p]
    IN  /\ At(p, "create")
        /\ b # NoOrder /\ ~RowLocked(b) /\ ~BaseStillGood(b)
        /\ Return(p)
        /\ UNCHANGED <<rows, tenant, money, provider, alerted, faults>>

\* One UPDATE closes every pending order past order_timeout_minutes.
SweepExpiredOrders ==
    \E S \in (SUBSET {o \in Orders : status[o] = "pending"}) \ {{}} :
        /\ status' = [o \in Orders |-> IF o \in S THEN "closed" ELSE status[o]]
        /\ UNCHANGED <<base, amount, paidLog, late, outNo, psp, tenant, money,
                       provider, alerted, faults, job>>

(***************************************************************************)
(* Money arriving, and what is granted for it.                             *)
(***************************************************************************)

\* The customer pays, perhaps long after the order was closed.
Pay(o) ==
    /\ status[o] \in {"pending", "closed"} /\ Channel[o] # "mock"
    /\ o \notin money
    /\ money' = money \cup {o}
    /\ UNCHANGED <<rows, tenant, provider, alerted, faults, job>>

SetPaid(o) ==
    /\ status' = [status EXCEPT ![o] = "paid"]
    /\ paidLog' = Append(paidLog, o)
    /\ UNCHANGED <<base, amount, outNo, psp>>

\* A webhook (delivered any number of times), a confirmation by hand or a mock
\* payment, up to MarkOrderPaid.  Nothing in the program looks at the money: the
\* administrator may confirm an order that nobody has paid.
ConfirmPaid(p, o) ==
    /\ p \in Handlers /\ At(p, "idle")
    /\ status[o] # "none"
    /\ IF status[o] = "pending"
       THEN SetPaid(o) /\ UNCHANGED late /\ Begin(p, "grant", o)
       ELSE UNCHANGED rows /\ Begin(p, "reopen", o)
    /\ UNCHANGED <<tenant, money, provider, alerted, faults>>

MutReviveAny(o) == Channel[o] # "mock" /\ status[o] # "paid"
MutManualOnly(o) == Channel[o] = "manual" /\ status[o] = "closed"
\* By the channel of the order: a webhook is refused when its own differs, and an
\* administrator, who passes "manual", when the order's is "mock".
MayReopen(o) == Channel[o] # "mock" /\ status[o] = "closed"

ReopenClosedOrderPaid(p) ==
    /\ At(p, "reopen")
    /\ IF MayReopen(ord[p])
       THEN SetPaid(ord[p]) /\ late' = late \cup {ord[p]} /\ Begin(p, "grant", ord[p])
       ELSE UNCHANGED rows /\ Return(p)
    /\ UNCHANGED <<tenant, money, provider, alerted, faults>>

MutStillPaid(o) == status[o] = "paid"
NotYetGranted(o) == o \notin ledger

\* One transaction: the ledger row first, then the package, unless the row was
\* there already.  The status of the order is not read again.  An upgrade takes the
\* place of its base; that stays held here, because a refund of the upgrade falls
\* back to it.
GrantOrderEntitlement(p) ==
    LET o == ord[p]
    IN  /\ At(p, "grant") /\ ~TenantLocked
        /\ ledger' = ledger \cup {o}
        /\ held' = IF NotYetGranted(o) THEN [held EXCEPT ![o] = @ + 1] ELSE held
        /\ Return(p)
        /\ UNCHANGED <<rows, money, provider, alerted, faults>>

(***************************************************************************)
(* Refunds.                                                                *)
(***************************************************************************)

MutPendingUpgrade(o) == \E u \in Orders : base[u] = o /\ status[u] = "pending"
UsedAsBase(o) == \E u \in Orders : base[u] = o /\ status[u] \in {"paid", "pending"}

\* The paid orders left for the subscription to fall back to.
FallsBackTo(o) ==
    LET others == {r \in Orders \ {o} : status[r] = "paid"}
    IN  IF others = {} THEN {NoOrder} ELSE others

\* MarkOrderRefunded up to computeRefundForOrder: the rows are locked, the
\* upgrades on this order and the other paid orders are counted.  A refusal
\* changes nothing.
BeginRefund(p, o) ==
    /\ p \in Handlers /\ At(p, "idle")
    /\ ~TenantLocked /\ status[o] = "paid" /\ ~UsedAsBase(o)
    /\ \E r \in FallsBackTo(o) : GoTo(p, "refund", o, r, NoNumber, "")
    /\ UNCHANGED <<rows, tenant, money, provider, alerted, faults>>

\* The clawback takes what this order granted; it ends the subscription when
\* no other order was found.  An order that cost nothing is only marked.
Clawback(o, left) ==
    IF amount[o] = 0 THEN held
    ELSE [q \in Orders |-> IF q = o \/ left = NoOrder THEN 0 ELSE held[q]]

CommitRefund(p) ==
    LET o == ord[p]
    IN  /\ At(p, "refund")
        /\ status' = [status EXCEPT ![o] = "refunded"]
        /\ held' = Clawback(o, plan[p])
        /\ IF amount[o] > 0 /\ Channel[o] = "psp" THEN Begin(p, "read", o) ELSE Return(p)
        /\ UNCHANGED <<base, amount, paidLog, late, outNo, psp, ledger, money, provider,
                       alerted, faults>>

(***************************************************************************)
(* executeRefundPayout: the number is recorded, then the provider called,  *)
(* then the outcome recorded.                                              *)
(***************************************************************************)
Due(o) == status[o] = "refunded" /\ amount[o] > 0 /\ Channel[o] = "psp"
Paying(o) == \E p \in Procs : pc[p] \in {"read", "intent", "call", "write"} /\ ord[p] = o

\* "RF" and the order number: the same whoever computes it.  (The second part
\* is 0; it only lets a number that is not stable be written down.)
RefundNumber(o) == <<o, 0>>

ReadOutNo(p) ==
    LET o == ord[p]
    IN  /\ At(p, "read")
        /\ IF outNo[o] = NoNumber
           THEN GoTo(p, "intent", o, NoOrder, RefundNumber(o), "")
           ELSE GoTo(p, "call", o, NoOrder, outNo[o], "")
        /\ UNCHANGED <<rows, tenant, money, provider, alerted, faults>>

\* writeRefundIntent is conditional on an empty number; who comes second uses
\* the number it finds.
WriteIntent(p) ==
    LET o == ord[p]
    IN  /\ At(p, "intent")
        /\ IF outNo[o] = NoNumber
           THEN /\ outNo' = [outNo EXCEPT ![o] = num[p]]
                /\ psp' = [psp EXCEPT ![o] = "psp_pending"]
                /\ GoTo(p, "call", o, NoOrder, num[p], "")
           ELSE /\ GoTo(p, "call", o, NoOrder, outNo[o], "")
                /\ UNCHANGED <<outNo, psp>>
        /\ UNCHANGED <<status, base, amount, paidLog, late, tenant, money, provider,
                       alerted, faults>>

MutFreshNumber(p) == <<ord[p], Cardinality(pspSeen[ord[p]])>>

\* What the adapter puts in the request (refundOutNo).
NumberSent(p) == num[p]

Accepted(p) ==
    LET o == ord[p]
    IN  /\ pspSeen' = [pspSeen EXCEPT ![o] = @ \cup {NumberSent(p)}]
        /\ pspOut' = [pspOut EXCEPT ![o] = IF @ = "none" THEN "processing" ELSE @]

\* The provider takes the request and says so.
CallAccepted(p) ==
    /\ At(p, "call")
    /\ Accepted(p)
    /\ GoTo(p, "write", ord[p], NoOrder, NoNumber, "psp_ok")
    /\ UNCHANGED <<rows, tenant, money, alerted, faults>>

\* The call fails, and the provider may have taken the request all the same.
CallFails(p) ==
    /\ At(p, "call") /\ Fault
    /\ Accepted(p) \/ UNCHANGED provider
    /\ alerted' = alerted \cup {ord[p]}
    /\ GoTo(p, "write", ord[p], NoOrder, NoNumber, "psp_pending")
    /\ UNCHANGED <<rows, tenant, money>>

\* writeRefundPspStatus; a refund that turns out to have failed is reported.
WriteStatus(p) ==
    LET o == ord[p]
    IN  /\ At(p, "write")
        /\ psp' = [psp EXCEPT ![o] = st[p]]
        /\ alerted' = IF st[p] = "psp_failed" THEN alerted \cup {o} ELSE alerted
        /\ Return(p)
        /\ UNCHANGED <<status, base, amount, paidLog, late, outNo, tenant, money,
                       provider, faults>>

\* A read or a write of the payout fails: no call is made for it, finance is told.
PayoutDbError(p) ==
    /\ pc[p] \in {"read", "intent", "write"} /\ Fault
    /\ alerted' = alerted \cup {ord[p]}
    /\ Return(p)
    /\ UNCHANGED <<rows, tenant, money, provider>>

\* The provider makes up its mind.
PspSettles(o) ==
    /\ pspOut[o] = "processing"
    /\ \E out \in {"success", "failed"} : pspOut' = [pspOut EXCEPT ![o] = out]
    /\ UNCHANGED <<rows, tenant, money, pspSeen, alerted, faults, job>>

(***************************************************************************)
(* ReconcileBilling: three lists, each worked through row by row.  A row   *)
(* is listed in one step and dealt with in later ones.                     *)
(***************************************************************************)
Ungranted(o) == status[o] = "paid" /\ o \notin ledger
Unpaid(o) == Due(o) /\ psp[o] = ""
MutPendingListed(o) == Due(o) /\ psp[o] = "psp_pending" /\ outNo[o] # NoNumber
Unsettled(o) == Due(o) /\ psp[o] = "psp_ok" /\ outNo[o] # NoNumber

Pick(p, o, where) ==
    /\ p \in Reconcilers /\ At(p, "idle")
    /\ Begin(p, where, o)
    /\ UNCHANGED <<rows, tenant, money, provider, alerted, faults>>

RegrantMissing(p, o) == Ungranted(o) /\ Pick(p, o, "grant")

\* updated_at keeps the list clear of a payout under way, unless it is slow.
RepayMissing(p, o) == Unpaid(o) /\ (SlowCalls \/ ~Paying(o)) /\ Pick(p, o, "read")

QueryAccepted(p, o) == Unsettled(o) /\ (SlowCalls \/ ~Paying(o)) /\ Pick(p, o, "query")

MutVerdictRaw(out) == IF out = "processing" THEN "" ELSE out
MutVerdictGuess(out) == IF out = "success" THEN "psp_success" ELSE "psp_failed"

\* reconcileOneRefundResult: only a final answer is written down.
Verdict(out) ==
    CASE out = "success" -> "psp_success"
      [] out = "failed" -> "psp_failed"
      [] OTHER -> ""

ReconcileOneRefundResult(p) ==
    LET next == Verdict(pspOut[ord[p]])
    IN  /\ At(p, "query")
        /\ IF next = "" THEN Return(p)
           ELSE GoTo(p, "write", ord[p], NoOrder, NoNumber, next)
        /\ UNCHANGED <<rows, tenant, money, provider, alerted, faults>>

\* The process dies, or a transaction other than the payout's is rolled back:
\* the handler goes no further.
Crash(p) ==
    /\ ~At(p, "idle") /\ Fault
    /\ Return(p)
    /\ UNCHANGED <<rows, tenant, money, provider, alerted>>

(***************************************************************************)
(* The specification.                                                      *)
(***************************************************************************)
ConfirmSome(o) == \E p \in Handlers : ConfirmPaid(p, o)
RegrantSome(o) == \E p \in Reconcilers : RegrantMissing(p, o)
RepaySome(o) == \E p \in Reconcilers : RepayMissing(p, o)
QuerySome(o) == \E p \in Reconcilers : QueryAccepted(p, o)

\* What a process does next once it has begun, when nothing goes wrong.
Proceed(p) ==
    \/ CreateOrder(p) \/ RefuseOrder(p)
    \/ ReopenClosedOrderPaid(p) \/ GrantOrderEntitlement(p)
    \/ CommitRefund(p)
    \/ ReadOutNo(p) \/ WriteIntent(p) \/ CallAccepted(p) \/ WriteStatus(p)
    \/ ReconcileOneRefundResult(p)

Next ==
    \/ \E p \in Handlers, o \in Orders : QuoteOrder(p, o) \/ BeginRefund(p, o)
    \/ \E o \in Orders :
          \/ Pay(o) \/ ConfirmSome(o) \/ PspSettles(o)
          \/ RegrantSome(o) \/ RepaySome(o) \/ QuerySome(o)
    \/ SweepExpiredOrders
    \/ \E p \in Procs : Proceed(p) \/ CallFails(p) \/ PayoutDbError(p) \/ Crash(p)

Spec == Init /\ [][Next]_vars

\* A goroutine that is not dead goes on; the provider repeats a webhook until
\* it is answered, and the administrator confirms what the webhook lost; every
\* round of the reconciliation lists every order it can do something about.
Fairness ==
    /\ \A p \in Procs : WF_vars(Proceed(p))
    /\ \A o \in Orders :
          /\ SF_vars(ConfirmSome(o) /\ o \in money /\ status[o] \in {"pending", "closed"})
          /\ SF_vars(RegrantSome(o)) /\ SF_vars(RepaySome(o)) /\ SF_vars(QuerySome(o))
          /\ WF_vars(PspSettles(o))

FairSpec == Spec /\ Fairness

(***************************************************************************)
(* Properties.                                                             *)
(***************************************************************************)
Places == {"idle", "create", "reopen", "grant", "refund", "read", "intent", "call",
           "write", "query"}
PspStatus == {"", "psp_pending", "psp_ok", "psp_success", "psp_failed"}

\* Every variable has its type, and a process at work has an order.
TypeOK ==
    /\ status \in [Orders -> {"none", "pending", "paid", "closed", "refunded"}]
    /\ base \in [Orders -> Orders \cup {NoOrder}]
    /\ amount \in [Orders -> {0, 1}]
    /\ paidLog \in Seq(Orders) /\ late \subseteq Orders
    /\ outNo \in [Orders -> (Orders \X Nat) \cup {NoNumber}]
    /\ psp \in [Orders -> PspStatus]
    /\ ledger \subseteq Orders /\ held \in [Orders -> Nat]
    /\ money \subseteq Orders
    /\ pspSeen \in [Orders -> SUBSET ((Orders \X Nat) \cup {NoNumber})]
    /\ pspOut \in [Orders -> {"none", "processing", "success", "failed"}]
    /\ alerted \subseteq Orders /\ faults \in 0 .. MaxFaults
    /\ pc \in [Procs -> Places] /\ st \in [Procs -> PspStatus]
    /\ ord \in [Procs -> Orders \cup {NoOrder}] /\ plan \in [Procs -> Orders \cup {NoOrder}]
    /\ num \in [Procs -> (Orders \X Nat) \cup {NoNumber}]
    /\ \A p \in Procs : ~At(p, "idle") => ord[p] \in Orders

\* Whatever is repeated (webhooks, confirmations by hand, the reconciliation,
\* a handler that comes back after its order was listed as ungranted), a
\* customer never holds one order's package twice.
GrantedOnce == \A o \in Orders : held[o] <= 1

\* The provider has seen one refund number per order at most, and that number
\* is in the row: no payout that the database does not know of, and no second
\* one under another number, however often payouts are retried or overlap.
OneRecordedNumber ==
    \A o \in Orders : pspSeen[o] \subseteq {outNo[o]} \ {NoNumber}

\* The books call a refund settled, or failed, only when the provider has; and
\* accepted only when the provider has taken it.
SettledAsProviderSaid ==
    \A o \in Orders :
        /\ psp[o] = "psp_success" => pspOut[o] = "success"
        /\ psp[o] = "psp_failed" => pspOut[o] = "failed"
        /\ psp[o] = "psp_ok" => pspSeen[o] # {}

\* While an upgrade waits for its money its base stays paid and serves no other
\* waiting upgrade.  CreateOrderForPackage and computeRefundForOrder each keep
\* one half of this, and the lock on the base row keeps them apart.
PendingUpgradeOwnsItsBase ==
    \A u \in Orders :
        status[u] = "pending" /\ base[u] # NoOrder =>
            /\ status[base[u]] = "paid"
            /\ \A v \in Orders \ {u} : status[v] = "pending" => base[v] # base[u]

\* A paid upgrade whose base has been refunded carries the late-payment mark, so
\* finance can find every order whose discount was also paid out in money.
LostBaseIsMarked ==
    \A u \in Orders :
        status[u] = "paid" /\ base[u] # NoOrder /\ status[base[u]] = "refunded" => u \in late

\* A refunded order never comes back, whatever webhook or confirmation arrives
\* late: the revival of closed orders (billing_order.go:231) is for those alone.
RefundIsFinal ==
    [][\A o \in Orders : status[o] = "refunded" => status'[o] = "refunded"]_vars

\* Money that arrives, however late and whoever crashes, is answered with the
\* package or, if the administrator was faster, with a refund.
MoneyIsAnswered ==
    \A o \in Orders : o \in money ~> o \in ledger \/ status[o] = "refunded"

\* A refund that the books call accepted (psp_ok) is settled in the books, or finance
\* has been told about it.  Excepted is the acceptance that was never written down,
\* because the process died first: it stays psp_pending and in no list, and nobody is
\* told (EveryRefundIsSent).  The provider is one that can be asked.
AcceptedRefundSettles ==
    \A o \in Orders :
        psp[o] = "psp_ok" ~> psp[o] \in {"psp_success", "psp_failed"} \/ o \in alerted

\* billing_order.go:108: the remaining value of one order is set off once.
OffsetOnce ==
    \A u, v \in Orders :
        status[u] = "paid" /\ status[v] = "paid" /\ base[u] = base[v] /\ u # v
            => base[u] = NoOrder

\* billing_refund.go:330: a refund takes back what the order granted.
RefundedKeepsNothing ==
    \A o \in Orders : status[o] = "refunded" /\ amount[o] > 0 => held[o] = 0

\* billing_refund.go:26: a refund that is recorded but was not sent is retried;
\* every refund that is due reaches the provider, or finance is told.
EveryRefundIsSent ==
    \A o \in Orders : Due(o) ~> pspSeen[o] # {} \/ o \in alerted
============================================================================
