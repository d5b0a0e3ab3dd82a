------------------------ MODULE BillingOrdersProofs ------------------------
(***************************************************************************)
(* What holds of BillingOrders for any set of orders, packages, channels,  *)
(* handlers and reconcilers, any number of faults, and payouts that take   *)
(* any time.                                                               *)
(***************************************************************************)
EXTENDS BillingOrders, SequenceTheorems, TLAPS

\* A step that only moves process p is well typed.
JobsOK ==
    /\ pc \in [Procs -> Places] /\ st \in [Procs -> PspStatus]
    /\ ord \in [Procs -> Orders \cup {NoOrder}] /\ plan \in [Procs -> Orders \cup {NoOrder}]
    /\ num \in [Procs -> (Orders \X Nat) \cup {NoNumber}]
    /\ \A p \in Procs : ~At(p, "idle") => ord[p] \in Orders

LEMMA GoToType ==
    ASSUME JobsOK, NEW p \in Procs, NEW where \in Places, NEW o \in Orders \cup {NoOrder},
           where # "idle" => o \in Orders,
           NEW b \in Orders \cup {NoOrder}, NEW n \in (Orders \X Nat) \cup {NoNumber},
           NEW s \in PspStatus, GoTo(p, where, o, b, n, s)
    PROVE  JobsOK'
  BY DEF JobsOK, GoTo, At

LEMMA BeginType ==
    ASSUME JobsOK, NEW p \in Procs, NEW where \in Places, NEW o \in Orders, Begin(p, where, o)
    PROVE  JobsOK'
  BY GoToType DEF Begin, PspStatus

LEMMA ReturnType == ASSUME JobsOK, NEW p \in Procs, Return(p) PROVE JobsOK'
  BY GoToType DEF Return, PspStatus, Places

\* The rest of the type invariant.
DataOK ==
    /\ status \in [Orders -> {"none", "pending", "paid", "closed", "refunded"}]
    /\ base \in [Orders -> Orders \cup {NoOrder}]
    /\ amount \in [Orders -> {0, 1}]
    /\ paidLog \in Seq(Orders) /\ late \subseteq Orders
    /\ outNo \in [Orders -> (Orders \X Nat) \cup {NoNumber}]
    /\ psp \in [Orders -> PspStatus]
    /\ ledger \subseteq Orders /\ held \in [Orders -> Nat]
    /\ money \subseteq Orders
    /\ pspSeen \in [Orders -> SUBSET ((Orders \X Nat) \cup {NoNumber})]
    /\ pspOut \in [Orders -> {"none", "processing", "success", "failed"}]
    /\ alerted \subseteq Orders /\ faults \in 0 .. MaxFaults

LEMMA AppendType ==
    ASSUME NEW s \in Seq(Orders), NEW o \in Orders PROVE Append(s, o) \in Seq(Orders)
  BY AppendProperties

LEMMA TypeSplit == TypeOK <=> DataOK /\ JobsOK
  BY DEF TypeOK, DataOK, JobsOK

LEMMA TypeInit == Init => TypeOK
<1> SUFFICES ASSUME Init PROVE TypeOK
  OBVIOUS
<1>1. JobsOK
  BY DEF Init, JobsOK, At, PspStatus, Places
<1>2. paidLog \in Seq(Orders)
  BY EmptySeq DEF Init
<1>3. DataOK
  <2>1. amount \in [Orders -> {0, 1}] /\ held \in [Orders -> Nat]
    BY DEF Init
  <2>3. faults \in 0 .. MaxFaults
    <3>1. faults = 0
      BY DEF Init
    <3> QED BY <3>1, FaultsBounded
  <2>2. pspSeen \in [Orders -> SUBSET ((Orders \X Nat) \cup {NoNumber})]
    <3> DEFINE S == SUBSET ((Orders \X Nat) \cup {NoNumber})
    <3>1. {} \in S
      OBVIOUS
    <3>2. pspSeen = [o \in Orders |-> {}]
      BY DEF Init
    <3> HIDE DEF S
    <3>3. pspSeen \in [Orders -> S]
      BY <3>1, <3>2
    <3> QED BY <3>3 DEF S
  <2> QED
    BY <1>2, <2>1, <2>2, <2>3 DEF Init, DataOK, PspStatus
<1> QED BY <1>1, <1>3, TypeSplit

LEMMA FaultType == ASSUME DataOK, Fault PROVE faults' \in 0 .. MaxFaults
  BY FaultsBounded DEF DataOK, Fault

LEMMA TypeStep == TypeOK /\ [Next]_vars => TypeOK'
<1> SUFFICES ASSUME DataOK, JobsOK, [Next]_vars PROVE DataOK' /\ JobsOK'
  BY DEF TypeOK, DataOK, JobsOK
<1>a. \A p \in Handlers \cup Reconcilers : p \in Procs
  BY DEF Procs
<1>b. \A p \in Procs : ~At(p, "idle") => ord[p] \in Orders
  BY DEF JobsOK
<1> USE DEF DataOK
<1>1. ASSUME NEW p \in Handlers, NEW o \in Orders, QuoteOrder(p, o) PROVE DataOK' /\ JobsOK'
  <2>1. PICK b \in Orders \cup {NoOrder} : GoTo(p, "create", o, b, NoNumber, "")
    BY <1>1 DEF QuoteOrder
  <2>2. JobsOK'
    BY <2>1, <1>a, GoToType DEF PspStatus, Places
  <2> QED BY <2>2, <1>1 DEF QuoteOrder, rows, tenant, provider
<1>2. ASSUME NEW p \in Procs, CreateOrder(p) PROVE DataOK' /\ JobsOK'
  BY <1>2, <1>b, ReturnType DEF CreateOrder, JobsOK, At, tenant, provider
<1>3. ASSUME NEW p \in Procs, RefuseOrder(p) PROVE DataOK' /\ JobsOK'
  BY <1>3, ReturnType DEF RefuseOrder, rows, tenant, provider
<1>4. CASE SweepExpiredOrders
  BY <1>4 DEF SweepExpiredOrders, tenant, provider, job, JobsOK, At
<1>5. ASSUME NEW o \in Orders, Pay(o) PROVE DataOK' /\ JobsOK'
  BY <1>5 DEF Pay, rows, tenant, provider, job, JobsOK, At
<1>6. ASSUME NEW p \in Handlers, NEW o \in Orders, ConfirmPaid(p, o) PROVE DataOK' /\ JobsOK'
  <2>1. JobsOK'
    BY <1>6, <1>a, BeginType DEF ConfirmPaid, Places
  <2>2. CASE status[o] = "pending"
    <3>1. paidLog' \in Seq(Orders)
      <4>1. paidLog' = Append(paidLog, o)
        BY <1>6, <2>2 DEF ConfirmPaid, SetPaid
      <4> QED BY <4>1, AppendType
    <3> QED
      BY <1>6, <2>1, <2>2, <3>1 DEF ConfirmPaid, SetPaid, tenant, provider
  <2>3. CASE status[o] # "pending"
    BY <1>6, <2>1, <2>3 DEF ConfirmPaid, rows, tenant, provider
  <2> QED BY <2>2, <2>3
<1>7. ASSUME NEW p \in Procs, ReopenClosedOrderPaid(p) PROVE DataOK' /\ JobsOK'
  <2>1. ord[p] \in Orders
    BY <1>7, <1>b DEF ReopenClosedOrderPaid, At
  <2>2. JobsOK'
    BY <1>7, <2>1, BeginType, ReturnType DEF ReopenClosedOrderPaid, Places
  <2>3. CASE MayReopen(ord[p])
    <3>1. paidLog' \in Seq(Orders)
      <4>1. paidLog' = Append(paidLog, ord[p])
        BY <1>7, <2>3 DEF ReopenClosedOrderPaid, SetPaid
      <4> QED BY <2>1, <4>1, AppendType
    <3>2. /\ status' = [status EXCEPT ![ord[p]] = "paid"] /\ late' = late \cup {ord[p]}
          /\ UNCHANGED <<base, amount, outNo, psp, tenant, money, provider, alerted, faults>>
      BY <1>7, <2>3 DEF ReopenClosedOrderPaid, SetPaid
    <3>3. DataOK'
      BY <2>1, <3>1, <3>2 DEF tenant, provider
    <3> QED
      BY <2>2, <3>3
  <2>4. CASE ~MayReopen(ord[p])
    BY <1>7, <2>2, <2>4 DEF ReopenClosedOrderPaid, rows, tenant, provider
  <2> QED BY <2>3, <2>4
<1>8. ASSUME NEW p \in Procs, GrantOrderEntitlement(p) PROVE DataOK' /\ JobsOK'
  BY <1>8, <1>b, ReturnType DEF GrantOrderEntitlement, At, rows, provider
<1>9. ASSUME NEW p \in Handlers, NEW o \in Orders, BeginRefund(p, o) PROVE DataOK' /\ JobsOK'
  <2>1. PICK left \in Orders \cup {NoOrder} : GoTo(p, "refund", o, left, NoNumber, "")
    BY <1>9 DEF BeginRefund, FallsBackTo
  <2> QED
    BY <1>9, <1>a, <2>1, GoToType DEF BeginRefund, Places, PspStatus, rows, tenant, provider
<1>10. ASSUME NEW p \in Procs, CommitRefund(p) PROVE DataOK' /\ JobsOK'
  BY <1>10, <1>b, BeginType, ReturnType DEF CommitRefund, Clawback, At, Places, provider
<1>11. ASSUME NEW p \in Procs, ReadOutNo(p) PROVE DataOK' /\ JobsOK'
  BY <1>11, <1>b, GoToType
  DEF ReadOutNo, RefundNumber, At, Places, PspStatus, rows, tenant, provider
<1>12. ASSUME NEW p \in Procs, WriteIntent(p) PROVE DataOK' /\ JobsOK'
  <2>1. /\ ord[p] \in Orders
        /\ num[p] \in (Orders \X Nat) \cup {NoNumber}
        /\ outNo[ord[p]] \in (Orders \X Nat) \cup {NoNumber}
    BY <1>12, <1>b DEF WriteIntent, At, JobsOK
  <2>2. JobsOK'
    BY <1>12, <2>1, GoToType DEF WriteIntent, Places, PspStatus
  <2> QED
    BY <1>12, <2>1, <2>2 DEF WriteIntent, PspStatus, tenant, provider
<1>13. ASSUME NEW p \in Procs, Accepted(p), At(p, "call") PROVE
         /\ pspSeen' \in [Orders -> SUBSET ((Orders \X Nat) \cup {NoNumber})]
         /\ pspOut' \in [Orders -> {"none", "processing", "success", "failed"}]
  BY <1>13, <1>b DEF Accepted, NumberSent, JobsOK, At
<1>14. ASSUME NEW p \in Procs, CallAccepted(p) PROVE DataOK' /\ JobsOK'
  BY <1>14, <1>13, <1>b, GoToType DEF CallAccepted, At, Places, PspStatus, rows, tenant
<1>15. ASSUME NEW p \in Procs, CallFails(p) PROVE DataOK' /\ JobsOK'
  BY <1>15, <1>13, <1>b, GoToType, FaultType
  DEF CallFails, At, Places, PspStatus, rows, tenant, provider
<1>16. ASSUME NEW p \in Procs, WriteStatus(p) PROVE DataOK' /\ JobsOK'
  BY <1>16, <1>b, ReturnType DEF WriteStatus, JobsOK, At, tenant, provider
<1>17. ASSUME NEW p \in Procs, PayoutDbError(p) PROVE DataOK' /\ JobsOK'
  BY <1>17, <1>b, ReturnType, FaultType DEF PayoutDbError, At, rows, tenant, provider
<1>18. ASSUME NEW o \in Orders, PspSettles(o) PROVE DataOK' /\ JobsOK'
  BY <1>18 DEF PspSettles, rows, tenant, job, JobsOK, At
<1>19. ASSUME NEW p \in Reconcilers, NEW o \in Orders, NEW where \in Places, Pick(p, o, where)
       PROVE  DataOK' /\ JobsOK'
  BY <1>19, <1>a, BeginType DEF Pick, rows, tenant, provider
<1>20. ASSUME NEW p \in Procs, ReconcileOneRefundResult(p) PROVE DataOK' /\ JobsOK'
  <2>1. Verdict(pspOut[ord[p]]) \in PspStatus
    BY DEF Verdict, PspStatus
  <2> QED
    BY <1>20, <1>b, <2>1, GoToType, ReturnType
    DEF ReconcileOneRefundResult, At, Places, rows, tenant, provider
<1>21. ASSUME NEW p \in Procs, Crash(p) PROVE DataOK' /\ JobsOK'
  BY <1>21, ReturnType, FaultType DEF Crash, rows, tenant, provider
<1>22. CASE UNCHANGED vars
  BY <1>22 DEF vars, rows, tenant, provider, job, JobsOK, At
<1> QED
  BY <1>1, <1>2, <1>3, <1>4, <1>5, <1>6, <1>7, <1>8, <1>9, <1>10, <1>11, <1>12,
     <1>14, <1>15, <1>16, <1>17, <1>18, <1>19, <1>20, <1>21, <1>22
  DEF Next, Proceed, ConfirmSome, RegrantSome, RepaySome, QuerySome, RegrantMissing,
      RepayMissing, QueryAccepted, Places

\* Every variable keeps its type.
THEOREM TypeCorrect == Spec => []TypeOK
  BY TypeInit, TypeStep, PTL DEF Spec

(***************************************************************************)
(* One order is granted once: what is held is in the ledger.               *)
(***************************************************************************)
HeldIsClaimed == \A o \in Orders : held[o] <= 1 /\ (o \notin ledger => held[o] = 0)

\* Only the grant and the commit of a refund write the tenant's tables.
LEMMA TenantFrame ==
    [Next]_vars => \/ \E p \in Procs : GrantOrderEntitlement(p) \/ CommitRefund(p)
                   \/ UNCHANGED tenant
  BY DEF Next, Proceed, ConfirmSome, RegrantSome, RepaySome, QuerySome, RegrantMissing,
         RepayMissing, QueryAccepted, Pick, QuoteOrder, CreateOrder, RefuseOrder,
         SweepExpiredOrders, Pay, ConfirmPaid, ReopenClosedOrderPaid, BeginRefund,
         ReadOutNo, WriteIntent, CallAccepted, CallFails, WriteStatus, PayoutDbError,
         PspSettles, ReconcileOneRefundResult, Crash, vars

LEMMA GrantStep == TypeOK /\ HeldIsClaimed /\ [Next]_vars => HeldIsClaimed'
<1> SUFFICES ASSUME TypeOK, HeldIsClaimed, [Next]_vars PROVE HeldIsClaimed'
  OBVIOUS
<1>0. held \in [Orders -> Nat] /\ \A p \in Procs : ~At(p, "idle") => ord[p] \in Orders
  BY DEF TypeOK
<1>1. ASSUME NEW p \in Procs, GrantOrderEntitlement(p) PROVE HeldIsClaimed'
  <2>1. ord[p] \in Orders
    BY <1>0, <1>1 DEF GrantOrderEntitlement, At
  <2> QED
    BY <1>0, <1>1, <2>1 DEF GrantOrderEntitlement, NotYetGranted, HeldIsClaimed
<1>2. ASSUME NEW p \in Procs, CommitRefund(p) PROVE HeldIsClaimed'
  BY <1>0, <1>2 DEF CommitRefund, Clawback, HeldIsClaimed
<1>3. CASE UNCHANGED tenant
  BY <1>3 DEF tenant, HeldIsClaimed
<1> QED
  BY <1>1, <1>2, <1>3, TenantFrame

\* However often an order is confirmed, regranted and reconciled, and wherever
\* the processes die, its package is never held twice.
THEOREM GrantsOnce == Spec => []GrantedOnce
<1>1. Init => HeldIsClaimed
  <2>1. Init => held = [o \in Orders |-> 0]
    BY DEF Init
  <2> QED BY <2>1 DEF HeldIsClaimed
<1>2. HeldIsClaimed => GrantedOnce
  BY DEF HeldIsClaimed, GrantedOnce
<1> QED
  BY <1>1, <1>2, TypeInit, TypeStep, GrantStep, PTL DEF Spec

(***************************************************************************)
(* The number that a payout carries to the provider is the recorded one.   *)
(***************************************************************************)
NumbersInHand ==
    \A p \in Procs :
        /\ At(p, "intent") => num[p] # NoNumber
        /\ At(p, "call") => num[p] # NoNumber /\ num[p] = outNo[ord[p]]

\* A step after which nobody new stands at the two places of a payout.
NoPayoutMove ==
    \A q \in Procs : pc'[q] \in {"intent", "call"} =>
        pc'[q] = pc[q] /\ num'[q] = num[q] /\ ord'[q] = ord[q]

LEMMA NumbersKept ==
    ASSUME NumbersInHand, NoPayoutMove, UNCHANGED outNo PROVE NumbersInHand'
  BY DEF NumbersInHand, NoPayoutMove, At

LEMMA ElsewhereIsNoMove ==
    ASSUME TypeOK, NEW p \in Procs, NEW where \in Places \ {"intent", "call"},
           NEW o, NEW b, NEW n, NEW s, GoTo(p, where, o, b, n, s)
    PROVE  NoPayoutMove
  BY DEF TypeOK, GoTo, NoPayoutMove

LEMMA RecordStep ==
    TypeOK /\ NumbersInHand /\ OneRecordedNumber /\ [Next]_vars
        => NumbersInHand' /\ OneRecordedNumber'
<1> SUFFICES ASSUME TypeOK, NumbersInHand, OneRecordedNumber, [Next]_vars
             PROVE  NumbersInHand' /\ OneRecordedNumber'
  OBVIOUS
<1>0. /\ \A p \in Procs : ~At(p, "idle") => ord[p] \in Orders
      /\ outNo \in [Orders -> (Orders \X Nat) \cup {NoNumber}]
      /\ pc \in [Procs -> Places] /\ num \in [Procs -> (Orders \X Nat) \cup {NoNumber}]
      /\ ord \in [Procs -> Orders \cup {NoOrder}]
      /\ pspSeen \in [Orders -> SUBSET ((Orders \X Nat) \cup {NoNumber})]
      /\ \A p \in Handlers \cup Reconcilers : p \in Procs
  BY DEF TypeOK, Procs
<1>a. ASSUME UNCHANGED <<outNo, pspSeen>> PROVE OneRecordedNumber'
  BY <1>a DEF OneRecordedNumber
<1>1. ASSUME NEW p \in Handlers, NEW o \in Orders, QuoteOrder(p, o)
      PROVE  NumbersInHand' /\ OneRecordedNumber'
  <2>1. NoPayoutMove
    BY <1>1, <1>0, ElsewhereIsNoMove DEF QuoteOrder, Places
  <2> QED BY <1>1, <2>1, <1>a, NumbersKept DEF QuoteOrder, rows, provider
<1>2. ASSUME NEW p \in Procs,
             CreateOrder(p) \/ RefuseOrder(p) \/ GrantOrderEntitlement(p) \/ WriteStatus(p)
               \/ PayoutDbError(p) \/ Crash(p)
      PROVE  NumbersInHand' /\ OneRecordedNumber'
  <2>1. NoPayoutMove
    BY <1>2, ElsewhereIsNoMove
    DEF CreateOrder, RefuseOrder, GrantOrderEntitlement, WriteStatus, PayoutDbError, Crash,
        Return, Places
  <2>2. UNCHANGED <<outNo, pspSeen>>
    BY <1>2
    DEF CreateOrder, RefuseOrder, GrantOrderEntitlement, WriteStatus, PayoutDbError, Crash,
        rows, provider
  <2> QED BY <2>1, <2>2, <1>a, NumbersKept
<1>3. CASE SweepExpiredOrders \/ (\E o \in Orders : Pay(o) \/ PspSettles(o)) \/ UNCHANGED vars
  BY <1>3, <1>a DEF SweepExpiredOrders, Pay, PspSettles, vars, rows, provider, job,
                   NumbersInHand, At
<1>4. ASSUME NEW p \in Handlers, NEW o \in Orders, ConfirmPaid(p, o) \/ BeginRefund(p, o)
      PROVE  NumbersInHand' /\ OneRecordedNumber'
  <2>1. NoPayoutMove
    BY <1>4, <1>0, ElsewhereIsNoMove DEF ConfirmPaid, BeginRefund, FallsBackTo, Begin, Places
  <2>2. UNCHANGED <<outNo, pspSeen>>
    BY <1>4 DEF ConfirmPaid, BeginRefund, SetPaid, rows, provider
  <2> QED BY <2>1, <2>2, <1>a, NumbersKept
<1>5. ASSUME NEW p \in Procs,
             ReopenClosedOrderPaid(p) \/ CommitRefund(p) \/ ReconcileOneRefundResult(p)
      PROVE  NumbersInHand' /\ OneRecordedNumber'
  <2>1. NoPayoutMove
    BY <1>5, ElsewhereIsNoMove
    DEF ReopenClosedOrderPaid, CommitRefund, ReconcileOneRefundResult, Begin, Return, Places
  <2>2. UNCHANGED <<outNo, pspSeen>>
    BY <1>5
    DEF ReopenClosedOrderPaid, CommitRefund, ReconcileOneRefundResult, SetPaid, rows, provider
  <2> QED BY <2>1, <2>2, <1>a, NumbersKept
<1>6. ASSUME NEW p \in Procs, ReadOutNo(p) PROVE NumbersInHand' /\ OneRecordedNumber'
  <2>1. RefundNumber(ord[p]) # NoNumber
    <3>1. ord[p] \in Orders
      BY <1>0, <1>6 DEF ReadOutNo, At
    <3>2. <<ord[p], 0>> \in Orders \X Nat
      BY <3>1
    <3> QED BY <3>2, NoNumberIsNone DEF RefundNumber
  <2>2. UNCHANGED <<outNo, pspSeen>>
    BY <1>6 DEF ReadOutNo, rows, provider
  <2>3. NumbersInHand'
    <3>1. CASE outNo[ord[p]] = NoNumber
      BY <1>0, <1>6, <2>1, <2>2, <3>1 DEF ReadOutNo, GoTo, NumbersInHand, At
    <3>2. CASE outNo[ord[p]] # NoNumber
      <4>1. GoTo(p, "call", ord[p], NoOrder, outNo[ord[p]], "")
        BY <1>6, <3>2 DEF ReadOutNo
      <4> QED BY <1>0, <2>2, <3>2, <4>1 DEF GoTo, NumbersInHand, At
    <3> QED BY <3>1, <3>2
  <2> QED BY <2>2, <2>3, <1>a
<1>7. ASSUME NEW p \in Procs, WriteIntent(p) PROVE NumbersInHand' /\ OneRecordedNumber'
  <2>1. ord[p] \in Orders /\ num[p] # NoNumber /\ UNCHANGED pspSeen
    BY <1>0, <1>7 DEF WriteIntent, At, NumbersInHand, provider
  <2>2. CASE outNo[ord[p]] = NoNumber
    <3>1. outNo' = [outNo EXCEPT ![ord[p]] = num[p]]
          /\ GoTo(p, "call", ord[p], NoOrder, num[p], "")
      BY <1>7, <2>2 DEF WriteIntent
    <3>2. OneRecordedNumber'
      BY <1>0, <2>1, <2>2, <3>1 DEF OneRecordedNumber
    <3>3. NumbersInHand'
      BY <1>0, <2>1, <2>2, <3>1 DEF NumbersInHand, GoTo, At
    <3> QED BY <3>2, <3>3
  <2>3. CASE outNo[ord[p]] # NoNumber
    <3>1. UNCHANGED outNo /\ GoTo(p, "call", ord[p], NoOrder, outNo[ord[p]], "")
      BY <1>7, <2>3 DEF WriteIntent
    <3>2. NumbersInHand'
      BY <1>0, <2>1, <2>3, <3>1 DEF NumbersInHand, GoTo, At
    <3> QED BY <2>1, <3>1, <3>2, <1>a
  <2> QED BY <2>2, <2>3
<1>8. ASSUME NEW p \in Procs, CallAccepted(p) \/ CallFails(p)
      PROVE  NumbersInHand' /\ OneRecordedNumber'
  <2>1. /\ ord[p] \in Orders /\ num[p] # NoNumber /\ num[p] = outNo[ord[p]]
        /\ UNCHANGED outNo
        /\ Accepted(p) \/ UNCHANGED pspSeen
    BY <1>0, <1>8 DEF CallAccepted, CallFails, At, NumbersInHand, rows, provider
  <2>2. OneRecordedNumber'
    BY <1>0, <2>1 DEF Accepted, NumberSent, OneRecordedNumber
  <2>3. NoPayoutMove
    BY <1>8, ElsewhereIsNoMove DEF CallAccepted, CallFails, Places
  <2>4. NumbersInHand'
    BY <2>1, <2>3, NumbersKept
  <2> QED BY <2>2, <2>4
<1>9. ASSUME NEW p \in Reconcilers, NEW o \in Orders, NEW where \in {"grant", "read", "query"},
             Pick(p, o, where)
      PROVE  NumbersInHand' /\ OneRecordedNumber'
  <2>1. NoPayoutMove
    BY <1>9, <1>0, ElsewhereIsNoMove DEF Pick, Begin, Places
  <2> QED BY <1>9, <2>1, <1>a, NumbersKept DEF Pick, rows, provider
<1> QED
  BY <1>1, <1>2, <1>3, <1>4, <1>5, <1>6, <1>7, <1>8, <1>9
  DEF Next, Proceed, ConfirmSome, RegrantSome, RepaySome, QuerySome, RegrantMissing,
      RepayMissing, QueryAccepted

\* The provider never sees a number that is not in the row, so never two numbers
\* for one order, whoever pays out at the same time and wherever a payout stops.
THEOREM OneNumber == Spec => []OneRecordedNumber
<1>1. Init => NumbersInHand /\ OneRecordedNumber
  BY DEF Init, NumbersInHand, OneRecordedNumber, At
<1> QED
  BY <1>1, TypeInit, TypeStep, RecordStep, PTL DEF Spec

(***************************************************************************)
(* The books say of a refund what the provider has said: so does every     *)
(* process that is about to write them, however late it writes.            *)
(***************************************************************************)
Known(s, o) ==
    /\ s = "psp_success" => pspOut[o] = "success"
    /\ s = "psp_failed" => pspOut[o] = "failed"
    /\ s = "psp_ok" => pspSeen[o] # {}

WritesKnown == \A p \in Procs : At(p, "write") => Known(st[p], ord[p])

\* A step after which nobody new is about to write.
NoWriteMove ==
    \A q \in Procs : pc'[q] = "write" => pc[q] = "write" /\ st'[q] = st[q] /\ ord'[q] = ord[q]

LEMMA AwayIsNoWrite ==
    ASSUME TypeOK, NEW p \in Procs, NEW where \in Places \ {"write"},
           NEW o, NEW b, NEW n, NEW s, GoTo(p, where, o, b, n, s)
    PROVE  NoWriteMove
  BY DEF TypeOK, GoTo, NoWriteMove

\* What the provider has said it does not take back.
LEMMA KnownStays ==
    ASSUME TypeOK, NEW o \in Orders, NEW s, Known(s, o),
           UNCHANGED provider \/ (\E p \in Procs : ord[p] \in Orders /\ Accepted(p))
             \/ \E q \in Orders : PspSettles(q)
    PROVE  Known(s, o)'
<1>1. CASE UNCHANGED provider
  BY <1>1 DEF Known, provider
<1>2. ASSUME NEW p \in Procs, ord[p] \in Orders, Accepted(p) PROVE Known(s, o)'
  <2>1. pspOut[o] # "none" => pspOut'[o] = pspOut[o]
    BY <1>2 DEF Accepted, TypeOK
  <2>2. pspSeen[o] \subseteq pspSeen'[o]
    BY <1>2 DEF Accepted, TypeOK
  <2>. QED
    BY <2>1, <2>2 DEF Known
<1>3. ASSUME NEW q \in Orders, PspSettles(q) PROVE Known(s, o)'
  BY <1>3 DEF PspSettles, Known, TypeOK
<1>. QED
  BY <1>1, <1>2, <1>3

LEMMA WritesKept ==
    ASSUME TypeOK, WritesKnown, NoWriteMove,
           \A o \in Orders, s \in PspStatus : Known(s, o) => Known(s, o)'
    PROVE  WritesKnown'
<1>1. \A p \in Procs : At(p, "write") => ord[p] \in Orders /\ st[p] \in PspStatus
  BY DEF TypeOK, At
<1>. QED
  BY <1>1 DEF WritesKnown, NoWriteMove, At, Known

LEMMA KnownStep ==
    TypeOK /\ WritesKnown /\ SettledAsProviderSaid /\ [Next]_vars
        => WritesKnown' /\ SettledAsProviderSaid'
<1> SUFFICES ASSUME TypeOK, WritesKnown, SettledAsProviderSaid, [Next]_vars
             PROVE  WritesKnown' /\ SettledAsProviderSaid'
  OBVIOUS
<1>0. /\ \A p \in Procs : ~At(p, "idle") => ord[p] \in Orders
      /\ psp \in [Orders -> PspStatus] /\ pc \in [Procs -> Places]
      /\ st \in [Procs -> PspStatus] /\ ord \in [Procs -> Orders \cup {NoOrder}]
      /\ pspSeen \in [Orders -> SUBSET ((Orders \X Nat) \cup {NoNumber})]
      /\ pspOut \in [Orders -> {"none", "processing", "success", "failed"}]
      /\ \A p \in Handlers \cup Reconcilers : p \in Procs
  BY DEF TypeOK, Procs
<1>p. \A o \in Orders : Known(psp[o], o)
  BY DEF SettledAsProviderSaid, Known
<1>a. ASSUME UNCHANGED <<psp, provider>>, NoWriteMove
      PROVE  WritesKnown' /\ SettledAsProviderSaid'
  <2>1. \A o \in Orders, s \in PspStatus : Known(s, o) => Known(s, o)'
    BY <1>a, KnownStays
  <2>. QED
    BY <1>a, <2>1, WritesKept DEF SettledAsProviderSaid, provider
<1>1. ASSUME NEW p \in Handlers, NEW o \in Orders, QuoteOrder(p, o)
      PROVE  WritesKnown' /\ SettledAsProviderSaid'
  <2>1. NoWriteMove
    BY <1>1, <1>0, AwayIsNoWrite DEF QuoteOrder, Places
  <2>. QED
    BY <1>1, <2>1, <1>a DEF QuoteOrder, rows
<1>2. ASSUME NEW p \in Procs,
             CreateOrder(p) \/ RefuseOrder(p) \/ GrantOrderEntitlement(p)
               \/ PayoutDbError(p) \/ Crash(p) \/ ReopenClosedOrderPaid(p) \/ CommitRefund(p)
               \/ ReadOutNo(p)
      PROVE  WritesKnown' /\ SettledAsProviderSaid'
  <2>1. NoWriteMove
    BY <1>2, AwayIsNoWrite
    DEF CreateOrder, RefuseOrder, GrantOrderEntitlement, PayoutDbError, Crash,
        ReopenClosedOrderPaid, CommitRefund, ReadOutNo, Begin, Return, Places
  <2>2. UNCHANGED <<psp, provider>>
    BY <1>2
    DEF CreateOrder, RefuseOrder, GrantOrderEntitlement, PayoutDbError, Crash,
        ReopenClosedOrderPaid, CommitRefund, ReadOutNo, SetPaid, rows
  <2>. QED
    BY <2>1, <2>2, <1>a
<1>3. CASE SweepExpiredOrders \/ (\E o \in Orders : Pay(o)) \/ UNCHANGED vars
  <2>1. NoWriteMove
    BY <1>3 DEF SweepExpiredOrders, Pay, vars, job, NoWriteMove
  <2>2. UNCHANGED <<psp, provider>>
    BY <1>3 DEF SweepExpiredOrders, Pay, vars, rows
  <2>. QED
    BY <2>1, <2>2, <1>a
<1>4. ASSUME NEW p \in Handlers, NEW o \in Orders, ConfirmPaid(p, o) \/ BeginRefund(p, o)
      PROVE  WritesKnown' /\ SettledAsProviderSaid'
  <2>1. NoWriteMove
    BY <1>4, <1>0, AwayIsNoWrite DEF ConfirmPaid, BeginRefund, Begin, Places
  <2>2. UNCHANGED <<psp, provider>>
    BY <1>4 DEF ConfirmPaid, BeginRefund, SetPaid, rows
  <2>. QED
    BY <2>1, <2>2, <1>a
<1>5. ASSUME NEW p \in Procs, WriteIntent(p) PROVE WritesKnown' /\ SettledAsProviderSaid'
  <2>1. NoWriteMove
    BY <1>5, AwayIsNoWrite DEF WriteIntent, Places
  <2>2. /\ UNCHANGED provider
        /\ \A o \in Orders : psp'[o] = psp[o] \/ psp'[o] = "psp_pending"
    BY <1>0, <1>5 DEF WriteIntent
  <2>3. \A o \in Orders, s \in PspStatus : Known(s, o) => Known(s, o)'
    BY <2>2, KnownStays
  <2>. QED
    BY <2>1, <2>2, <2>3, WritesKept DEF SettledAsProviderSaid, provider
<1>6. ASSUME NEW p \in Procs, CallAccepted(p) \/ CallFails(p)
      PROVE  WritesKnown' /\ SettledAsProviderSaid'
  <2>1. ord[p] \in Orders /\ UNCHANGED psp /\ (Accepted(p) \/ UNCHANGED provider)
    BY <1>0, <1>6 DEF CallAccepted, CallFails, At, rows
  <2>2. \A o \in Orders, s \in PspStatus : Known(s, o) => Known(s, o)'
    BY <2>1, KnownStays
  <2>3. PICK s \in {"psp_ok", "psp_pending"} :
           /\ GoTo(p, "write", ord[p], NoOrder, NoNumber, s)
           /\ s = "psp_ok" => Accepted(p)
    BY <1>6 DEF CallAccepted, CallFails
  <2>4. Known(s, ord[p])'
    <3>1. s = "psp_ok" => pspSeen'[ord[p]] # {}
      BY <1>0, <2>1, <2>3 DEF Accepted
    <3>2. ord'[p] = ord[p]
      BY <1>0, <2>3 DEF GoTo
    <3>. QED
      BY <2>3, <3>1, <3>2 DEF Known
  <2>5. /\ \A q \in Procs \ {p} : pc'[q] = pc[q] /\ st'[q] = st[q] /\ ord'[q] = ord[q]
        /\ st'[p] = s /\ ord'[p] = ord[p]
    BY <1>0, <2>3 DEF GoTo
  <2>6. \A q \in Procs : At(q, "write") => ord[q] \in Orders /\ st[q] \in PspStatus
    BY <1>0 DEF At
  <2>7. WritesKnown'
    BY <2>2, <2>4, <2>5, <2>6 DEF WritesKnown, At, Known
  <2>8. \A o \in Orders : Known(psp[o], o)'
    BY <1>0, <1>p, <2>1, <2>2 DEF Known
  <2>. QED
    BY <2>7, <2>8 DEF SettledAsProviderSaid, Known
<1>7. ASSUME NEW p \in Procs, WriteStatus(p) PROVE WritesKnown' /\ SettledAsProviderSaid'
  <2>1. NoWriteMove
    BY <1>7, AwayIsNoWrite DEF WriteStatus, Return, Places
  <2>2. /\ UNCHANGED provider /\ ord[p] \in Orders /\ psp' = [psp EXCEPT ![ord[p]] = st[p]]
        /\ Known(st[p], ord[p])
    BY <1>0, <1>7 DEF WriteStatus, WritesKnown, At
  <2>3. \A o \in Orders, s \in PspStatus : Known(s, o) => Known(s, o)'
    BY <2>2, KnownStays
  <2>4. WritesKnown'
    BY <2>1, <2>3, WritesKept
  <2>5. \A o \in Orders : Known(psp[o], o)'
    BY <1>0, <1>p, <2>2 DEF Known, provider
  <2>. QED
    BY <2>4, <2>5 DEF SettledAsProviderSaid, Known
<1>8. ASSUME NEW q \in Orders, PspSettles(q) PROVE WritesKnown' /\ SettledAsProviderSaid'
  <2>1. NoWriteMove /\ UNCHANGED psp
    BY <1>8 DEF PspSettles, job, rows, NoWriteMove
  <2>2. \A o \in Orders, s \in PspStatus : Known(s, o) => Known(s, o)'
    BY <1>8, KnownStays
  <2>3. \A o \in Orders : Known(psp[o], o)'
    BY <1>0, <1>p, <2>1, <2>2 DEF Known
  <2>. QED
    BY <2>1, <2>2, <2>3, WritesKept DEF SettledAsProviderSaid, Known
<1>9. ASSUME NEW p \in Procs, ReconcileOneRefundResult(p)
      PROVE  WritesKnown' /\ SettledAsProviderSaid'
  <2>1. ord[p] \in Orders /\ UNCHANGED <<psp, provider>>
    BY <1>0, <1>9 DEF ReconcileOneRefundResult, At, rows
  <2>2. CASE Verdict(pspOut[ord[p]]) = ""
    <3>1. NoWriteMove
      BY <1>9, <2>2, AwayIsNoWrite DEF ReconcileOneRefundResult, Return, Places
    <3>. QED
      BY <2>1, <3>1, <1>a
  <2>3. CASE Verdict(pspOut[ord[p]]) # ""
    <3>1. GoTo(p, "write", ord[p], NoOrder, NoNumber, Verdict(pspOut[ord[p]]))
      BY <1>9, <2>3 DEF ReconcileOneRefundResult
    <3>2. Known(Verdict(pspOut[ord[p]]), ord[p])
      BY <2>3 DEF Known, Verdict
    <3>3. /\ \A q \in Procs \ {p} : pc'[q] = pc[q] /\ st'[q] = st[q] /\ ord'[q] = ord[q]
          /\ st'[p] = Verdict(pspOut[ord[p]]) /\ ord'[p] = ord[p]
      BY <1>0, <3>1 DEF GoTo
    <3>4. WritesKnown'
      BY <2>1, <3>2, <3>3 DEF WritesKnown, At, Known, provider
    <3>. QED
      BY <2>1, <3>4 DEF SettledAsProviderSaid, provider
  <2>. QED
    BY <2>2, <2>3
<1>10. ASSUME NEW p \in Reconcilers, NEW o \in Orders, NEW where \in {"grant", "read", "query"},
              Pick(p, o, where)
       PROVE  WritesKnown' /\ SettledAsProviderSaid'
  <2>1. NoWriteMove
    BY <1>10, <1>0, AwayIsNoWrite DEF Pick, Begin, Places
  <2>. QED
    BY <1>10, <2>1, <1>a DEF Pick, rows
<1> QED
  BY <1>1, <1>2, <1>3, <1>4, <1>5, <1>6, <1>7, <1>8, <1>9, <1>10
  DEF Next, Proceed, ConfirmSome, RegrantSome, RepaySome, QuerySome, RegrantMissing,
      RepayMissing, QueryAccepted

\* However calls fail, overlap and are repeated, the books call a refund settled or
\* failed only when the provider has, and accepted only when the provider took it
\* (billing_refund.go:292).
THEOREM BooksFollowTheProvider == Spec => []SettledAsProviderSaid
<1>1. Init => WritesKnown /\ SettledAsProviderSaid
  BY DEF Init, WritesKnown, SettledAsProviderSaid, At
<1> QED
  BY <1>1, TypeInit, TypeStep, KnownStep, PTL DEF Spec

(***************************************************************************)
(* Upgrades and refunds.  Two processes never create the same order, at    *)
(* most one refund is open, its order stays paid until the commit, and no  *)
(* upgrade waits on a base whose refund is open.                           *)
(***************************************************************************)
CreatesApart ==
    /\ \A p \in Procs : At(p, "create") => status[ord[p]] = "none"
    /\ \A p, q \in Procs : At(p, "create") /\ At(q, "create") /\ ord[p] = ord[q] => p = q

RefundsApart ==
    /\ \A p \in Procs : At(p, "refund") => status[ord[p]] = "paid"
    /\ \A p, q \in Procs : At(p, "refund") /\ At(q, "refund") => p = q

\* What an open refund may rely on about the upgrades of its order.
RefundsUnused ==
    \A p \in Procs, u \in Orders :
        At(p, "refund") /\ base[u] = ord[p] =>
            /\ status[u] # "pending"
            /\ status[u] = "paid" => u \in late

UpgradeInv ==
    /\ CreatesApart /\ RefundsApart /\ RefundsUnused
    /\ PendingUpgradeOwnsItsBase /\ LostBaseIsMarked

\* A step after which nobody new creates, refunds or reopens.
NoOrderMove ==
    \A q \in Procs : pc'[q] \in {"create", "refund", "reopen"} => pc'[q] = pc[q] /\ ord'[q] = ord[q]

LEMMA UpgradeKept ==
    ASSUME UpgradeInv, NoOrderMove, UNCHANGED <<status, base, late>>,
           \A p \in Procs : ~At(p, "idle") => ord[p] \in Orders
    PROVE  UpgradeInv'
<1>1. CreatesApart' /\ RefundsApart'
  BY DEF UpgradeInv, NoOrderMove, CreatesApart, RefundsApart, At
<1>2. RefundsUnused'
  BY DEF UpgradeInv, NoOrderMove, RefundsUnused, At
<1>3. PendingUpgradeOwnsItsBase' /\ LostBaseIsMarked'
  BY DEF UpgradeInv, PendingUpgradeOwnsItsBase, LostBaseIsMarked
<1> QED BY <1>1, <1>2, <1>3 DEF UpgradeInv

LEMMA GoToIsNoOrderMove ==
    ASSUME TypeOK, NEW p \in Procs, NEW where \in Places \ {"create", "refund", "reopen"},
           NEW o, NEW b, NEW n, NEW s, GoTo(p, where, o, b, n, s)
    PROVE  NoOrderMove
  BY DEF TypeOK, GoTo, NoOrderMove

LEMMA UpgradeStep == TypeOK /\ UpgradeInv /\ [Next]_vars => UpgradeInv'
<1> SUFFICES ASSUME TypeOK, UpgradeInv, [Next]_vars PROVE UpgradeInv'
  OBVIOUS
<1>0. /\ \A p \in Procs : ~At(p, "idle") => ord[p] \in Orders
      /\ status \in [Orders -> {"none", "pending", "paid", "closed", "refunded"}]
      /\ base \in [Orders -> Orders \cup {NoOrder}]
      /\ pc \in [Procs -> Places] /\ ord \in [Procs -> Orders \cup {NoOrder}]
      /\ plan \in [Procs -> Orders \cup {NoOrder}]
      /\ \A p \in Handlers \cup Reconcilers : p \in Procs
  BY DEF TypeOK, Procs
<1> USE <1>0
<1>1. ASSUME NEW p \in Handlers, NEW o \in Orders, QuoteOrder(p, o) PROVE UpgradeInv'
  <2>1. PICK b \in Orders \cup {NoOrder} : GoTo(p, "create", o, b, NoNumber, "")
    BY <1>1 DEF QuoteOrder
  <2>2. UNCHANGED <<status, base, late>> /\ p \in Procs /\ status[o] = "none"
        /\ \A q \in Procs : ~(At(q, "create") /\ ord[q] = o)
    BY <1>1 DEF QuoteOrder, rows
  <2>3. \A q \in Procs : IF q = p THEN pc'[q] = "create" /\ ord'[q] = o
                         ELSE pc'[q] = pc[q] /\ ord'[q] = ord[q]
    BY <2>1, <2>2 DEF GoTo
  <2>4. CreatesApart'
    BY <2>2, <2>3 DEF UpgradeInv, CreatesApart, At
  <2>5. RefundsApart' /\ RefundsUnused'
    BY <2>2, <2>3 DEF UpgradeInv, RefundsApart, RefundsUnused, At
  <2>6. PendingUpgradeOwnsItsBase' /\ LostBaseIsMarked'
    BY <2>2 DEF UpgradeInv, PendingUpgradeOwnsItsBase, LostBaseIsMarked
  <2> QED BY <2>4, <2>5, <2>6 DEF UpgradeInv
<1>2. ASSUME NEW p \in Procs, CreateOrder(p) PROVE UpgradeInv'
  <2> DEFINE o == ord[p]
             b == plan[p]
  <2>1. /\ o \in Orders /\ status[o] = "none" /\ At(p, "create")
        /\ status' = [status EXCEPT ![o] = "pending"] /\ base' = [base EXCEPT ![o] = b]
        /\ b # NoOrder => ~RowLocked(b) /\ BaseStillGood(b)
        /\ UNCHANGED <<late, money>> /\ Return(p)
    BY <1>2 DEF CreateOrder, At, UpgradeInv, CreatesApart
  <2>2. \A q \in Procs : IF q = p THEN pc'[q] = "idle"
                         ELSE pc'[q] = pc[q] /\ ord'[q] = ord[q]
    BY <2>1 DEF Return, GoTo
  <2>3. CreatesApart'
    BY <2>1, <2>2 DEF UpgradeInv, CreatesApart, At
  <2>4. RefundsApart'
    BY <2>1, <2>2 DEF UpgradeInv, RefundsApart, At
  <2>5. RefundsUnused'
    <3>1. ASSUME NEW q \in Procs, NEW u \in Orders, pc'[q] = "refund", base'[u] = ord'[q]
          PROVE  status'[u] # "pending" /\ (status'[u] = "paid" => u \in late')
      <4>1. q # p /\ At(q, "refund") /\ ord'[q] = ord[q] /\ ord[q] \in Orders
        BY <2>2, <3>1 DEF At
      <4>2. CASE u = o
        BY <2>1, <3>1, <4>1, <4>2, NoOrderIsNone DEF RowLocked
      <4>3. CASE u # o
        BY <2>1, <3>1, <4>1, <4>3 DEF UpgradeInv, RefundsUnused
      <4> QED BY <4>2, <4>3
    <3> QED BY <3>1 DEF RefundsUnused, At
  <2>6. PendingUpgradeOwnsItsBase'
    <3>1. \A u \in Orders : status[u] = "pending" => base[u] # o
      BY <2>1, NoOrderIsNone DEF UpgradeInv, PendingUpgradeOwnsItsBase
    <3>2. b # o
      BY <2>1, NoOrderIsNone DEF BaseStillGood
    <3>3. ASSUME NEW u \in Orders, status'[u] = "pending", base'[u] # NoOrder
          PROVE  /\ status'[base'[u]] = "paid"
                 /\ \A v \in Orders \ {u} : status'[v] = "pending" => base'[v] # base'[u]
      <4>1. CASE u = o
        BY <2>1, <3>2, <3>3, <4>1 DEF BaseStillGood
      <4>2. CASE u # o
        BY <2>1, <3>1, <3>3, <4>2 DEF UpgradeInv, PendingUpgradeOwnsItsBase, BaseStillGood
      <4> QED BY <4>1, <4>2
    <3> QED BY <3>3 DEF PendingUpgradeOwnsItsBase
  <2>7. LostBaseIsMarked'
    BY <2>1 DEF UpgradeInv, LostBaseIsMarked
  <2> QED BY <2>3, <2>4, <2>5, <2>6, <2>7 DEF UpgradeInv
<1>3. CASE SweepExpiredOrders
  <2>1. /\ UNCHANGED <<base, late, pc, ord>>
        /\ status' \in [Orders -> {"none", "pending", "paid", "closed", "refunded"}]
        /\ \A o \in Orders : status'[o] = status[o] \/ (status[o] = "pending" /\ status'[o] = "closed")
    BY <1>3 DEF SweepExpiredOrders, job
  <2>2. CreatesApart' /\ RefundsApart' /\ RefundsUnused'
    BY <2>1 DEF UpgradeInv, CreatesApart, RefundsApart, RefundsUnused, At
  <2>3. PendingUpgradeOwnsItsBase' /\ LostBaseIsMarked'
    BY <2>1 DEF UpgradeInv, PendingUpgradeOwnsItsBase, LostBaseIsMarked
  <2> QED BY <2>2, <2>3 DEF UpgradeInv
<1>4. ASSUME NEW p \in Handlers, NEW o \in Orders, ConfirmPaid(p, o) PROVE UpgradeInv'
  <2>1. p \in Procs /\ UNCHANGED <<base, late>>
        /\ status[o] # "none"
    BY <1>4 DEF ConfirmPaid, SetPaid, rows
  <2>2. CASE status[o] = "pending"
    <3>1. status' = [status EXCEPT ![o] = "paid"] /\ Begin(p, "grant", o)
      BY <1>4, <2>2 DEF ConfirmPaid, SetPaid
    <3>2. \A q \in Procs : IF q = p THEN pc'[q] = "grant"
                           ELSE pc'[q] = pc[q] /\ ord'[q] = ord[q]
      BY <2>1, <3>1 DEF Begin, GoTo
    <3>3. CreatesApart' /\ RefundsApart'
      BY <2>1, <2>2, <3>1, <3>2 DEF UpgradeInv, CreatesApart, RefundsApart, At
    <3>4. RefundsUnused'
      BY <2>1, <2>2, <3>1, <3>2 DEF UpgradeInv, RefundsUnused, At
    <3>5. PendingUpgradeOwnsItsBase' /\ LostBaseIsMarked'
      BY <2>1, <2>2, <3>1 DEF UpgradeInv, PendingUpgradeOwnsItsBase, LostBaseIsMarked
    <3> QED BY <3>3, <3>4, <3>5 DEF UpgradeInv
  <2>3. CASE status[o] # "pending"
    <3>1. UNCHANGED status /\ Begin(p, "reopen", o)
      BY <1>4, <2>3 DEF ConfirmPaid, rows
    <3>2. \A q \in Procs : IF q = p THEN pc'[q] = "reopen" /\ ord'[q] = o
                           ELSE pc'[q] = pc[q] /\ ord'[q] = ord[q]
      BY <2>1, <3>1 DEF Begin, GoTo
    <3>3. CreatesApart' /\ RefundsApart' /\ RefundsUnused'
      BY <2>1, <3>1, <3>2
      DEF UpgradeInv, CreatesApart, RefundsApart, RefundsUnused, At
    <3>4. PendingUpgradeOwnsItsBase' /\ LostBaseIsMarked'
      BY <2>1, <3>1 DEF UpgradeInv, PendingUpgradeOwnsItsBase, LostBaseIsMarked
    <3> QED BY <3>3, <3>4 DEF UpgradeInv
  <2> QED BY <2>2, <2>3
<1>5. ASSUME NEW p \in Procs, ReopenClosedOrderPaid(p) PROVE UpgradeInv'
  <2>1. ord[p] \in Orders /\ UNCHANGED base
    BY <1>5 DEF ReopenClosedOrderPaid, At, SetPaid, rows
  <2>2. CASE MayReopen(ord[p])
    <3>1. /\ status[ord[p]] = "closed" /\ status' = [status EXCEPT ![ord[p]] = "paid"]
          /\ late' = late \cup {ord[p]} /\ Begin(p, "grant", ord[p])
      BY <1>5, <2>2 DEF ReopenClosedOrderPaid, SetPaid, MayReopen
    <3>2. \A q \in Procs : IF q = p THEN pc'[q] = "grant"
                           ELSE pc'[q] = pc[q] /\ ord'[q] = ord[q]
      BY <3>1 DEF Begin, GoTo
    <3>3. CreatesApart' /\ RefundsApart'
      BY <2>1, <3>1, <3>2 DEF UpgradeInv, CreatesApart, RefundsApart, At
    <3>4. RefundsUnused'
      BY <2>1, <3>1, <3>2 DEF UpgradeInv, RefundsUnused, At
    <3>5. PendingUpgradeOwnsItsBase' /\ LostBaseIsMarked'
      BY <2>1, <3>1 DEF UpgradeInv, PendingUpgradeOwnsItsBase, LostBaseIsMarked
    <3> QED BY <3>3, <3>4, <3>5 DEF UpgradeInv
  <2>3. CASE ~MayReopen(ord[p])
    <3>1. UNCHANGED <<status, late>> /\ Return(p)
      BY <1>5, <2>3 DEF ReopenClosedOrderPaid, rows
    <3>2. NoOrderMove
      BY <3>1, GoToIsNoOrderMove DEF Return, Places
    <3> QED BY <2>1, <3>1, <3>2, UpgradeKept
  <2> QED BY <2>2, <2>3
<1>6. ASSUME NEW p \in Handlers, NEW o \in Orders, BeginRefund(p, o) PROVE UpgradeInv'
  <2>1. /\ UNCHANGED <<status, base, late>> /\ p \in Procs
        /\ ~TenantLocked /\ status[o] = "paid" /\ ~UsedAsBase(o)
    BY <1>6 DEF BeginRefund, rows
  <2>0. PICK left \in FallsBackTo(o) : GoTo(p, "refund", o, left, NoNumber, "")
    BY <1>6 DEF BeginRefund
  <2>2. \A q \in Procs : IF q = p THEN pc'[q] = "refund" /\ ord'[q] = o
                         ELSE pc'[q] = pc[q] /\ ord'[q] = ord[q]
    BY <2>0, <2>1 DEF GoTo
  <2>3. CreatesApart'
    BY <2>1, <2>2 DEF UpgradeInv, CreatesApart, At
  <2>4. RefundsApart'
    BY <2>1, <2>2 DEF UpgradeInv, RefundsApart, TenantLocked, At
  <2>5. RefundsUnused'
    BY <2>1, <2>2 DEF UpgradeInv, RefundsUnused, UsedAsBase, At
  <2>6. PendingUpgradeOwnsItsBase' /\ LostBaseIsMarked'
    BY <2>1 DEF UpgradeInv, PendingUpgradeOwnsItsBase, LostBaseIsMarked
  <2> QED BY <2>3, <2>4, <2>5, <2>6 DEF UpgradeInv
<1>7. ASSUME NEW p \in Procs, CommitRefund(p) PROVE UpgradeInv'
  <2>1. /\ ord[p] \in Orders /\ At(p, "refund") /\ status[ord[p]] = "paid"
        /\ status' = [status EXCEPT ![ord[p]] = "refunded"]
        /\ UNCHANGED <<base, late>>
        /\ Begin(p, "read", ord[p]) \/ Return(p)
    BY <1>7 DEF CommitRefund, At, UpgradeInv, RefundsApart
  <2>2. \A q \in Procs : IF q = p THEN pc'[q] \in {"read", "idle"}
                         ELSE pc'[q] = pc[q] /\ ord'[q] = ord[q]
    BY <2>1 DEF Begin, Return, GoTo
  <2>3. CreatesApart'
    BY <2>1, <2>2 DEF UpgradeInv, CreatesApart, At
  <2>4. RefundsApart' /\ RefundsUnused'
    BY <2>1, <2>2 DEF UpgradeInv, RefundsApart, RefundsUnused, At
  <2>5. PendingUpgradeOwnsItsBase'
    BY <2>1 DEF UpgradeInv, PendingUpgradeOwnsItsBase, RefundsUnused
  <2>6. LostBaseIsMarked'
    BY <2>1 DEF UpgradeInv, LostBaseIsMarked, RefundsUnused
  <2> QED BY <2>3, <2>4, <2>5, <2>6 DEF UpgradeInv
<1>8. ASSUME NEW p \in Procs,
             \/ RefuseOrder(p) \/ GrantOrderEntitlement(p) \/ ReadOutNo(p) \/ WriteIntent(p)
             \/ CallAccepted(p) \/ CallFails(p) \/ WriteStatus(p) \/ PayoutDbError(p)
             \/ ReconcileOneRefundResult(p) \/ Crash(p)
      PROVE  UpgradeInv'
  <2>1. UNCHANGED <<status, base, late>>
    BY <1>8 DEF RefuseOrder, GrantOrderEntitlement, ReadOutNo, WriteIntent, CallAccepted,
                CallFails, WriteStatus, PayoutDbError, ReconcileOneRefundResult, Crash, rows
  <2>2. NoOrderMove
    BY <1>8, GoToIsNoOrderMove
    DEF RefuseOrder, GrantOrderEntitlement, ReadOutNo, WriteIntent, CallAccepted,
        CallFails, WriteStatus, PayoutDbError, ReconcileOneRefundResult, Crash, Return, Places
  <2> QED BY <2>1, <2>2, UpgradeKept
<1>9. ASSUME NEW p \in Reconcilers, NEW o \in Orders, NEW where \in {"grant", "read", "query"},
             Pick(p, o, where)
      PROVE  UpgradeInv'
  <2>1. NoOrderMove
    BY <1>9, GoToIsNoOrderMove DEF Pick, Begin, Places
  <2> QED BY <1>9, <2>1, UpgradeKept DEF Pick, rows
<1>10. ASSUME \/ \E o \in Orders : Pay(o) \/ PspSettles(o)
              \/ UNCHANGED vars
       PROVE  UpgradeInv'
  <2>1. UNCHANGED <<status, base, late, pc, ord>>
    BY <1>10 DEF Pay, PspSettles, vars, rows, job
  <2>2. NoOrderMove
    BY <2>1 DEF NoOrderMove
  <2> QED BY <2>1, <2>2, UpgradeKept
<1> QED
  BY <1>1, <1>2, <1>3, <1>4, <1>5, <1>6, <1>7, <1>8, <1>9, <1>10
  DEF Next, Proceed, ConfirmSome, RegrantSome, RepaySome, QuerySome, RegrantMissing,
      RepayMissing, QueryAccepted

LEMMA UpgradeInit == Init => UpgradeInv
<1> SUFFICES ASSUME Init PROVE UpgradeInv
  OBVIOUS
<1>1. /\ status = [o \in Orders |-> "none"] /\ base = [o \in Orders |-> NoOrder]
      /\ pc = [p \in Procs |-> "idle"]
  BY DEF Init
<1> QED
  BY <1>1 DEF UpgradeInv, CreatesApart, RefundsApart, RefundsUnused,
              PendingUpgradeOwnsItsBase, LostBaseIsMarked, At

\* While an upgrade waits for its money, its base is paid and not set off twice,
\* whatever quotes, sweeps, confirmations and refunds run at the same time.
THEOREM UpgradeOwnsBase == Spec => []PendingUpgradeOwnsItsBase
<1>1. UpgradeInv => PendingUpgradeOwnsItsBase
  BY DEF UpgradeInv
<1> QED
  BY <1>1, TypeInit, TypeStep, UpgradeInit, UpgradeStep, PTL DEF Spec

\* A paid upgrade whose base was refunded came back from a closed order, and says so.
THEOREM LostBaseMarked == Spec => []LostBaseIsMarked
<1>1. UpgradeInv => LostBaseIsMarked
  BY DEF UpgradeInv
<1> QED
  BY <1>1, TypeInit, TypeStep, UpgradeInit, UpgradeStep, PTL DEF Spec

\* A refunded order stays refunded: only a closed one is revived.
LEMMA FinalStep ==
    TypeOK /\ UpgradeInv /\ [Next]_vars =>
        \A o \in Orders : status[o] = "refunded" => status'[o] = "refunded"
<1> SUFFICES ASSUME TypeOK, UpgradeInv, [Next]_vars, NEW o \in Orders
             PROVE  status[o] = "refunded" => status'[o] = "refunded"
  OBVIOUS
<1>0. /\ \A p \in Procs : ~At(p, "idle") => ord[p] \in Orders
      /\ status \in [Orders -> {"none", "pending", "paid", "closed", "refunded"}]
  BY DEF TypeOK
<1>1. ASSUME NEW p \in Procs, CreateOrder(p) PROVE status'[o] = status[o] \/ status[o] = "none"
  BY <1>0, <1>1 DEF CreateOrder, UpgradeInv, CreatesApart, At
<1>2. CASE SweepExpiredOrders
  BY <1>0, <1>2 DEF SweepExpiredOrders
<1>3. ASSUME NEW p \in Handlers, NEW q \in Orders, ConfirmPaid(p, q)
      PROVE  status'[o] = status[o] \/ status[o] = "pending"
  BY <1>0, <1>3 DEF ConfirmPaid, SetPaid, rows
<1>4. ASSUME NEW p \in Procs, ReopenClosedOrderPaid(p)
      PROVE  status'[o] = status[o] \/ status[o] = "closed"
  <2>1. At(p, "reopen") /\ ord[p] \in Orders
    BY <1>0, <1>4 DEF ReopenClosedOrderPaid, At
  <2>2. CASE MayReopen(ord[p])
    <3>1. /\ status' = [status EXCEPT ![ord[p]] = "paid"] /\ status[ord[p]] = "closed"
      BY <1>4, <2>1, <2>2
      DEF ReopenClosedOrderPaid, SetPaid, MayReopen, UpgradeInv
    <3> QED BY <1>0, <2>1, <3>1
  <2>3. CASE ~MayReopen(ord[p])
    BY <1>4, <2>3 DEF ReopenClosedOrderPaid, rows
  <2> QED BY <2>2, <2>3
<1>5. ASSUME NEW p \in Procs, CommitRefund(p)
      PROVE  status'[o] = status[o] \/ (status[o] = "paid" /\ status'[o] = "refunded")
  BY <1>0, <1>5 DEF CommitRefund, UpgradeInv, RefundsApart, At
<1>6. \/ \E p \in Procs : CreateOrder(p) \/ ReopenClosedOrderPaid(p) \/ CommitRefund(p)
      \/ SweepExpiredOrders
      \/ \E p \in Handlers, q \in Orders : ConfirmPaid(p, q)
      \/ UNCHANGED status
  BY DEF Next, Proceed, ConfirmSome, RegrantSome, RepaySome, QuerySome, RegrantMissing,
         RepayMissing, QueryAccepted, Pick, QuoteOrder, RefuseOrder, Pay, BeginRefund,
         GrantOrderEntitlement, ReadOutNo, WriteIntent, CallAccepted, CallFails,
         WriteStatus, PayoutDbError, PspSettles, ReconcileOneRefundResult, Crash, vars, rows
<1> QED
  BY <1>1, <1>2, <1>3, <1>4, <1>5, <1>6

\* No webhook, confirmation or sweep brings a refunded order back.
THEOREM RefundStays == Spec => RefundIsFinal
<1>1. TypeOK /\ UpgradeInv /\ [Next]_vars =>
        [\A o \in Orders : status[o] = "refunded" => status'[o] = "refunded"]_vars
  BY FinalStep
<1> QED
  BY <1>1, TypeInit, TypeStep, UpgradeInit, UpgradeStep, PTL DEF Spec, RefundIsFinal
============================================================================
