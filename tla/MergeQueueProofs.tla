-------------------------- MODULE MergeQueueProofs --------------------------
(***************************************************************************)
(* Theorems about MergeQueue, for every set of messages and every batch    *)
(* limit.  The first four hold under every setting of the switches: silent *)
(* releases, stalled holders, shutdown and lost races for the mutex        *)
(* included.  The others say in their hypotheses which of these the code   *)
(* has to be spared, because it does otherwise there by design.            *)
(***************************************************************************)
EXTENDS MergeQueue, FiniteSetTheorems, SequenceTheorems, TLAPS

USE DEF NoReply

LEMMA SignalledType ==
    ASSUME TypeOK
    PROVE  Signalled \in Seq(Requests)
<1>1. sleepers \in Seq(Requests)
  BY DEF TypeOK
<1>2. CASE sleepers = <<>>
  BY <1>1, <1>2 DEF Signalled
<1>3. CASE sleepers # <<>>
  BY <1>1, <1>3, HeadTailProperties DEF Signalled
<1>. QED
  BY <1>2, <1>3

\* The image of a finite set under a function is finite.
LEMMA FiniteImage ==
    ASSUME NEW f, IsFiniteSet(DOMAIN f)
    PROVE  IsFiniteSet({f[x] : x \in DOMAIN f})
<1>. DEFINE T == {f[x] : x \in DOMAIN f}
            g == [x \in DOMAIN f |-> f[x]]
<1>1. g \in Surjection(DOMAIN f, T)
  BY DEF Surjection
<1>. QED
  BY <1>1, FS_Surjection

\* Placing a row keeps q.pending a finite set of rows.
LEMMA PlacedRowsType ==
    ASSUME TypeOK, NEW r \in Requests, NEW b \in Nat,
           NEW R, R \subseteq Row, IsFiniteSet(R)
    PROVE  /\ EnsureOwnRow(r, b, R) \subseteq Row
           /\ IsFiniteSet(EnsureOwnRow(r, b, R))
           /\ Cardinality(RowsOf(b, EnsureOwnRow(r, b, R))) \in Nat
<1>. DEFINE moved == [row \in R |-> IF row.req = r THEN InBatch(row, b) ELSE row]
            Moved == {moved[row] : row \in DOMAIN moved}
            new   == [req |-> r, batch |-> b, arrival |-> arrivals]
<1>1. Moved \subseteq Row /\ new \in Row
  BY DEF Row, TypeOK, InBatch
<1>2. IsFiniteSet(Moved)
  <2>1. DOMAIN moved = R
    OBVIOUS
  <2>. HIDE DEF moved
  <2>. QED
    BY <2>1, FiniteImage
<1>3. IsFiniteSet(R \union {new})
  BY FS_AddElement
<1>4. EnsureOwnRow(r, b, R) = Moved \/ EnsureOwnRow(r, b, R) = R \union {new}
  <2>1. Moved = {IF row.req = r THEN InBatch(row, b) ELSE row : row \in R}
    OBVIOUS
  <2>. QED
    BY <2>1 DEF EnsureOwnRow
<1>5. IsFiniteSet(EnsureOwnRow(r, b, R)) /\ EnsureOwnRow(r, b, R) \subseteq Row
  BY <1>1, <1>2, <1>3, <1>4
<1>6. IsFiniteSet(RowsOf(b, EnsureOwnRow(r, b, R)))
  BY <1>5, FS_Subset DEF RowsOf
<1>. QED
  BY <1>5, <1>6, FS_CardinalityType

LEMMA GatheredType ==
    ASSUME TypeOK
    PROVE  Gathered \subseteq Row /\ IsFiniteSet(Gathered)
<1>. DEFINE moved == [row \in pending |->
                         IF row.batch = 0 THEN InBatch(row, currentBatch + 1) ELSE row]
            Moved == {moved[row] : row \in DOMAIN moved}
<1>1. pending \subseteq Row /\ IsFiniteSet(pending) /\ currentBatch \in Nat
  BY DEF TypeOK
<1>2. Gathered = Moved /\ DOMAIN moved = pending
  BY DEF Gathered
<1>3. Moved \subseteq Row
  BY <1>1 DEF Row, InBatch
<1>. HIDE DEF moved
<1>. QED
  BY <1>1, <1>2, <1>3, FiniteImage

\* Opening a batch, with any finite set of rows, keeps the types of what it writes.
LEMMA OpenBatchType ==
    ASSUME TypeOK, NEW r \in Requests, NEW R, R \subseteq Row, IsFiniteSet(R), OpenBatch(r, R)
    PROVE  /\ pc' \in [Requests -> PCs] /\ mine' \in [Requests -> Nat]
           /\ pending' \subseteq Row /\ IsFiniteSet(pending')
           /\ arrivals' \in Nat /\ mergeCount' \in Nat
           /\ currentBatch' \in Nat /\ epoch' \in Nat
           /\ processing' \in BOOLEAN /\ batchClosed' \in BOOLEAN
           /\ deadlineExpired' \in BOOLEAN /\ overdue' \in BOOLEAN /\ lastReply' \in Nat
           /\ replyByEpoch' = replyByEpoch
<1>1. currentBatch + 1 \in Nat /\ epoch + 1 \in Nat /\ arrivals + 1 \in Nat
  BY DEF TypeOK
<1>2. pending' = EnsureOwnRow(r, currentBatch + 1, R)
  BY DEF OpenBatch, PlaceOwnRow
<1>3. mergeCount' = Cardinality(RowsOf(currentBatch + 1, pending'))
  BY DEF OpenBatch, SyncMergeCount
<1>4. pending' \subseteq Row /\ IsFiniteSet(pending') /\ mergeCount' \in Nat
  BY <1>1, <1>2, <1>3, PlacedRowsType
<1>. QED
  BY <1>1, <1>4 DEF OpenBatch, PlaceOwnRow, TypeOK, PCs

LEMMA SleepType ==
    ASSUME TypeOK, NEW r \in Requests
    PROVE  Append(sleepers, r) \in Seq(Requests) /\ Append(Signalled, r) \in Seq(Requests)
  BY SignalledType, AppendProperties DEF TypeOK


----------------------------------------------------------------------------
(* Type correctness                                                        *)

LEMMA InitType == Init => TypeOK
<1>1. IsFiniteSet({})
  BY FS_EmptySet
<1>2. <<>> \in Seq(Requests)
  BY EmptySeq
<1>3. SUFFICES ASSUME Init PROVE TypeOK
  OBVIOUS
<1>4. /\ pc \in [Requests -> PCs]
      /\ mine \in [Requests -> Nat] /\ seen \in [Requests -> Nat]
      /\ token \in [Requests -> Nat] /\ got \in [Requests -> Nat]
  BY <1>3 DEF Init, PCs
<1>5. /\ DOMAIN replyByEpoch \subseteq Nat /\ replyByEpoch \in [DOMAIN replyByEpoch -> Nat]
      /\ DOMAIN claimedByReq \subseteq Requests /\ claimedByReq \in [DOMAIN claimedByReq -> Nat]
      /\ DOMAIN merged \subseteq Nat /\ merged \in [DOMAIN merged -> SUBSET Requests]
  BY <1>3 DEF Init
<1>. QED
  BY <1>1, <1>2, <1>3, <1>4, <1>5 DEF Init, TypeOK

LEMMA TypeStep == TypeOK /\ [Next]_vars => TypeOK'
<1>. SUFFICES ASSUME TypeOK, [Next]_vars PROVE TypeOK'
  OBVIOUS
<1>. USE DEF vars, local, batch, rows, replies, simple
<1>1. ASSUME NEW r \in Requests, OpenIdle(r) PROVE TypeOK'
  <2>1. OpenBatch(r, pending) /\ pending \subseteq Row /\ IsFiniteSet(pending)
    BY <1>1 DEF OpenIdle, TypeOK
  <2>. QED
    BY <1>1, <2>1, OpenBatchType DEF OpenIdle, TypeOK
<1>2. ASSUME NEW r \in Requests, HealAndOpen(r) PROVE TypeOK'
  <2>. DEFINE R == pending \ RowsOf(currentBatch, pending)
  <2>1. R \subseteq Row /\ IsFiniteSet(R)
    BY FS_Subset DEF TypeOK
  <2>2. OpenBatch(r, R)
    BY <1>2 DEF HealAndOpen
  <2>3. sleepers' \in Seq(Requests)
    BY <1>2, EmptySeq DEF HealAndOpen, Broadcast
  <2>. HIDE DEF R
  <2>. QED
    BY <1>2, <2>1, <2>2, <2>3, OpenBatchType DEF HealAndOpen, TypeOK
<1>3. ASSUME NEW r \in Requests, Join(r) PROVE TypeOK'
  <2>1. /\ pending' = EnsureOwnRow(r, currentBatch, pending)
        /\ mergeCount' = Cardinality(RowsOf(currentBatch, pending'))
    BY <1>3 DEF Join, PlaceOwnRow, SyncMergeCount
  <2>2. pending' \subseteq Row /\ IsFiniteSet(pending') /\ mergeCount' \in Nat
    BY <2>1, PlacedRowsType DEF TypeOK
  <2>3. sleepers' \in Seq(Requests) /\ arrivals' \in Nat
    BY <1>3, SleepType DEF Join, PlaceOwnRow, TypeOK
  <2>4. pc' \in [Requests -> PCs] /\ mine' \in [Requests -> Nat]
    BY <1>3 DEF Join, TypeOK, PCs
  <2>. QED
    BY <1>3, <2>2, <2>3, <2>4 DEF Join, TypeOK
<1>4. ASSUME NEW r \in Requests, JoinBacklog(r) PROVE TypeOK'
  <2>1. pending' = EnsureOwnRow(r, 0, pending)
    BY <1>4 DEF JoinBacklog, PlaceOwnRow
  <2>2. pending' \subseteq Row /\ IsFiniteSet(pending')
    BY <2>1, PlacedRowsType DEF TypeOK
  <2>3. sleepers' \in Seq(Requests) /\ arrivals' \in Nat
    BY <1>4, SleepType DEF JoinBacklog, Sleep, PlaceOwnRow, TypeOK
  <2>4. pc' \in [Requests -> PCs]
    BY <1>4 DEF JoinBacklog, TypeOK, PCs
  <2>. QED
    BY <1>4, <2>2, <2>3, <2>4 DEF JoinBacklog, TypeOK
<1>5. ASSUME NEW r \in Requests, JoinedWakes(r) PROVE TypeOK'
  <2>1. sleepers' \in Seq(Requests)
    BY <1>5, SleepType DEF JoinedWakes, Sleep, TypeOK
  <2>2. ReplyFor(mine[r]) \in Nat
    BY DEF ReplyFor, Slot, TypeOK
  <2>3. pc' \in [Requests -> PCs] /\ got' \in [Requests -> Nat]
    BY <1>5, <2>2 DEF JoinedWakes, TypeOK, PCs
  <2>4. UNCHANGED <<mine, local, rows, batch, deadlineExpired, replies, drain, simple, merged>>
    BY <1>5 DEF JoinedWakes
  <2>. QED
    BY <2>1, <2>3, <2>4 DEF TypeOK
<1>6. ASSUME NEW r \in Requests, BacklogSleepsAgain(r) PROVE TypeOK'
  BY <1>6, SleepType DEF BacklogSleepsAgain, Sleep, TypeOK
<1>7. ASSUME NEW r \in Requests, BacklogReturns(r) PROVE TypeOK'
  <2>1. claimedByReq[r] \in Nat
    BY <1>7 DEF BacklogReturns, Claimed, TypeOK
  <2>2. ReplyFor(claimedByReq[r]) \in Nat
    BY <2>1 DEF ReplyFor, Slot, TypeOK
  <2>3. pc' \in [Requests -> PCs] /\ got' \in [Requests -> Nat] /\ mine' \in [Requests -> Nat]
    BY <1>7, <2>1, <2>2 DEF BacklogReturns, TypeOK, PCs
  <2>4. DOMAIN claimedByReq' \subseteq Requests /\ claimedByReq' \in [DOMAIN claimedByReq' -> Nat]
    <3>1. claimedByReq' = [s \in DOMAIN claimedByReq \ {r} |-> claimedByReq[s]]
      BY <1>7 DEF BacklogReturns, DropClaim, Restrict
    <3>2. DOMAIN claimedByReq \subseteq Requests /\ claimedByReq \in [DOMAIN claimedByReq -> Nat]
      BY DEF TypeOK
    <3>. QED
      BY <3>1, <3>2
  <2>5. UNCHANGED <<local, sleepers, rows, batch, deadlineExpired, lastReply,
                    replyByEpoch, drain, simple, merged>>
    BY <1>7 DEF BacklogReturns
  <2>. QED
    BY <2>3, <2>4, <2>5 DEF TypeOK
<1>8. ASSUME NEW r \in Requests, TakeOver(r) PROVE TypeOK'
  <2>1. OpenBatch(r, Gathered)
    BY <1>8 DEF TakeOver
  <2>2. OthersInBacklog(r) \subseteq Requests
    BY DEF OthersInBacklog, RowsOf, TypeOK, Row
  <2>3. claimedByReq' = [s \in DOMAIN DropClaim(r) \union OthersInBacklog(r) |->
                            IF s \in OthersInBacklog(r) THEN epoch + 1 ELSE claimedByReq[s]]
    BY <1>8 DEF TakeOver
  <2>4. DOMAIN DropClaim(r) \subseteq DOMAIN claimedByReq
    BY DEF DropClaim, Restrict
  <2>5. epoch + 1 \in Nat /\ DOMAIN claimedByReq \subseteq Requests
        /\ claimedByReq \in [DOMAIN claimedByReq -> Nat]
    BY DEF TypeOK
  <2>6. DOMAIN claimedByReq' \subseteq Requests /\ claimedByReq' \in [DOMAIN claimedByReq' -> Nat]
    BY <2>2, <2>3, <2>4, <2>5
  <2>7. UNCHANGED <<local, got, sleepers, drain, simple, merged>>
    BY <1>8 DEF TakeOver
  <2>. QED
    BY <2>1, <2>6, <2>7, GatheredType, OpenBatchType DEF TypeOK
<1>9. ASSUME NEW r \in Requests, LeaveWindow(r) PROVE TypeOK'
  BY <1>9 DEF LeaveWindow, TypeOK, PCs
<1>10. ASSUME NEW r \in Requests, RestartWindow(r) PROVE TypeOK'
  BY <1>10, SleepType DEF RestartWindow, Sleep, TypeOK, PCs
<1>11. ASSUME NEW r \in Requests, Collect(r) PROVE TypeOK'
  <2>. DEFINE taken == RowsOf(currentBatch, pending)
  <2>1. /\ pending' = pending \ taken
        /\ merged' = [e \in DOMAIN merged \union {mine[r]} |->
                         IF e = mine[r] THEN {row.req : row \in taken} ELSE merged[e]]
    BY <1>11 DEF Collect
  <2>2. pending' \subseteq Row /\ IsFiniteSet(pending')
    BY <2>1, FS_Subset DEF TypeOK
  <2>3. {row.req : row \in taken} \subseteq Requests
    BY DEF RowsOf, TypeOK, Row
  <2>4. DOMAIN merged' \subseteq Nat /\ merged' \in [DOMAIN merged' -> SUBSET Requests]
    <3>. DEFINE T == {row.req : row \in taken}
    <3>1. merged' = [e \in DOMAIN merged \union {mine[r]} |-> IF e = mine[r] THEN T ELSE merged[e]]
      BY <2>1
    <3>2. T \subseteq Requests
      BY <2>3
    <3>3. /\ mine[r] \in Nat
          /\ DOMAIN merged \subseteq Nat /\ merged \in [DOMAIN merged -> SUBSET Requests]
      BY DEF TypeOK
    <3>. HIDE DEF T
    <3>. QED
      BY <3>1, <3>2, <3>3
  <2>5. pc' = [pc EXCEPT ![r] = "generate"] /\ batchClosed' = TRUE /\ armed' = armed \ {r}
    BY <1>11 DEF Collect
  <2>6. UNCHANGED <<mine, got, seen, sleepers, arrivals, mergeCount, processing, currentBatch,
                    epoch, overdue, deadlineExpired, replies, drain, simple>>
    BY <1>11 DEF Collect
  <2>. QED
    BY <2>2, <2>4, <2>5, <2>6 DEF TypeOK, PCs
<1>12. ASSUME NEW r \in Requests, SetReply(r) PROVE TypeOK'
  <2>1. PICK reply \in {mine[r]} \union (IF MaySilent THEN {NoReply} ELSE {}) :
            PublishReply(r, reply) \/ StaleReply(r, reply)
    BY <1>12 DEF SetReply
  <2>2. reply \in Nat
    BY DEF TypeOK
  <2>3. CASE StaleReply(r, reply)
    BY <2>2, <2>3 DEF StaleReply, TypeOK, PCs
  <2>4. CASE PublishReply(r, reply)
    <3>1. DOMAIN replyByEpoch' \subseteq Nat /\ replyByEpoch' \in [DOMAIN replyByEpoch' -> Nat]
      BY <2>2, <2>4 DEF PublishReply, TypeOK
    <3>2. DOMAIN claimedByReq' \subseteq Requests /\ claimedByReq' \in [DOMAIN claimedByReq' -> Nat]
      BY <2>4 DEF PublishReply, Restrict, TypeOK
    <3>3. sleepers' \in Seq(Requests)
      BY <2>4, EmptySeq DEF PublishReply, Broadcast
    <3>4. /\ pc' = [pc EXCEPT ![r] = "returned"] /\ got' = [got EXCEPT ![r] = reply]
          /\ lastReply' = reply /\ processing' = FALSE
      BY <2>4, Zenon DEF PublishReply
    <3>6. pc' \in [Requests -> PCs] /\ got' \in [Requests -> Nat] /\ lastReply' \in Nat
      BY <2>2, <3>4 DEF TypeOK, PCs
    <3>5. UNCHANGED <<mine, local, rows, batchClosed, currentBatch, epoch, overdue,
                      deadlineExpired, drain, simple, merged>>
      BY <2>4 DEF PublishReply
    <3>. QED
      BY <3>1, <3>2, <3>3, <3>4, <3>5, <3>6 DEF TypeOK
  <2>. QED
    BY <2>1, <2>3, <2>4
<1>13. ASSUME NEW r \in Requests, WindowExpires(r) PROVE TypeOK'
  BY <1>13, EmptySeq DEF WindowExpires, Broadcast, TypeOK
<1>14. ASSUME NEW r \in Requests, SimpleMessage(r) PROVE TypeOK'
  <2>1. UNCHANGED <<mine, got, local, rows, batch, deadlineExpired, replies, drain, merged>>
    BY <1>14, Zenon DEF SimpleMessage
  <2>2. CASE TakeSimple(r)
    <3>1. /\ simpleProcessing' = TRUE /\ simpleToken' = simpleToken + 1
          /\ token' = [token EXCEPT ![r] = simpleToken + 1]
          /\ pc' = [pc EXCEPT ![r] = "simple"]
          /\ sleepers' = sleepers
      BY <2>2, Zenon DEF TakeSimple
    <3>2. simpleProcessing' \in BOOLEAN
      BY <3>1, Zenon
    <3>3. /\ processing' \in BOOLEAN /\ batchClosed' \in BOOLEAN /\ deadlineExpired' \in BOOLEAN
          /\ overdue' \in BOOLEAN /\ drain' = drain
      BY <2>1, Zenon DEF TypeOK
    <3>4. pc' \in [Requests -> PCs] /\ token' \in [Requests -> Nat] /\ simpleToken' \in Nat
      BY <3>1 DEF TypeOK, PCs
    <3>. QED
      BY <2>1, <3>1, <3>2, <3>3, <3>4 DEF TypeOK
  <2>3. CASE Sleep(r) /\ pc' = [pc EXCEPT ![r] = "simpleWait"] /\ UNCHANGED simple
    BY <2>1, <2>3, SleepType DEF Sleep, TypeOK, PCs
  <2>. QED
    BY <1>14, <2>2, <2>3, Zenon DEF SimpleMessage
<1>15. ASSUME NEW r \in Requests, SimpleMessageDone(r) PROVE TypeOK'
  BY <1>15, SignalledType DEF SimpleMessageDone, TypeOK, PCs
<1>16. ASSUME NEW r \in Requests, SimpleWatchdog(r) PROVE TypeOK'
  BY <1>16, EmptySeq DEF SimpleWatchdog, Broadcast, TypeOK
<1>17. CASE LockTimesOut
  BY <1>17 DEF LockTimesOut, TypeOK
<1>18. CASE DrainForces
  <2>1. sleepers' \in Seq(Requests)
    BY <1>18, EmptySeq DEF DrainForces, WakeDrained, Broadcast
  <2>2. /\ drain' = "forced" /\ processing' = FALSE /\ simpleProcessing' = FALSE
        /\ epoch' = epoch + 1 /\ batchClosed' = TRUE
        /\ UNCHANGED <<pc, mine, got, local, rows, currentBatch, overdue, deadlineExpired,
                       replies, simpleToken, token, merged>>
    BY <1>18, Zenon DEF DrainForces
  <2>3. /\ processing' \in BOOLEAN /\ simpleProcessing' \in BOOLEAN /\ batchClosed' \in BOOLEAN
        /\ overdue' \in BOOLEAN /\ deadlineExpired' \in BOOLEAN
    BY <2>2, Zenon DEF TypeOK
  <2>4. epoch' \in Nat /\ drain' \in {"off", "found", "forced"}
    BY <2>2 DEF TypeOK
  <2>. QED
    BY <2>1, <2>2, <2>3, <2>4 DEF TypeOK
<1>20. CASE DrainFinds
  BY <1>20 DEF DrainFinds, TypeOK
<1>19. CASE UNCHANGED vars
  BY <1>19 DEF TypeOK
<1>. QED
  BY <1>1, <1>2, <1>3, <1>4, <1>5, <1>6, <1>7, <1>8, <1>9, <1>10, <1>11, <1>12, <1>13, <1>14,
     <1>15, <1>16, <1>17, <1>18, <1>19, <1>20 DEF Next, Enqueue, Wake, Idle

\* Every variable keeps its type in every reachable state.
THEOREM TypeCorrect == Spec => []TypeOK
  BY InitType, TypeStep, PTL DEF Spec

----------------------------------------------------------------------------
(* One row per message.  The property is inductive: whichever branch       *)
(* places a row keeps the set free of a second one, and every other step   *)
(* only removes rows or moves them to another batch.                       *)

OneRowIn(R) == \A x, y \in R : x.req = y.req => x = y

LEMMA EnsureKeepsOneRow ==
    ASSUME NEW R, OneRowIn(R), NEW r, NEW b
    PROVE  OneRowIn(EnsureOwnRow(r, b, R))
<1>1. CASE \E row \in R : row.req = r
  <2>. DEFINE Moved(row) == IF row.req = r THEN InBatch(row, b) ELSE row
  <2>1. \A row \in R : Moved(row).req = row.req
    BY DEF InBatch
  <2>2. EnsureOwnRow(r, b, R) = {Moved(row) : row \in R}
    BY <1>1 DEF EnsureOwnRow
  <2>. HIDE DEF Moved
  <2>. QED
    BY <2>1, <2>2 DEF OneRowIn
<1>2. CASE ~\E row \in R : row.req = r
  BY <1>2 DEF EnsureOwnRow, OneRowIn
<1>. QED
  BY <1>1, <1>2

LEMMA GatheredKeepsOneRow ==
    ASSUME OneRowIn(pending)
    PROVE  OneRowIn(Gathered)
<1>. DEFINE Moved(row) == IF row.batch = 0 THEN InBatch(row, currentBatch + 1) ELSE row
<1>1. \A row \in pending : Moved(row).req = row.req
  BY DEF InBatch
<1>2. Gathered = {Moved(row) : row \in pending}
  BY DEF Gathered
<1>. HIDE DEF Moved
<1>. QED
  BY <1>1, <1>2 DEF OneRowIn

LEMMA OneRowStep == OneRowIn(pending) /\ [Next]_vars => OneRowIn(pending')
<1>. SUFFICES ASSUME OneRowIn(pending), [Next]_vars PROVE OneRowIn(pending')
  OBVIOUS
<1>1. ASSUME NEW r \in Requests, OpenIdle(r) PROVE OneRowIn(pending')
  BY <1>1, EnsureKeepsOneRow DEF OpenIdle, OpenBatch, PlaceOwnRow
<1>2. ASSUME NEW r \in Requests, HealAndOpen(r) PROVE OneRowIn(pending')
  <2>1. OneRowIn(pending \ RowsOf(currentBatch, pending))
    BY DEF OneRowIn
  <2>. QED
    BY <1>2, <2>1, EnsureKeepsOneRow DEF HealAndOpen, OpenBatch, PlaceOwnRow
<1>3. ASSUME NEW r \in Requests, Join(r) PROVE OneRowIn(pending')
  BY <1>3, EnsureKeepsOneRow DEF Join, PlaceOwnRow
<1>4. ASSUME NEW r \in Requests, JoinBacklog(r) PROVE OneRowIn(pending')
  BY <1>4, EnsureKeepsOneRow DEF JoinBacklog, PlaceOwnRow
<1>5. ASSUME NEW r \in Requests, TakeOver(r) PROVE OneRowIn(pending')
  BY <1>5, GatheredKeepsOneRow, EnsureKeepsOneRow DEF TakeOver, OpenBatch, PlaceOwnRow
<1>6. ASSUME NEW r \in Requests, Collect(r) PROVE OneRowIn(pending')
  BY <1>6 DEF Collect, OneRowIn
<1>7. ASSUME NEW r \in Requests,
             \/ JoinedWakes(r) \/ BacklogSleepsAgain(r) \/ BacklogReturns(r)
             \/ LeaveWindow(r) \/ RestartWindow(r) \/ WindowExpires(r) \/ SetReply(r)
             \/ SimpleMessage(r) \/ SimpleMessageDone(r) \/ SimpleWatchdog(r)
      PROVE  pending' = pending
  BY <1>7 DEF JoinedWakes, BacklogSleepsAgain, BacklogReturns, LeaveWindow, RestartWindow,
     WindowExpires, SetReply, PublishReply, StaleReply, SimpleMessage, SimpleMessageDone,
     SimpleWatchdog, rows
<1>8. LockTimesOut \/ DrainFinds \/ DrainForces \/ UNCHANGED vars => pending' = pending
  BY DEF LockTimesOut, DrainFinds, DrainForces, vars, rows
<1>. QED
  BY <1>1, <1>2, <1>3, <1>4, <1>5, <1>6, <1>7, <1>8 DEF Next, Enqueue, Wake, Idle

\* A message has at most one row in q.pending: none of the branches of
\* processLocally, nor the relabelling of takeoverNextBatchLocked, makes a second.
THEOREM OneRow == Spec => []OneRowPerRequest
<1>1. Init => OneRowIn(pending)
  BY DEF Init, OneRowIn
<1>2. OneRowIn(pending) => OneRowPerRequest
  BY DEF OneRowIn, OneRowPerRequest
<1>3. (OneRowIn(pending))' <=> OneRowIn(pending')
  BY DEF OneRowIn
<1>. QED
  BY <1>1, <1>2, <1>3, OneRowStep, PTL DEF Spec

----------------------------------------------------------------------------
(* The right to process.  BusyMeansOneHolder says nothing of the epochs of *)
(* stalled holders; the strengthening adds that none of them is ahead of   *)
(* q.epoch, so that the epoch a new batch takes is nobody's.               *)

NobodyAhead == \A r \in Requests : pc[r] \in Holding => mine[r] <= epoch

HolderInv == NobodyAhead /\ BusyMeansOneHolder

\* A step that leaves processing, the epoch and the current holder alone may
\* only make a stalled holder leave.
LEMMA HolderFrame ==
    ASSUME HolderInv, processing' = processing, epoch' = epoch,
           \A s \in Requests : pc'[s] \in Holding => pc[s] \in Holding /\ mine'[s] = mine[s],
           \A s \in Requests : pc[s] \in Holding /\ mine[s] = epoch
                              => pc'[s] \in Holding /\ mine'[s] = mine[s]
    PROVE  HolderInv'
<1>1. NobodyAhead'
  BY DEF HolderInv, NobodyAhead, Holding
<1>2. processing' => \E r \in Requests : pc'[r] \in Holding /\ mine'[r] = epoch'
  BY DEF HolderInv, BusyMeansOneHolder
<1>3. \A r \in Requests : pc'[r] \in Holding /\ mine'[r] = epoch' => processing'
  BY DEF HolderInv, BusyMeansOneHolder
<1>4. \A r, s \in Requests :
          pc'[r] \in Holding /\ pc'[s] \in Holding /\ mine'[r] = mine'[s] => r = s
  BY DEF HolderInv, BusyMeansOneHolder
<1>. QED
  BY <1>1, <1>2, <1>3, <1>4 DEF HolderInv, BusyMeansOneHolder, Holding

\* Opening a batch takes an epoch nobody holds.
LEMMA HolderOpen ==
    ASSUME TypeOK, HolderInv, NEW r \in Requests, NEW R, OpenBatch(r, R)
    PROVE  HolderInv'
<1>1. /\ pc' = [pc EXCEPT ![r] = "opened"] /\ mine' = [mine EXCEPT ![r] = epoch + 1]
      /\ epoch' = epoch + 1
  BY DEF OpenBatch
<1>2. processing'
  BY DEF OpenBatch
<1>3. pc \in [Requests -> PCs] /\ mine \in [Requests -> Nat] /\ epoch \in Nat
  BY DEF TypeOK
<1>4. \A s \in Requests : s # r /\ pc'[s] \in Holding => mine'[s] <= epoch /\ mine'[s] = mine[s]
  BY <1>1, <1>3 DEF HolderInv, NobodyAhead
<1>5. pc'[r] \in Holding /\ mine'[r] = epoch + 1
  BY <1>1, <1>3 DEF Holding
<1>6. NobodyAhead'
  BY <1>1, <1>3, <1>4, <1>5 DEF NobodyAhead, Holding
<1>7. \A s, t \in Requests :
          pc'[s] \in Holding /\ pc'[t] \in Holding /\ mine'[s] = mine'[t] => s = t
  <2>. SUFFICES ASSUME NEW s \in Requests, NEW t \in Requests,
                       pc'[s] \in Holding, pc'[t] \in Holding, mine'[s] = mine'[t]
                PROVE  s = t
    OBVIOUS
  <2>1. s = r <=> t = r
    BY <1>3, <1>4, <1>5
  <2>2. CASE s # r /\ t # r
    BY <1>1, <1>3, <2>2 DEF HolderInv, BusyMeansOneHolder
  <2>. QED
    BY <2>1, <2>2
<1>8. \E s \in Requests : pc'[s] \in Holding /\ mine'[s] = epoch'
  BY <1>1, <1>5
<1>. QED
  BY <1>2, <1>6, <1>7, <1>8 DEF HolderInv, BusyMeansOneHolder, Holding

LEMMA HolderPublish ==
    ASSUME TypeOK, HolderInv, NEW r \in Requests, NEW reply, PublishReply(r, reply)
    PROVE  HolderInv'
<1>1. /\ pc' = [pc EXCEPT ![r] = "returned"] /\ mine' = mine /\ epoch' = epoch
      /\ pc[r] \in Holding /\ mine[r] = epoch
  BY DEF PublishReply, Current, Holding
<1>2. ~processing'
  BY DEF PublishReply
<1>3. pc \in [Requests -> PCs]
  BY DEF TypeOK
<1>4. \A s \in Requests : pc'[s] \in Holding => s # r /\ pc[s] \in Holding
  BY <1>1, <1>3 DEF Holding
<1>5. \A s \in Requests : pc'[s] \in Holding => mine'[s] # epoch'
  BY <1>1, <1>4 DEF HolderInv, BusyMeansOneHolder
<1>6. NobodyAhead'
  BY <1>1, <1>4 DEF HolderInv, NobodyAhead, Holding
<1>7. \A s, t \in Requests :
          pc'[s] \in Holding /\ pc'[t] \in Holding /\ mine'[s] = mine'[t] => s = t
  BY <1>1, <1>4 DEF HolderInv, BusyMeansOneHolder
<1>. QED
  BY <1>2, <1>5, <1>6, <1>7 DEF HolderInv, BusyMeansOneHolder, Holding

\* The forced release moves the epoch, so that every holder is a stale one.
LEMMA HolderDrain ==
    ASSUME TypeOK, HolderInv, DrainForces
    PROVE  HolderInv'
<1>1. pc' = pc /\ mine' = mine /\ epoch' = epoch + 1
  BY DEF DrainForces
<1>2. ~processing'
  BY DEF DrainForces
<1>3. mine \in [Requests -> Nat] /\ epoch \in Nat
  BY DEF TypeOK
<1>4. \A s \in Requests : pc[s] \in Holding => mine[s] <= epoch /\ mine[s] # epoch + 1
  BY <1>3 DEF HolderInv, NobodyAhead
<1>5. NobodyAhead'
  BY <1>1, <1>3, <1>4 DEF NobodyAhead, Holding
<1>. QED
  BY <1>1, <1>2, <1>4, <1>5 DEF HolderInv, BusyMeansOneHolder, Holding

LEMMA HolderStep == TypeOK /\ HolderInv /\ [Next]_vars => HolderInv'
<1>. SUFFICES ASSUME TypeOK, HolderInv, [Next]_vars PROVE HolderInv'
  OBVIOUS
<1>0. pc \in [Requests -> PCs] /\ mine \in [Requests -> Nat] /\ epoch \in Nat
  BY DEF TypeOK
<1>1. ASSUME NEW r \in Requests, OpenIdle(r) \/ HealAndOpen(r) \/ TakeOver(r) PROVE HolderInv'
  BY <1>1, HolderOpen DEF OpenIdle, HealAndOpen, TakeOver
<1>2. ASSUME NEW r \in Requests, Join(r) \/ JoinBacklog(r) PROVE HolderInv'
  <2>1. /\ pc[r] = "new" /\ processing' = processing /\ epoch' = epoch
        /\ \/ pc' = [pc EXCEPT ![r] = "joined"] /\ mine' = [mine EXCEPT ![r] = epoch]
           \/ pc' = [pc EXCEPT ![r] = "backlog"] /\ mine' = mine
    BY <1>2 DEF Join, JoinBacklog, batch
  <2>. QED
    BY <1>0, <2>1, HolderFrame DEF Holding
<1>3. ASSUME NEW r \in Requests, JoinedWakes(r) \/ BacklogSleepsAgain(r) PROVE HolderInv'
  <2>1. /\ processing' = processing /\ epoch' = epoch /\ mine' = mine
        /\ pc' = pc \/ (pc[r] = "joined" /\ pc' = [pc EXCEPT ![r] = "returned"])
    BY <1>3 DEF JoinedWakes, BacklogSleepsAgain, batch
  <2>. QED
    BY <1>0, <2>1, HolderFrame DEF Holding
<1>4. ASSUME NEW r \in Requests, BacklogReturns(r) PROVE HolderInv'
  <2>1. /\ processing' = processing /\ epoch' = epoch /\ pc[r] = "backlog"
        /\ pc' = [pc EXCEPT ![r] = "returned"]
        /\ mine' = [mine EXCEPT ![r] = claimedByReq[r]]
    BY <1>4 DEF BacklogReturns, batch
  <2>. QED
    BY <1>0, <2>1, HolderFrame DEF Holding
<1>5. ASSUME NEW r \in Requests, LeaveWindow(r) \/ RestartWindow(r) \/ Collect(r)
      PROVE  HolderInv'
  <2>1. /\ processing' = processing /\ epoch' = epoch /\ mine' = mine /\ pc[r] \in Holding
        /\ \E p \in Holding : pc' = [pc EXCEPT ![r] = p]
    BY <1>5 DEF LeaveWindow, RestartWindow, Collect, InWindow, batch, Holding
  <2>. QED
    BY <1>0, <2>1, HolderFrame DEF Holding
<1>6. ASSUME NEW r \in Requests, SetReply(r) PROVE HolderInv'
  <2>1. PICK reply : PublishReply(r, reply) \/ StaleReply(r, reply)
    BY <1>6 DEF SetReply
  <2>2. CASE StaleReply(r, reply)
    <3>1. /\ processing' = processing /\ epoch' = epoch /\ mine' = mine /\ mine[r] # epoch
          /\ pc' = [pc EXCEPT ![r] = "returned"]
      BY <2>2 DEF StaleReply, Current, batch
    <3>. QED
      BY <1>0, <3>1, HolderFrame DEF Holding
  <2>. QED
    BY <2>1, <2>2, HolderPublish
<1>7. ASSUME NEW r \in Requests, SimpleMessage(r) \/ SimpleMessageDone(r) PROVE HolderInv'
  <2>1. /\ processing' = processing /\ epoch' = epoch /\ mine' = mine /\ pc[r] \notin Holding
        /\ \E p \in {"simple", "simpleWait", "returned"} : pc' = [pc EXCEPT ![r] = p]
    BY <1>7 DEF SimpleMessage, TakeSimple, SimpleMessageDone, batch, Holding
  <2>. QED
    BY <1>0, <2>1, HolderFrame DEF Holding
<1>8. ASSUME NEW r \in Requests, WindowExpires(r) \/ SimpleWatchdog(r) PROVE HolderInv'
  <2>1. processing' = processing /\ epoch' = epoch /\ mine' = mine /\ pc' = pc
    BY <1>8 DEF WindowExpires, SimpleWatchdog, batch
  <2>. QED
    BY <2>1, HolderFrame
<1>9. CASE LockTimesOut \/ DrainFinds \/ UNCHANGED vars
  <2>1. processing' = processing /\ epoch' = epoch /\ mine' = mine /\ pc' = pc
    BY <1>9 DEF LockTimesOut, DrainFinds, vars, batch
  <2>. QED
    BY <2>1, HolderFrame
<1>10. CASE DrainForces
  BY <1>10, HolderDrain
<1>. QED
  BY <1>1, <1>2, <1>3, <1>4, <1>5, <1>6, <1>7, <1>8, <1>9, <1>10 DEF Next, Enqueue, Wake, Idle

LEMMA HolderAlways == Spec => [](TypeOK /\ HolderInv)
<1>1. Init => HolderInv
  BY DEF Init, HolderInv, NobodyAhead, BusyMeansOneHolder, Holding
<1>. QED
  BY <1>1, InitType, TypeStep, HolderStep, PTL DEF Spec

\* The queue is busy exactly while one live goroutine holds the current epoch,
\* and no two goroutines hold the same epoch: whatever stalls, is healed, is
\* released silently or is drained, the right to process is neither leaked nor
\* given twice.
THEOREM OneHolder == Spec => []BusyMeansOneHolder
  BY HolderAlways, PTL DEF HolderInv

\* Only the holder of the current epoch writes a reply, in a slot or in lastReply
\* (the fence of SetReply).
THEOREM Fenced == Spec => OnlyHolderPublishes
<1>. DEFINE Fence ==
         /\ \A e \in DOMAIN replyByEpoch' :
                e \notin DOMAIN replyByEpoch \/ replyByEpoch'[e] # replyByEpoch[e]
                   => e = epoch /\ processing /\ replyByEpoch'[e] \in {NoReply, epoch}
         /\ lastReply' \notin {lastReply, NoReply} => processing /\ lastReply' = epoch
            Kept == replyByEpoch' = replyByEpoch /\ lastReply' \in {lastReply, NoReply}
<1>1. TypeOK /\ HolderInv /\ [Next]_vars => [Fence]_vars
  <2>. SUFFICES ASSUME TypeOK, HolderInv, [Next]_vars PROVE Fence
    OBVIOUS
  <2>1. ASSUME NEW r \in Requests, SetReply(r) PROVE Fence
    <3>1. PICK reply \in {mine[r], NoReply} : PublishReply(r, reply) \/ StaleReply(r, reply)
      BY <2>1 DEF SetReply
    <3>2. CASE StaleReply(r, reply)
      BY <3>2 DEF StaleReply, replies
    <3>3. CASE PublishReply(r, reply)
      <4>1. processing /\ mine[r] = epoch
        BY <3>3 DEF PublishReply, Current, HolderInv, BusyMeansOneHolder, Holding
      <4>2. /\ lastReply' = reply
            /\ replyByEpoch' = [e \in {x \in DOMAIN replyByEpoch \union {epoch} : Recent(x)} |->
                                   IF e = epoch THEN reply ELSE replyByEpoch[e]]
        BY <3>3 DEF PublishReply
      <4>. QED
        BY <3>1, <4>1, <4>2
    <3>. QED
      BY <3>1, <3>2, <3>3
  <2>2. ASSUME NEW r \in Requests, Enqueue(r) \/ Wake(r) PROVE Kept
    BY <2>2 DEF Enqueue, Wake, OpenIdle, HealAndOpen, Join, JoinBacklog, JoinedWakes,
       BacklogSleepsAgain, BacklogReturns, TakeOver, OpenBatch, LeaveWindow, RestartWindow,
       Collect, replies
  <2>3. ASSUME NEW r \in Requests,
               \/ WindowExpires(r) \/ SimpleMessage(r) \/ SimpleMessageDone(r)
               \/ SimpleWatchdog(r)
        PROVE  Kept
    BY <2>3 DEF WindowExpires, SimpleMessage, SimpleMessageDone, SimpleWatchdog, replies
  <2>4. LockTimesOut \/ DrainFinds \/ DrainForces \/ UNCHANGED vars => Kept
    BY DEF LockTimesOut, DrainFinds, DrainForces, vars, replies
  <2>. QED
    BY <2>1, <2>2, <2>3, <2>4 DEF Next, Idle
<1>. QED
  BY <1>1, HolderAlways, PTL DEF OnlyHolderPublishes, Spec

----------------------------------------------------------------------------
(* Four layers of the invariant behind the other properties; each needs    *)
(* the ones before it and one assumption more.                             *)

\* In front of Collect: the batch of r is open.
Gathering == {"opened", "window", "collect"}

\* Layer 1, no shutdown: every row waits for somebody.  A claim is held in the
\* backlog, and its row is in a batch.
OrphanInv ==
    /\ drain = "off"
    /\ NoOrphanRow
    /\ \A r \in Requests : pc[r] = "generate" /\ mine[r] = epoch => batchClosed
    /\ \A r \in DOMAIN claimedByReq :
          pc[r] = "backlog" /\ \A row \in pending : row.req = r => row.batch # 0

\* Layer 2, no stalled holder either: whoever holds, holds the current epoch,
\* and a claim names the batch its row is in, or the one that collected it.
ClaimBacked(r) ==
    IF claimedByReq[r] = epoch /\ ~batchClosed
    THEN \E row \in pending : row.req = r /\ row.batch = currentBatch
    ELSE claimedByReq[r] \in DOMAIN merged /\ r \in merged[claimedByReq[r]]

ClaimInv ==
    /\ ~overdue /\ currentBatch = epoch
    /\ \A r \in Requests : pc[r] \in Holding => mine[r] = epoch /\ epoch > 0
    /\ \A r \in Requests : pc[r] \in Gathering => ~batchClosed
    /\ ~processing /\ epoch > 0 => batchClosed
    /\ \A r \in DOMAIN claimedByReq :
          claimedByReq[r] > 0 /\ claimedByReq[r] <= epoch /\ ClaimBacked(r)

\* Two reply slots are left when the queue is free, and the lane of simple
\* messages is taken by somebody.
SlotInv ==
    /\ \A e \in DOMAIN replyByEpoch : e <= epoch /\ (~processing => e >= epoch - 1)
    /\ simpleProcessing => \E r \in Requests : pc[r] = "simple"

\* Layer 3, no silent release and nobody overtaken: what a request was
\* collected for is where it stands, so it is collected once.
Collected(r) == Claimed(r) \/ pc[r] \in {"generate", "returned", "joined"}

BatchOf(r) == IF Claimed(r) THEN claimedByReq[r] ELSE mine[r]

InOpenBatch(r) ==
    \/ pc[r] \in Gathering
    \/ pc[r] = "joined" /\ mine[r] = epoch
    \/ Claimed(r) /\ claimedByReq[r] = epoch

PlaceInv ==
    /\ \A r \in Simple : pc[r] \in {"new", "simpleWait", "simple", "returned"}
    /\ \A row \in pending : row.batch # 0 => InOpenBatch(row.req)
    /\ \A r \in Requests : pc[r] \in Gathering =>
          \E row \in pending : row.req = r /\ row.batch = currentBatch
    /\ \A r \in DOMAIN claimedByReq : claimedByReq[r] = epoch

MergedInv ==
    /\ \A e \in DOMAIN merged : e <= epoch /\ (e = epoch => batchClosed)
    /\ \A e \in DOMAIN merged : \A r \in merged[e] : Collected(r) /\ BatchOf(r) = e
    /\ \A r \in Requests : pc[r] = "generate" => epoch \in DOMAIN merged /\ r \in merged[epoch]

FreeInv ==
    /\ epoch \in DOMAIN replyByEpoch => ~processing
    /\ ~processing =>
        /\ epoch > 0 => epoch \in DOMAIN replyByEpoch /\ replyByEpoch[epoch] # NoReply
        /\ \A r \in Requests : pc[r] = "backlog" => ~Asleep(r)

\* Layer 4, prompt wake-ups: the reply a joined request waits for is still
\* there when it wakes.
JoinedInv ==
    \A r \in Requests : pc[r] = "joined" =>
        /\ mine[r] > 0
        /\ mine[r] \in DOMAIN replyByEpoch \/ (mine[r] = epoch /\ processing)
        /\ Asleep(r) => mine[r] = epoch /\ processing
        /\ IF mine[r] = epoch /\ ~batchClosed
           THEN \E row \in pending : row.req = r /\ row.batch = currentBatch
           ELSE mine[r] \in DOMAIN merged /\ r \in merged[mine[r]]

ReplyInv ==
    /\ \A e \in DOMAIN replyByEpoch : replyByEpoch[e] = e
    /\ \A r \in Requests : got[r] # NoReply =>
          got[r] \in DOMAIN merged /\ r \in merged[got[r]]

----------------------------------------------------------------------------
(* What placing and gathering rows, and the moves of the condition         *)
(* variable, do to the rows and to the sleepers.                           *)

LEMMA PlacedRows ==
    ASSUME NEW R, NEW r, NEW b
    PROVE  /\ \A row \in EnsureOwnRow(r, b, R) :
                 (row.req = r /\ row.batch = b) \/ (row \in R /\ row.req # r)
           /\ \A row \in R : row.req # r => row \in EnsureOwnRow(r, b, R)
           /\ \E row \in EnsureOwnRow(r, b, R) : row.req = r /\ row.batch = b
<1>1. CASE \E row \in R : row.req = r
  <2>. DEFINE Moved(row) == IF row.req = r THEN InBatch(row, b) ELSE row
  <2>1. \A row \in R : row.req = r => Moved(row).req = r /\ Moved(row).batch = b
    BY DEF InBatch
  <2>2. \A row \in R : row.req # r => Moved(row) = row
    OBVIOUS
  <2>3. EnsureOwnRow(r, b, R) = {Moved(row) : row \in R}
    BY <1>1 DEF EnsureOwnRow
  <2>. HIDE DEF Moved
  <2>. QED
    BY <1>1, <2>1, <2>2, <2>3
<1>2. CASE ~\E row \in R : row.req = r
  <2>. DEFINE new == [req |-> r, batch |-> b, arrival |-> arrivals]
  <2>1. EnsureOwnRow(r, b, R) = R \union {new}
    BY <1>2 DEF EnsureOwnRow
  <2>2. new.req = r /\ new.batch = b
    OBVIOUS
  <2>. HIDE DEF new
  <2>. QED
    BY <1>2, <2>1, <2>2
<1>. QED
  BY <1>1, <1>2

LEMMA GatheredRows ==
    /\ \A row \in Gathered : \E x \in pending :
          row.req = x.req /\ row.batch = (IF x.batch = 0 THEN currentBatch + 1 ELSE x.batch)
    /\ \A x \in pending : \E row \in Gathered :
          row.req = x.req /\ row.batch = (IF x.batch = 0 THEN currentBatch + 1 ELSE x.batch)
<1>. DEFINE Moved(row) == IF row.batch = 0 THEN InBatch(row, currentBatch + 1) ELSE row
<1>1. \A x \in pending :
         /\ Moved(x).req = x.req
         /\ Moved(x).batch = IF x.batch = 0 THEN currentBatch + 1 ELSE x.batch
  BY DEF InBatch
<1>2. Gathered = {Moved(x) : x \in pending}
  BY DEF Gathered
<1>. HIDE DEF Moved
<1>. QED
  BY <1>1, <1>2

LEMMA SleepersMove ==
    ASSUME TypeOK, NEW r \in Requests
    PROVE  /\ Range(<<>>) = {}
           /\ Range(Append(sleepers, r)) = Range(sleepers) \union {r}
           /\ Range(Signalled) \subseteq Range(sleepers)
           /\ Range(Append(Signalled, r)) = Range(Signalled) \union {r}
<1>1. ASSUME NEW s \in Seq(Requests) PROVE Range(Append(s, r)) = Range(s) \union {r}
  <2>1. /\ Len(s) \in Nat /\ DOMAIN s = 1 .. Len(s)
        /\ DOMAIN Append(s, r) = 1 .. Len(s) + 1
        /\ \A i \in 1 .. Len(s) : Append(s, r)[i] = s[i]
        /\ Append(s, r)[Len(s) + 1] = r
    BY <1>1, LenProperties, AppendProperties
  <2>2. \A i \in 1 .. Len(s) + 1 : i \in 1 .. Len(s) \/ i = Len(s) + 1
    BY <2>1
  <2>. QED
    BY <2>1, <2>2 DEF Range
<1>2. Range(Signalled) \subseteq Range(sleepers)
  <2>1. CASE sleepers = <<>>
    BY <2>1 DEF Signalled
  <2>2. CASE sleepers # <<>>
    <3>1. sleepers \in Seq(Requests) /\ Signalled = Tail(sleepers)
      BY <2>2 DEF TypeOK, Signalled
    <3>2. /\ Tail(sleepers) \in Seq(Requests) /\ Len(Tail(sleepers)) = Len(sleepers) - 1
          /\ \A i \in 1 .. Len(Tail(sleepers)) : Tail(sleepers)[i] = sleepers[i + 1]
      BY <2>2, <3>1, HeadTailProperties
    <3>3. /\ Len(sleepers) \in Nat /\ DOMAIN sleepers = 1 .. Len(sleepers)
          /\ DOMAIN Tail(sleepers) = 1 .. Len(Tail(sleepers))
      BY <3>1, <3>2, LenProperties
    <3>4. \A i \in DOMAIN Tail(sleepers) : i + 1 \in DOMAIN sleepers
      BY <3>2, <3>3
    <3>. QED
      BY <3>1, <3>2, <3>3, <3>4 DEF Range
  <2>. QED
    BY <2>1, <2>2
<1>3. Range(<<>>) = {}
  BY DEF Range
<1>. QED
  BY <1>1, <1>2, <1>3, SignalledType DEF TypeOK

----------------------------------------------------------------------------
(* Layer 1: rows wait for somebody                                         *)

\* A step that leaves the rows and the batch alone takes nobody but a claimed
\* request out of the backlog.
LEMMA OrphanFrame ==
    ASSUME OrphanInv,
           UNCHANGED <<pending, processing, batchClosed, currentBatch, epoch>>, drain' = "off",
           \A s \in Requests : pc[s] = "backlog" => pc'[s] = "backlog" \/ Claimed(s),
           \A s \in DOMAIN claimedByReq' : s \in DOMAIN claimedByReq /\ pc'[s] = "backlog",
           \A s \in Requests : pc'[s] = "generate" => pc[s] = "generate" /\ mine'[s] = mine[s],
           pending \subseteq Row
    PROVE  OrphanInv'
<1>1. NoOrphanRow'
  BY DEF OrphanInv, NoOrphanRow, Claimed, Row
<1>2. /\ \A r \in Requests : pc'[r] = "generate" /\ mine'[r] = epoch' => batchClosed'
      /\ \A r \in DOMAIN claimedByReq' :
            pc'[r] = "backlog" /\ \A row \in pending' : row.req = r => row.batch # 0
  BY DEF OrphanInv
<1>. QED
  BY <1>1, <1>2 DEF OrphanInv

LEMMA OrphanStep ==
    ASSUME ~MayDrain, TypeOK, HolderInv, OrphanInv, [Next]_vars
    PROVE  OrphanInv'
<1>0. /\ pc \in [Requests -> PCs] /\ mine \in [Requests -> Nat] /\ epoch \in Nat
      /\ pending \subseteq Row /\ currentBatch \in Nat /\ DOMAIN claimedByReq \subseteq Requests
  BY DEF TypeOK
\* Opening a batch with rows that are in no batch, or in the new one.
<1>1. ASSUME NEW r \in Requests, NEW R, OpenBatch(r, R), drain' = drain,
             \A row \in R : /\ row.batch \in {0, currentBatch + 1}
                            /\ row.batch = 0 => row.req \in Requests /\ pc[row.req] = "backlog",
             \A s \in DOMAIN claimedByReq' : /\ s \in Requests \ {r} /\ pc[s] = "backlog"
                                             /\ \A row \in R : row.req = s => row.batch # 0
      PROVE  OrphanInv'
  <2>1. /\ pc' = [pc EXCEPT ![r] = "opened"] /\ mine' = [mine EXCEPT ![r] = epoch + 1]
        /\ processing' /\ ~batchClosed' /\ epoch' = epoch + 1 /\ currentBatch' = currentBatch + 1
        /\ pending' = EnsureOwnRow(r, currentBatch + 1, R)
    BY <1>1 DEF OpenBatch, PlaceOwnRow
  <2>2. NoOrphanRow'
    BY <1>0, <1>1, <2>1, PlacedRows DEF NoOrphanRow
  <2>3. \A s \in Requests : ~(pc'[s] = "generate" /\ mine'[s] = epoch')
    BY <1>0, <2>1 DEF HolderInv, NobodyAhead, Holding
  <2>4. \A s \in DOMAIN claimedByReq' :
           pc'[s] = "backlog" /\ \A row \in pending' : row.req = s => row.batch # 0
    BY <1>0, <1>1, <2>1, PlacedRows
  <2>. QED
    BY <1>1, <2>2, <2>3, <2>4 DEF OrphanInv
<1>2. ASSUME NEW r \in Requests, OpenIdle(r) PROVE OrphanInv'
  <2>1. OpenBatch(r, pending) /\ drain' = drain /\ claimedByReq' = claimedByReq
        /\ pc[r] = "new" /\ ~processing
    BY <1>2 DEF OpenIdle, Free
  <2>2. \A row \in pending : row.req \in Requests /\ row.batch = 0 /\ pc[row.req] = "backlog"
    BY <1>0, <2>1 DEF OrphanInv, NoOrphanRow, Row
  <2>. QED
    BY <1>0, <1>1, <2>1, <2>2 DEF OrphanInv
<1>3. ASSUME NEW r \in Requests, HealAndOpen(r) PROVE OrphanInv'
  <2>. DEFINE R == pending \ RowsOf(currentBatch, pending)
  <2>1. OpenBatch(r, R) /\ drain' = drain /\ claimedByReq' = claimedByReq /\ pc[r] = "new"
    BY <1>3 DEF HealAndOpen
  <2>2. \A row \in R : row.req \in Requests /\ row.batch = 0 /\ pc[row.req] = "backlog"
    BY <1>0 DEF OrphanInv, NoOrphanRow, RowsOf, Row
  <2>. QED
    BY <1>0, <1>1, <2>1, <2>2 DEF OrphanInv
<1>4. ASSUME NEW r \in Requests, TakeOver(r) PROVE OrphanInv'
  <2>1. OpenBatch(r, Gathered) /\ drain' = drain /\ ~processing
        /\ claimedByReq' = [s \in DOMAIN DropClaim(r) \union OthersInBacklog(r) |->
                               IF s \in OthersInBacklog(r) THEN epoch + 1 ELSE claimedByReq[s]]
    BY <1>4 DEF TakeOver, Free
  <2>2. \A row \in pending : row.req \in Requests /\ row.batch = 0 /\ pc[row.req] = "backlog"
    BY <1>0, <2>1 DEF OrphanInv, NoOrphanRow, Row
  <2>3. \A row \in Gathered : row.batch = currentBatch + 1
    BY <2>2, GatheredRows
  <2>4. \A s \in DOMAIN claimedByReq' : s \in Requests \ {r} /\ pc[s] = "backlog"
    BY <1>0, <2>1, <2>2 DEF DropClaim, Restrict, OthersInBacklog, RowsOf, OrphanInv
  <2>5. currentBatch + 1 # 0
    BY <1>0
  <2>. QED
    BY <1>1, <2>1, <2>3, <2>4, <2>5
<1>5. ASSUME NEW r \in Requests, Join(r) PROVE OrphanInv'
  <2>1. /\ pc' = [pc EXCEPT ![r] = "joined"] /\ mine' = [mine EXCEPT ![r] = epoch]
        /\ pending' = EnsureOwnRow(r, currentBatch, pending)
        /\ processing /\ ~batchClosed /\ drain' = drain /\ claimedByReq' = claimedByReq
        /\ UNCHANGED batch /\ pc[r] = "new"
    BY <1>5 DEF Join, PlaceOwnRow, HasRoom, replies
  <2>2. NoOrphanRow'
    BY <1>0, <2>1, PlacedRows DEF OrphanInv, NoOrphanRow, batch, Row
  <2>3. \A s \in Requests : pc'[s] = "generate" /\ mine'[s] = epoch' => batchClosed'
    BY <1>0, <2>1 DEF OrphanInv, batch
  <2>4. \A s \in DOMAIN claimedByReq' : s # r /\ pc[s] = "backlog"
    BY <2>1 DEF OrphanInv
  <2>5. \A s \in DOMAIN claimedByReq' :
           pc'[s] = "backlog" /\ \A row \in pending' : row.req = s => row.batch # 0
    BY <1>0, <2>1, <2>4, PlacedRows DEF OrphanInv
  <2>. QED
    BY <2>1, <2>2, <2>3, <2>5 DEF OrphanInv
<1>6. ASSUME NEW r \in Requests, JoinBacklog(r) PROVE OrphanInv'
  <2>1. /\ pc' = [pc EXCEPT ![r] = "backlog"] /\ mine' = mine
        /\ pending' = EnsureOwnRow(r, 0, pending)
        /\ drain' = drain /\ claimedByReq' = claimedByReq /\ UNCHANGED batch /\ pc[r] = "new"
    BY <1>6 DEF JoinBacklog, PlaceOwnRow, replies
  <2>2. NoOrphanRow'
    BY <1>0, <2>1, PlacedRows DEF OrphanInv, NoOrphanRow, batch, Row
  <2>3. \A s \in Requests : pc'[s] = "generate" /\ mine'[s] = epoch' => batchClosed'
    BY <1>0, <2>1 DEF OrphanInv, batch
  <2>4. \A s \in DOMAIN claimedByReq' : s # r /\ pc[s] = "backlog"
    BY <2>1 DEF OrphanInv
  <2>5. \A s \in DOMAIN claimedByReq' :
           pc'[s] = "backlog" /\ \A row \in pending' : row.req = s => row.batch # 0
    BY <1>0, <2>1, <2>4, PlacedRows DEF OrphanInv
  <2>. QED
    BY <2>1, <2>2, <2>3, <2>5 DEF OrphanInv
<1>7. ASSUME NEW r \in Requests, Collect(r) PROVE OrphanInv'
  <2>1. /\ pc' = [pc EXCEPT ![r] = "generate"] /\ pc[r] = "collect" /\ mine' = mine
        /\ pending' = pending \ RowsOf(currentBatch, pending)
        /\ batchClosed' /\ drain' = drain /\ claimedByReq' = claimedByReq
        /\ UNCHANGED <<processing, currentBatch, epoch>>
    BY <1>7 DEF Collect, replies
  <2>2. NoOrphanRow'
    BY <1>0, <2>1 DEF OrphanInv, NoOrphanRow, RowsOf, Row
  <2>3. \A s \in DOMAIN claimedByReq' :
           pc'[s] = "backlog" /\ \A row \in pending' : row.req = s => row.batch # 0
    BY <1>0, <2>1 DEF OrphanInv
  <2>. QED
    BY <2>1, <2>2, <2>3 DEF OrphanInv
<1>8. ASSUME NEW r \in Requests, NEW reply, PublishReply(r, reply) PROVE OrphanInv'
  <2>1. /\ pc' = [pc EXCEPT ![r] = "returned"] /\ mine' = mine /\ drain' = drain
        /\ pc[r] = "generate" /\ mine[r] = epoch /\ pending' = pending
        /\ claimedByReq' = Restrict(claimedByReq,
                                    {s \in DOMAIN claimedByReq : Recent(claimedByReq[s])})
        /\ UNCHANGED <<batchClosed, currentBatch, epoch>>
    BY <1>8 DEF PublishReply, Current, rows
  <2>2. batchClosed
    BY <2>1 DEF OrphanInv
  <2>3. NoOrphanRow'
    BY <1>0, <2>1, <2>2 DEF OrphanInv, NoOrphanRow, Row
  <2>4. \A s \in Requests : pc'[s] = "generate" /\ mine'[s] = epoch' => batchClosed'
    BY <2>1, <2>2
  <2>5. \A s \in DOMAIN claimedByReq' : s \in DOMAIN claimedByReq /\ s # r
    BY <2>1 DEF Restrict, OrphanInv
  <2>6. \A s \in DOMAIN claimedByReq' :
           pc'[s] = "backlog" /\ \A row \in pending' : row.req = s => row.batch # 0
    BY <1>0, <2>1, <2>5 DEF OrphanInv
  <2>. QED
    BY <2>1, <2>3, <2>4, <2>6 DEF OrphanInv
\* The other steps leave the rows and the batch alone.
<1>9. ASSUME NEW r \in Requests, NEW p \in PCs \ {"generate", "backlog"},
             UNCHANGED <<pending, processing, batchClosed, currentBatch, epoch, drain>>,
             pc' = [pc EXCEPT ![r] = p], mine' = mine \/ p = "returned",
             \A s \in Requests \ {r} : mine'[s] = mine[s],
             pc[r] = "backlog" => Claimed(r),
             \A s \in DOMAIN claimedByReq' : s \in DOMAIN claimedByReq /\ s # r
      PROVE  OrphanInv'
  BY <1>0, <1>9, OrphanFrame DEF OrphanInv
<1>10. ASSUME UNCHANGED <<pending, processing, batchClosed, currentBatch, epoch, drain>>,
              UNCHANGED <<pc, mine, claimedByReq>>
       PROVE  OrphanInv'
  BY <1>0, <1>10, OrphanFrame DEF OrphanInv
<1>11. ASSUME NEW r \in Requests, JoinedWakes(r) \/ BacklogSleepsAgain(r) PROVE OrphanInv'
  <2>1. /\ UNCHANGED <<pending, processing, batchClosed, currentBatch, epoch, drain>>
        /\ mine' = mine /\ claimedByReq' = claimedByReq
        /\ pc' = pc \/ (pc[r] = "joined" /\ pc' = [pc EXCEPT ![r] = "returned"])
    BY <1>11 DEF JoinedWakes, BacklogSleepsAgain, rows, batch, replies
  <2>2. \A s \in DOMAIN claimedByReq : pc[s] = "backlog"
    BY DEF OrphanInv
  <2>. QED
    BY <1>9, <1>10, <2>1, <2>2 DEF PCs
<1>12. ASSUME NEW r \in Requests, BacklogReturns(r) PROVE OrphanInv'
  <2>1. /\ UNCHANGED <<pending, processing, batchClosed, currentBatch, epoch, drain>>
        /\ claimedByReq' = DropClaim(r) /\ Claimed(r)
        /\ pc' = [pc EXCEPT ![r] = "returned"] /\ mine' = [mine EXCEPT ![r] = claimedByReq[r]]
    BY <1>12 DEF BacklogReturns, rows, batch
  <2>. QED
    BY <1>0, <1>9, <2>1 DEF DropClaim, Restrict, PCs
<1>13. ASSUME NEW r \in Requests,
              \/ LeaveWindow(r) \/ RestartWindow(r) \/ SimpleMessage(r) \/ SimpleMessageDone(r)
              \/ \E reply : StaleReply(r, reply)
       PROVE  OrphanInv'
  <2>1. /\ UNCHANGED <<pending, processing, batchClosed, currentBatch, epoch, drain>>
        /\ mine' = mine /\ claimedByReq' = claimedByReq /\ pc[r] # "backlog"
        /\ \E p \in PCs \ {"generate", "backlog"} : pc' = [pc EXCEPT ![r] = p]
    BY <1>13 DEF LeaveWindow, RestartWindow, InWindow, SimpleMessage, TakeSimple, SimpleMessageDone,
       StaleReply, rows, batch, replies, PCs
  <2>2. \A s \in DOMAIN claimedByReq : pc[s] = "backlog"
    BY DEF OrphanInv
  <2>. QED
    BY <1>9, <2>1, <2>2
<1>14. ASSUME NEW r \in Requests, WindowExpires(r) \/ SimpleWatchdog(r) PROVE OrphanInv'
  BY <1>10, <1>14 DEF WindowExpires, SimpleWatchdog, rows, batch, replies
<1>15. ASSUME LockTimesOut \/ UNCHANGED vars PROVE OrphanInv'
  BY <1>10, <1>15 DEF LockTimesOut, vars, rows, batch, replies
<1>16. ~DrainFinds /\ ~DrainForces
  BY DEF DrainFinds, DrainForces, OrphanInv
<1>. QED
  BY <1>2, <1>3, <1>4, <1>5, <1>6, <1>7, <1>8, <1>11, <1>12, <1>13, <1>14, <1>15, <1>16
  DEF Next, Enqueue, Wake, SetReply, Idle

LEMMA OrphanAlways ==
    ASSUME ~MayDrain
    PROVE  Spec => [](TypeOK /\ HolderInv /\ OrphanInv)
<1>1. Init => OrphanInv
  BY DEF Init, OrphanInv, NoOrphanRow
<1>2. TypeOK /\ HolderInv /\ OrphanInv /\ [Next]_vars => OrphanInv'
  BY OrphanStep
<1>. QED
  BY <1>1, <1>2, HolderAlways, PTL DEF Spec

\* Unless the process is shut down, every row is in the open batch or belongs to
\* a request in the backlog, whatever stalls, is healed, is released silently
\* or loses a race.
THEOREM RowsWaitForSomebody == ~MayDrain => (Spec => []NoOrphanRow)
<1>. SUFFICES ASSUME ~MayDrain PROVE Spec => []NoOrphanRow
  OBVIOUS
<1>1. OrphanInv => NoOrphanRow
  BY DEF OrphanInv
<1>. QED
  BY <1>1, OrphanAlways, PTL

----------------------------------------------------------------------------
(* Layer 2: claims                                                         *)

LEMMA ClaimFrame ==
    ASSUME ClaimInv, UNCHANGED <<overdue, currentBatch, epoch, batchClosed, merged, pending>>,
           ~processing' /\ epoch > 0 => batchClosed,
           \A s \in Requests : pc'[s] \in Holding => pc[s] \in Holding /\ mine'[s] = mine[s],
           \A s \in Requests : pc'[s] \in Gathering => pc[s] \in Gathering,
           \A s \in DOMAIN claimedByReq' :
              s \in DOMAIN claimedByReq /\ claimedByReq'[s] = claimedByReq[s]
    PROVE  ClaimInv'
<1>1. \A s \in DOMAIN claimedByReq' :
         claimedByReq'[s] > 0 /\ claimedByReq'[s] <= epoch' /\ ClaimBacked(s)'
  BY DEF ClaimInv, ClaimBacked
<1>. QED
  BY <1>1 DEF ClaimInv, Holding, Gathering

LEMMA ClaimStep ==
    ASSUME ~MayDrain, StallsIn = {}, TypeOK, HolderInv, OrphanInv, ClaimInv, [Next]_vars
    PROVE  ClaimInv'
<1>0. /\ pc \in [Requests -> PCs] /\ mine \in [Requests -> Nat] /\ epoch \in Nat
      /\ pending \subseteq Row /\ currentBatch \in Nat /\ DOMAIN claimedByReq \subseteq Requests
  BY DEF TypeOK
\* Opening a batch: the queue was free, so every claim so far was collected.
<1>1. ASSUME NEW r \in Requests, NEW R, OpenBatch(r, R), merged' = merged, ~processing,
             \A s \in DOMAIN claimedByReq' :
                \/ s \in DOMAIN claimedByReq /\ claimedByReq'[s] = claimedByReq[s]
                \/ s # r /\ claimedByReq'[s] = epoch + 1
                   /\ \E row \in R : row.req = s /\ row.batch = currentBatch + 1
      PROVE  ClaimInv'
  <2>1. /\ pc' = [pc EXCEPT ![r] = "opened"] /\ mine' = [mine EXCEPT ![r] = epoch + 1]
        /\ processing' /\ ~batchClosed' /\ ~overdue'
        /\ epoch' = epoch + 1 /\ currentBatch' = currentBatch + 1
        /\ pending' = EnsureOwnRow(r, currentBatch + 1, R)
    BY <1>1 DEF OpenBatch, PlaceOwnRow
  <2>2. \A s \in Requests : pc[s] \notin Holding
    BY <1>1 DEF HolderInv, BusyMeansOneHolder, ClaimInv
  <2>3. \A s \in Requests : pc'[s] \in Holding => mine'[s] = epoch' /\ epoch' > 0
    BY <1>0, <2>1, <2>2
  <2>4. ASSUME NEW s \in DOMAIN claimedByReq'
        PROVE  claimedByReq'[s] > 0 /\ claimedByReq'[s] <= epoch' /\ ClaimBacked(s)'
    <3>1. CASE s \in DOMAIN claimedByReq /\ claimedByReq'[s] = claimedByReq[s]
      <4>1. claimedByReq[s] > 0 /\ claimedByReq[s] <= epoch /\ ClaimBacked(s)
        BY <3>1 DEF ClaimInv
      <4>2. \A row \in pending : row.req = s => row.batch # currentBatch
        BY <1>1, <3>1 DEF OrphanInv, NoOrphanRow
      <4>3. claimedByReq[s] \in DOMAIN merged /\ s \in merged[claimedByReq[s]]
        BY <4>1, <4>2 DEF ClaimBacked
      <4>4. claimedByReq[s] \in Nat
        BY <3>1 DEF TypeOK
      <4>5. claimedByReq'[s] # epoch' /\ claimedByReq'[s] <= epoch'
        BY <1>0, <2>1, <3>1, <4>1, <4>4
      <4>. QED
        BY <1>1, <3>1, <4>1, <4>3, <4>5 DEF ClaimBacked
    <3>2. CASE /\ s # r /\ claimedByReq'[s] = epoch + 1
               /\ \E row \in R : row.req = s /\ row.batch = currentBatch + 1
      <4>1. \E row \in pending' : row.req = s /\ row.batch = currentBatch'
        BY <2>1, <3>2, PlacedRows
      <4>. QED
        BY <1>0, <2>1, <3>2, <4>1 DEF ClaimBacked
    <3>. QED
      BY <1>1, <3>1, <3>2
  <2>5. currentBatch' = epoch'
    BY <2>1 DEF ClaimInv
  <2>. QED
    BY <2>1, <2>3, <2>4, <2>5 DEF ClaimInv
<1>2. ASSUME NEW r \in Requests, OpenIdle(r) PROVE ClaimInv'
  <2>1. OpenBatch(r, pending) /\ merged' = merged /\ claimedByReq' = claimedByReq /\ ~processing
    BY <1>2 DEF OpenIdle, Free
  <2>. QED
    BY <1>1, <2>1
<1>3. ASSUME NEW r \in Requests, TakeOver(r) PROVE ClaimInv'
  <2>1. OpenBatch(r, Gathered) /\ merged' = merged /\ ~processing
        /\ claimedByReq' = [s \in DOMAIN DropClaim(r) \union OthersInBacklog(r) |->
                               IF s \in OthersInBacklog(r) THEN epoch + 1 ELSE claimedByReq[s]]
    BY <1>3 DEF TakeOver, Free
  <2>2. ASSUME NEW s \in OthersInBacklog(r)
        PROVE  s # r /\ \E row \in Gathered : row.req = s /\ row.batch = currentBatch + 1
    BY <2>2, GatheredRows DEF OthersInBacklog, RowsOf
  <2>3. \A s \in DOMAIN claimedByReq' : s \notin OthersInBacklog(r) =>
           s \in DOMAIN claimedByReq /\ claimedByReq'[s] = claimedByReq[s]
    BY <2>1 DEF DropClaim, Restrict
  <2>4. \A s \in DOMAIN claimedByReq' : s \in OthersInBacklog(r) => claimedByReq'[s] = epoch + 1
    BY <2>1
  <2>. QED
    BY <1>1, <2>1, <2>2, <2>3, <2>4
<1>4. ASSUME NEW r \in Requests, Join(r) \/ JoinBacklog(r) PROVE ClaimInv'
  <2>1. /\ UNCHANGED <<processing, batchClosed, currentBatch, epoch, overdue, merged, claimedByReq>>
        /\ pc[r] = "new" /\ \E p \in {"joined", "backlog"} : pc' = [pc EXCEPT ![r] = p]
        /\ \A s \in Requests \ {r} : mine'[s] = mine[s]
    BY <1>0, <1>4 DEF Join, JoinBacklog, batch, replies
  <2>2. \E b : pending' = EnsureOwnRow(r, b, pending)
    BY <1>4 DEF Join, JoinBacklog, PlaceOwnRow
  <2>3. \A s \in DOMAIN claimedByReq : s # r
    BY <2>1 DEF OrphanInv
  <2>4. ASSUME NEW s \in DOMAIN claimedByReq' PROVE ClaimBacked(s)'
    <3>1. ClaimBacked(s) /\ s # r
      BY <2>1, <2>3 DEF ClaimInv
    <3>2. \A row \in pending : row.req = s => row \in pending'
      BY <2>2, <3>1, PlacedRows
    <3>. QED
      BY <2>1, <3>1, <3>2 DEF ClaimBacked
  <2>5. \A s \in Requests : pc'[s] \in Holding => s # r /\ pc'[s] = pc[s]
    BY <1>0, <2>1 DEF Holding
  <2>6. \A s \in Requests : pc'[s] \in Gathering => s # r /\ pc'[s] = pc[s]
    BY <1>0, <2>1 DEF Gathering
  <2>. QED
    BY <2>1, <2>4, <2>5, <2>6 DEF ClaimInv
<1>5. ASSUME NEW r \in Requests, Collect(r) PROVE ClaimInv'
  <2>. DEFINE taken == RowsOf(currentBatch, pending)
  <2>1. /\ pc' = [pc EXCEPT ![r] = "generate"] /\ pc[r] = "collect" /\ mine' = mine
        /\ batchClosed' /\ UNCHANGED <<processing, currentBatch, epoch, overdue, claimedByReq>>
        /\ merged' = [e \in DOMAIN merged \union {mine[r]} |->
                         IF e = mine[r] THEN {row.req : row \in taken} ELSE merged[e]]
    BY <1>5 DEF Collect, replies
  <2>2. mine[r] = epoch /\ pc[r] \in Holding /\ ~batchClosed
    BY <2>1 DEF ClaimInv, Holding, Gathering
  <2>3. ASSUME NEW s \in DOMAIN claimedByReq'
        PROVE  ClaimBacked(s)'
    <3>1. ClaimBacked(s)
      BY <2>1 DEF ClaimInv
    <3>2. CASE claimedByReq[s] = epoch
      <4>1. s \in {row.req : row \in taken}
        BY <2>2, <3>1, <3>2 DEF ClaimBacked, RowsOf
      <4>. QED
        BY <2>1, <2>2, <3>2, <4>1 DEF ClaimBacked
    <3>3. CASE claimedByReq[s] # epoch
      BY <2>1, <2>2, <3>1, <3>3 DEF ClaimBacked
    <3>. QED
      BY <3>2, <3>3
  <2>4. \A s \in Requests : pc'[s] \in Holding => pc[s] \in Holding
    BY <1>0, <2>1, <2>2
  <2>5. \A s \in Requests : pc'[s] \notin Gathering
    BY <1>0, <2>1, <2>2 DEF HolderInv, BusyMeansOneHolder, ClaimInv, Holding, Gathering
  <2>. QED
    BY <2>1, <2>3, <2>4, <2>5 DEF ClaimInv
<1>6. ASSUME NEW r \in Requests, NEW reply, PublishReply(r, reply) PROVE ClaimInv'
  <2>1. /\ UNCHANGED <<overdue, currentBatch, epoch, batchClosed, merged, pending>>
        /\ pc' = [pc EXCEPT ![r] = "returned"] /\ mine' = mine
        /\ pc[r] = "generate" /\ mine[r] = epoch
        /\ claimedByReq' = Restrict(claimedByReq,
                                    {s \in DOMAIN claimedByReq : Recent(claimedByReq[s])})
    BY <1>6 DEF PublishReply, Current, rows
  <2>2. batchClosed
    BY <2>1 DEF OrphanInv
  <2>3. \A s \in Requests : pc'[s] \in Holding \/ pc'[s] \in Gathering => pc'[s] = pc[s]
    BY <1>0, <2>1 DEF Holding, Gathering
  <2>. QED
    BY <2>1, <2>2, <2>3, ClaimFrame DEF Restrict
\* The other steps leave the rows and the batch alone.
<1>7. ASSUME NEW r \in Requests, NEW p \in PCs,
             UNCHANGED <<overdue, currentBatch, epoch, batchClosed, merged, pending, processing>>,
             pc' = [pc EXCEPT ![r] = p],
             p \in Holding => pc[r] \in Holding /\ mine'[r] = mine[r],
             p \in Gathering => pc[r] \in Gathering,
             \A s \in Requests \ {r} : mine'[s] = mine[s],
             \A s \in DOMAIN claimedByReq' :
                s \in DOMAIN claimedByReq /\ claimedByReq'[s] = claimedByReq[s]
      PROVE  ClaimInv'
  <2>1. ~processing' /\ epoch > 0 => batchClosed
    BY <1>7 DEF ClaimInv
  <2>2. \A s \in Requests : s # r => pc'[s] = pc[s]
    BY <1>0, <1>7
  <2>3. pc'[r] = p
    BY <1>0, <1>7
  <2>. QED
    BY <1>7, <2>1, <2>2, <2>3, ClaimFrame
<1>8. ASSUME UNCHANGED <<overdue, currentBatch, epoch, batchClosed, merged, pending, processing>>,
             UNCHANGED <<pc, mine, claimedByReq>>
      PROVE  ClaimInv'
  BY <1>8, ClaimFrame DEF ClaimInv
<1>9. ASSUME NEW r \in Requests, JoinedWakes(r) \/ BacklogSleepsAgain(r) PROVE ClaimInv'
  <2>1. /\ UNCHANGED <<overdue, currentBatch, epoch, batchClosed, merged, pending, processing>>
        /\ mine' = mine /\ claimedByReq' = claimedByReq
        /\ pc' = pc \/ pc' = [pc EXCEPT ![r] = "returned"]
    BY <1>9 DEF JoinedWakes, BacklogSleepsAgain, rows, batch, replies
  <2>. QED
    BY <1>7, <1>8, <2>1 DEF PCs, Holding, Gathering
<1>10. ASSUME NEW r \in Requests, BacklogReturns(r) PROVE ClaimInv'
  <2>1. /\ UNCHANGED <<overdue, currentBatch, epoch, batchClosed, merged, pending, processing>>
        /\ claimedByReq' = DropClaim(r)
        /\ pc' = [pc EXCEPT ![r] = "returned"] /\ mine' = [mine EXCEPT ![r] = claimedByReq[r]]
    BY <1>10 DEF BacklogReturns, rows, batch
  <2>. QED
    BY <1>0, <1>7, <2>1 DEF DropClaim, Restrict, PCs, Holding, Gathering
<1>11. ASSUME NEW r \in Requests,
              \/ LeaveWindow(r) \/ RestartWindow(r) \/ SimpleMessage(r) \/ SimpleMessageDone(r)
              \/ \E reply : StaleReply(r, reply)
       PROVE  ClaimInv'
  <2>1. /\ UNCHANGED <<overdue, currentBatch, epoch, batchClosed, merged, pending, processing>>
        /\ mine' = mine /\ claimedByReq' = claimedByReq
        /\ \E p \in PCs : /\ pc' = [pc EXCEPT ![r] = p]
                          /\ p \in Gathering => pc[r] \in Gathering
                          /\ p \notin Holding \ Gathering
    BY <1>11 DEF LeaveWindow, RestartWindow, InWindow, SimpleMessage, TakeSimple, SimpleMessageDone,
       StaleReply, rows, batch, replies, PCs, Gathering, Holding
  <2>. QED
    BY <1>7, <2>1 DEF Gathering, Holding
<1>12. ASSUME NEW r \in Requests, WindowExpires(r) \/ SimpleWatchdog(r) PROVE ClaimInv'
  BY <1>8, <1>12 DEF WindowExpires, SimpleWatchdog, rows, batch, replies
<1>13. ASSUME UNCHANGED vars PROVE ClaimInv'
  BY <1>8, <1>13 DEF vars, rows, batch, replies
<1>14. ~LockTimesOut /\ \A r \in Requests : ~HealAndOpen(r)
  BY DEF LockTimesOut, HealAndOpen, ClaimInv
<1>15. ~DrainFinds /\ ~DrainForces
  BY DEF DrainFinds, DrainForces, OrphanInv
<1>. QED
  BY <1>2, <1>3, <1>4, <1>5, <1>6, <1>9, <1>10, <1>11, <1>12, <1>13, <1>14, <1>15
  DEF Next, Enqueue, Wake, SetReply, Idle

LEMMA SlotStep ==
    ASSUME ~MayDrain, TypeOK, OrphanInv, SlotInv, [Next]_vars
    PROVE  SlotInv'
<1>0. /\ epoch \in Nat /\ DOMAIN replyByEpoch \subseteq Nat /\ pc \in [Requests -> PCs]
  BY DEF TypeOK
<1>1. ASSUME NEW r \in Requests, OpenIdle(r) \/ HealAndOpen(r) \/ TakeOver(r) PROVE SlotInv'
  <2>1. /\ epoch' = epoch + 1 /\ processing' /\ replyByEpoch' = replyByEpoch
        /\ simpleProcessing' = simpleProcessing /\ pc' = [pc EXCEPT ![r] = "opened"]
        /\ pc[r] \in {"new", "backlog"}
    BY <1>1 DEF OpenIdle, HealAndOpen, TakeOver, OpenBatch, simple
  <2>. QED
    BY <1>0, <2>1 DEF SlotInv
<1>2. ASSUME NEW r \in Requests, NEW reply, PublishReply(r, reply) PROVE SlotInv'
  <2>1. /\ epoch' = epoch /\ simpleProcessing' = simpleProcessing
        /\ pc' = [pc EXCEPT ![r] = "returned"] /\ pc[r] = "generate"
        /\ replyByEpoch' = [e \in {x \in DOMAIN replyByEpoch \union {epoch} : Recent(x)} |->
                               IF e = epoch THEN reply ELSE replyByEpoch[e]]
    BY <1>2 DEF PublishReply, simple
  <2>2. \A e \in DOMAIN replyByEpoch' : e \in Nat /\ e <= epoch /\ Recent(e)
    BY <1>0, <2>1 DEF SlotInv
  <2>3. \A e \in DOMAIN replyByEpoch' : e <= epoch' /\ e >= epoch' - 1
    BY <1>0, <2>1, <2>2 DEF Recent
  <2>4. simpleProcessing' => \E s \in Requests : pc'[s] = "simple"
    BY <1>0, <2>1 DEF SlotInv
  <2>. QED
    BY <2>3, <2>4 DEF SlotInv
<1>3. ASSUME NEW r \in Requests, SimpleMessage(r) \/ SimpleMessageDone(r) PROVE SlotInv'
  <2>1. UNCHANGED <<epoch, processing, replyByEpoch>>
    BY <1>3 DEF SimpleMessage, SimpleMessageDone, batch, replies
  <2>2. CASE SimpleMessageDone(r)
    BY <2>1, <2>2 DEF SimpleMessageDone, SlotInv
  <2>3. CASE SimpleMessage(r)
    <3>1. CASE pc' = [pc EXCEPT ![r] = "simple"]
      BY <1>0, <2>1, <3>1 DEF SlotInv
    <3>2. CASE pc' = [pc EXCEPT ![r] = "simpleWait"] /\ simpleProcessing' = simpleProcessing
      BY <1>0, <2>1, <2>3, <3>2 DEF SlotInv, SimpleMessage
    <3>. QED
      BY <2>3, <3>1, <3>2 DEF SimpleMessage, TakeSimple, simple
  <2>. QED
    BY <1>3, <2>2, <2>3
<1>4. ASSUME NEW r \in Requests, SimpleWatchdog(r) PROVE SlotInv'
  BY <1>4 DEF SimpleWatchdog, SlotInv, batch, replies
<1>5. ASSUME NEW r \in Requests, NEW p, pc[r] # "simple",
             UNCHANGED <<epoch, processing, replyByEpoch, simpleProcessing>>,
             pc' = [pc EXCEPT ![r] = p]
      PROVE  SlotInv'
  BY <1>0, <1>5 DEF SlotInv
<1>6. ASSUME UNCHANGED <<epoch, processing, replyByEpoch, simpleProcessing, pc>> PROVE SlotInv'
  BY <1>6 DEF SlotInv
<1>7. ASSUME NEW r \in Requests,
             \/ Join(r) \/ JoinBacklog(r) \/ JoinedWakes(r) \/ BacklogSleepsAgain(r)
             \/ BacklogReturns(r) \/ LeaveWindow(r) \/ RestartWindow(r) \/ Collect(r)
             \/ \E reply : StaleReply(r, reply)
      PROVE  SlotInv'
  <2>1. /\ UNCHANGED <<epoch, processing, replyByEpoch, simpleProcessing>>
        /\ pc' = pc \/ (pc[r] # "simple" /\ \E p : pc' = [pc EXCEPT ![r] = p])
    BY <1>7 DEF Join, JoinBacklog, JoinedWakes, BacklogSleepsAgain, BacklogReturns, LeaveWindow,
       RestartWindow, InWindow, Collect, StaleReply, batch, replies, simple
  <2>. QED
    BY <1>5, <1>6, <2>1
<1>8. ASSUME NEW r \in Requests, WindowExpires(r) PROVE SlotInv'
  BY <1>6, <1>8 DEF WindowExpires, batch, replies, simple
<1>9. ASSUME LockTimesOut \/ UNCHANGED vars PROVE SlotInv'
  BY <1>6, <1>9 DEF LockTimesOut, vars, batch, replies, simple
<1>10. ~DrainFinds /\ ~DrainForces
  BY DEF DrainFinds, DrainForces, OrphanInv
<1>. QED
  BY <1>1, <1>2, <1>3, <1>4, <1>7, <1>8, <1>9, <1>10
  DEF Next, Enqueue, Wake, SetReply, Idle

LEMMA ClaimAlways ==
    ASSUME ~MayDrain, StallsIn = {}
    PROVE  Spec => [](TypeOK /\ HolderInv /\ OrphanInv /\ ClaimInv)
<1>1. Init => ClaimInv
  BY DEF Init, ClaimInv, Holding, Gathering
<1>2. TypeOK /\ HolderInv /\ OrphanInv /\ ClaimInv /\ [Next]_vars => ClaimInv'
  BY ClaimStep
<1>. QED
  BY <1>1, <1>2, OrphanAlways, PTL DEF Spec

\* Without shutdown and without holders that outlive their lock, the claim table
\* holds claims that are backed by a row or a collected batch, and nothing but
\* two reply slots is left when everyone has returned; silent releases and lost
\* races included.
THEOREM TablesEmpty == ~MayDrain /\ StallsIn = {} => (Spec => []TablesAreClean)
<1>. SUFFICES ASSUME ~MayDrain, StallsIn = {} PROVE Spec => []TablesAreClean
  OBVIOUS
<1>1. Init => SlotInv
  BY DEF Init, SlotInv
<1>2. TypeOK /\ OrphanInv /\ SlotInv /\ [Next]_vars => SlotInv'
  BY SlotStep
<1>3. TypeOK /\ HolderInv /\ OrphanInv /\ ClaimInv /\ SlotInv => TablesAreClean
  <2>. SUFFICES ASSUME TypeOK, HolderInv, OrphanInv, ClaimInv, SlotInv PROVE TablesAreClean
    OBVIOUS
  <2>1. ASSUME NEW r \in DOMAIN claimedByReq
        PROVE  /\ pc[r] = "backlog"
               /\ \/ claimedByReq[r] \in DOMAIN merged /\ r \in merged[claimedByReq[r]]
                  \/ \E row \in pending : row.req = r /\ row.batch # 0
    <3>1. pc[r] = "backlog" /\ ClaimBacked(r) /\ \A row \in pending : row.req = r => row.batch # 0
      BY DEF OrphanInv, ClaimInv
    <3>. QED
      BY <3>1 DEF ClaimBacked
  <2>2. ASSUME \A r \in Requests : pc[r] = "returned"
        PROVE  /\ pending = {} /\ DOMAIN claimedByReq = {}
               /\ Cardinality(DOMAIN replyByEpoch) <= 2
               /\ ~processing /\ ~simpleProcessing
    <3>1. ~processing /\ ~simpleProcessing
      BY <2>2 DEF HolderInv, BusyMeansOneHolder, SlotInv, Holding
    <3>2. pending = {}
      BY <2>2, <3>1 DEF OrphanInv, NoOrphanRow, TypeOK, Row
    <3>3. DOMAIN claimedByReq = {}
      BY <2>2 DEF OrphanInv, TypeOK
    <3>4. DOMAIN replyByEpoch \subseteq {epoch - 1, epoch}
      BY <3>1 DEF SlotInv, TypeOK
    <3>5. IsFiniteSet({epoch - 1, epoch}) /\ Cardinality({epoch - 1, epoch}) = 2
      <4>1. IsFiniteSet({epoch - 1}) /\ Cardinality({epoch - 1}) = 1
        BY FS_Singleton
      <4>2. epoch \notin {epoch - 1} /\ {epoch - 1} \union {epoch} = {epoch - 1, epoch}
        BY DEF TypeOK
      <4>. QED
        BY <4>1, <4>2, FS_AddElement
    <3>6. Cardinality(DOMAIN replyByEpoch) <= 2
      BY <3>4, <3>5, FS_Subset
    <3>. QED
      BY <3>1, <3>2, <3>3, <3>6
  <2>. QED
    BY <2>1, <2>2 DEF TablesAreClean
<1>. QED
  BY <1>1, <1>2, <1>3, ClaimAlways, PTL DEF Spec

----------------------------------------------------------------------------
(* Layer 3: collected once                                                 *)

Calm == ~MayDrain /\ StallsIn = {} /\ ~MaySilent /\ ~MayOvertake

Tidy == TypeOK /\ HolderInv /\ OrphanInv /\ ClaimInv /\ SlotInv

OnceInv == PlaceInv /\ MergedInv /\ FreeInv

\* When a batch is opened every claim has been answered and dropped.
LEMMA NoClaimLeft ==
    ASSUME Calm, Tidy, OnceInv, ~processing, NobodyOvertaken
    PROVE  DOMAIN claimedByReq = {}
<1>. SUFFICES ASSUME NEW s \in DOMAIN claimedByReq PROVE FALSE
  OBVIOUS
<1>1. s \in Requests /\ pc[s] = "backlog" /\ claimedByReq[s] = epoch /\ epoch > 0
  BY DEF Tidy, TypeOK, OrphanInv, ClaimInv, OnceInv, PlaceInv
<1>2. ReplyFor(claimedByReq[s]) # NoReply
  BY <1>1 DEF OnceInv, FreeInv, ReplyFor, Slot
<1>3. ~Asleep(s)
  BY <1>1 DEF OnceInv, FreeInv
<1>. QED
  BY <1>1, <1>2, <1>3 DEF NobodyOvertaken, Claimed, Calm

\* What every step before a batch is opened may rely on.
LEMMA FreeQueue ==
    ASSUME Tidy, ~processing
    PROVE  /\ \A s \in Requests : pc[s] \notin Holding
           /\ \A row \in pending : row.batch = 0 /\ row.req \in Requests /\ pc[row.req] = "backlog"
<1>1. \A s \in Requests : pc[s] \notin Holding
  BY DEF Tidy, HolderInv, BusyMeansOneHolder, ClaimInv
<1>. QED
  BY <1>1 DEF Tidy, OrphanInv, NoOrphanRow, TypeOK, Row

\* There is one holder, and nobody beside it gathers or generates.
LEMMA OnlyHolder ==
    ASSUME Tidy, NEW r \in Requests, pc[r] \in Holding
    PROVE  /\ processing /\ mine[r] = epoch /\ epoch > 0 /\ currentBatch = epoch
           /\ \A s \in Requests : pc[s] \in Holding => s = r
           /\ r \notin DOMAIN claimedByReq
<1>1. mine[r] = epoch /\ epoch > 0 /\ currentBatch = epoch
  BY DEF Tidy, ClaimInv
<1>2. processing /\ \A s \in Requests : pc[s] \in Holding => s = r
  BY <1>1 DEF Tidy, HolderInv, BusyMeansOneHolder, ClaimInv
<1>3. r \notin DOMAIN claimedByReq
  BY DEF Tidy, OrphanInv, Holding
<1>. QED
  BY <1>1, <1>2, <1>3

LEMMA OpenFacts ==
    ASSUME Calm, Tidy, OnceInv, NEW r \in Requests, OpenIdle(r) \/ TakeOver(r)
    PROVE  /\ ~processing /\ DOMAIN claimedByReq = {}
           /\ pc[r] \in {"new", "backlog"} /\ r \notin Simple
           /\ pc' = [pc EXCEPT ![r] = "opened"] /\ mine' = [mine EXCEPT ![r] = epoch + 1]
           /\ processing' /\ ~batchClosed' /\ epoch' = epoch + 1 /\ currentBatch' = currentBatch + 1
           /\ UNCHANGED <<merged, replyByEpoch, got, sleepers>>
           /\ \E row \in pending' : row.req = r /\ row.batch = currentBatch'
           /\ \A row \in pending' : row.batch # 0 => row.req = r \/ row.req \in DOMAIN claimedByReq'
           /\ \A s \in DOMAIN claimedByReq' :
                 s \in Requests \ {r} /\ pc[s] = "backlog" /\ claimedByReq'[s] = epoch + 1
<1>1. ~processing /\ NobodyOvertaken
  BY DEF OpenIdle, TakeOver, Free
<1>2. DOMAIN claimedByReq = {}
  BY <1>1, NoClaimLeft
<1>3. \A row \in pending : row.batch = 0 /\ row.req \in Requests /\ pc[row.req] = "backlog"
  BY <1>1, FreeQueue
<1>4. \E R : OpenBatch(r, R)
  BY DEF OpenIdle, TakeOver
<1>5. /\ pc' = [pc EXCEPT ![r] = "opened"] /\ mine' = [mine EXCEPT ![r] = epoch + 1]
      /\ processing' /\ ~batchClosed' /\ epoch' = epoch + 1 /\ currentBatch' = currentBatch + 1
      /\ UNCHANGED replyByEpoch
  BY <1>4 DEF OpenBatch
<1>6. UNCHANGED <<merged, got, sleepers>> /\ pc[r] \in {"new", "backlog"}
  BY DEF OpenIdle, TakeOver
<1>7. r \notin Simple
  BY DEF OpenIdle, TakeOver, OnceInv, PlaceInv
<1>8. CASE OpenIdle(r)
  <2>1. pending' = EnsureOwnRow(r, currentBatch + 1, pending) /\ claimedByReq' = claimedByReq
    BY <1>8 DEF OpenIdle, OpenBatch, PlaceOwnRow
  <2>2. \A row \in pending' : row.batch # 0 => row.req = r
    BY <1>3, <2>1, PlacedRows
  <2>3. \E row \in pending' : row.req = r /\ row.batch = currentBatch'
    BY <1>5, <2>1, PlacedRows
  <2>. QED
    BY <1>1, <1>2, <1>5, <1>6, <1>7, <2>1, <2>2, <2>3
<1>9. CASE TakeOver(r)
  <2>1. /\ pending' = EnsureOwnRow(r, currentBatch + 1, Gathered)
        /\ claimedByReq' = [s \in DOMAIN DropClaim(r) \union OthersInBacklog(r) |->
                               IF s \in OthersInBacklog(r) THEN epoch + 1 ELSE claimedByReq[s]]
    BY <1>9 DEF TakeOver, OpenBatch, PlaceOwnRow
  <2>2. DOMAIN DropClaim(r) = {}
    BY <1>2 DEF DropClaim, Restrict
  <2>3. DOMAIN claimedByReq' = OthersInBacklog(r)
        /\ \A s \in OthersInBacklog(r) : claimedByReq'[s] = epoch + 1
    BY <2>1, <2>2
  <2>4. \A s \in OthersInBacklog(r) : s \in Requests \ {r} /\ pc[s] = "backlog"
    BY <1>3 DEF OthersInBacklog, RowsOf
  <2>5. \A row \in Gathered : row.req = r \/ row.req \in OthersInBacklog(r)
    BY <1>3, GatheredRows DEF OthersInBacklog, RowsOf
  <2>6. \A row \in pending' : row.req = r \/ row.req \in DOMAIN claimedByReq'
    BY <2>1, <2>3, <2>5, PlacedRows
  <2>7. \E row \in pending' : row.req = r /\ row.batch = currentBatch'
    BY <1>5, <2>1, PlacedRows
  <2>. QED
    BY <1>1, <1>2, <1>5, <1>6, <1>7, <2>3, <2>4, <2>6, <2>7
<1>. QED
  BY <1>8, <1>9

\* The facts about Collect and about publishing that the steps below share.
LEMMA CollectFacts ==
    ASSUME Tidy, NEW r \in Requests, Collect(r)
    PROVE  /\ pc[r] = "collect" /\ pc' = [pc EXCEPT ![r] = "generate"] /\ ~batchClosed /\ batchClosed'
           /\ UNCHANGED <<mine, got, sleepers, processing, currentBatch, epoch, replyByEpoch,
                          claimedByReq>>
           /\ processing /\ mine[r] = epoch /\ epoch > 0 /\ r \notin DOMAIN claimedByReq
           /\ pending' = pending \ RowsOf(epoch, pending)
           /\ DOMAIN merged' = DOMAIN merged \union {epoch}
           /\ merged'[epoch] = {row.req : row \in RowsOf(epoch, pending)}
           /\ \A e \in DOMAIN merged \ {epoch} : merged'[e] = merged[e]
           /\ \A row \in pending' : row.batch = 0
           /\ \A s \in Requests \ {r} : pc[s] \notin Holding
<1>1. pc[r] \in Holding /\ pc[r] \in Gathering
  BY DEF Collect, Holding, Gathering
<1>2. ~batchClosed
  BY <1>1 DEF Tidy, ClaimInv
<1>3. /\ pc[r] = "collect" /\ pc' = [pc EXCEPT ![r] = "generate"] /\ batchClosed'
      /\ UNCHANGED <<mine, got, sleepers, processing, currentBatch, epoch, replyByEpoch, claimedByReq>>
      /\ pending' = pending \ RowsOf(currentBatch, pending)
      /\ merged' = [e \in DOMAIN merged \union {mine[r]} |->
                       IF e = mine[r] THEN {row.req : row \in RowsOf(currentBatch, pending)}
                       ELSE merged[e]]
  BY DEF Collect, replies
<1>4. \A row \in pending' : row.batch = 0
  BY <1>3 DEF Tidy, OrphanInv, NoOrphanRow, RowsOf
<1>. QED
  BY <1>1, <1>2, <1>3, <1>4, OnlyHolder

LEMMA PublishFacts ==
    ASSUME Tidy, NEW r \in Requests, NEW reply, PublishReply(r, reply)
    PROVE  /\ pc[r] = "generate" /\ pc' = [pc EXCEPT ![r] = "returned"] /\ ~processing'
           /\ UNCHANGED <<mine, pending, batchClosed, currentBatch, epoch, merged>>
           /\ processing /\ mine[r] = epoch /\ epoch > 0 /\ r \notin DOMAIN claimedByReq
           /\ got' = [got EXCEPT ![r] = reply] /\ TimePasses
           /\ batchClosed /\ sleepers' = <<>>
           /\ replyByEpoch' = [e \in {x \in DOMAIN replyByEpoch \union {epoch} : Recent(x)} |->
                                  IF e = epoch THEN reply ELSE replyByEpoch[e]]
           /\ DOMAIN claimedByReq' = {s \in DOMAIN claimedByReq : Recent(claimedByReq[s])}
           /\ \A s \in DOMAIN claimedByReq' : claimedByReq'[s] = claimedByReq[s]
           /\ \A row \in pending : row.batch = 0
           /\ \A s \in Requests \ {r} : pc[s] \notin Holding
<1>1. pc[r] = "generate" /\ pc[r] \in Holding
  BY DEF PublishReply, Holding
<1>2. /\ pc' = [pc EXCEPT ![r] = "returned"] /\ ~processing'
      /\ UNCHANGED <<mine, pending, batchClosed, currentBatch, epoch, merged>>
      /\ got' = [got EXCEPT ![r] = reply] /\ TimePasses
      /\ sleepers' = <<>>
      /\ replyByEpoch' = [e \in {x \in DOMAIN replyByEpoch \union {epoch} : Recent(x)} |->
                             IF e = epoch THEN reply ELSE replyByEpoch[e]]
      /\ claimedByReq' = Restrict(claimedByReq,
                                  {s \in DOMAIN claimedByReq : Recent(claimedByReq[s])})
  BY DEF PublishReply, Broadcast, rows
<1>3. mine[r] = epoch /\ batchClosed
  BY <1>1, OnlyHolder DEF Tidy, OrphanInv
<1>4. \A row \in pending : row.batch = 0
  BY <1>3 DEF Tidy, OrphanInv, NoOrphanRow
<1>. QED
  BY <1>1, <1>2, <1>3, <1>4, OnlyHolder DEF Restrict

\* A step that moves goroutines through their windows, or through the lane of
\* simple messages, and wakes some.
Quiet ==
    /\ UNCHANGED <<pending, processing, batchClosed, currentBatch, epoch, merged, mine,
                   claimedByReq, replyByEpoch, got>>
    /\ \A s \in Requests :
          \/ pc'[s] = pc[s]
          \/ pc[s] \in Gathering /\ pc'[s] \in Gathering
          \/ /\ pc[s] \in {"simpleWait", "simple"} \/ (pc[s] = "new" /\ s \in Simple)
             /\ pc'[s] \in {"simpleWait", "simple", "returned"}
    /\ \A s \in Requests : Asleep(s)' =>
          Asleep(s) \/ pc[s] \notin {"joined", "backlog"} \/ (pc[s] = "backlog" /\ processing)

\* Without shutdown and stalls nobody heals, times out or comes back late.
LEMMA CalmSteps ==
    ASSUME Calm, Tidy, [Next]_vars
    PROVE  \/ \E r \in Requests : OpenIdle(r) \/ TakeOver(r)
           \/ \E r \in Requests : Join(r) \/ JoinBacklog(r)
           \/ \E r \in Requests : Collect(r)
           \/ \E r \in Requests : PublishReply(r, mine[r])
           \/ \E r \in Requests : JoinedWakes(r)
           \/ \E r \in Requests : BacklogReturns(r)
           \/ Quiet
<1>0. pc \in [Requests -> PCs] /\ TypeOK
  BY DEF Tidy, TypeOK
<1>1. ASSUME NEW r \in Requests, LeaveWindow(r) \/ RestartWindow(r) PROVE Quiet
  <2>1. /\ pc[r] \in Gathering /\ \E p \in Gathering : pc' = [pc EXCEPT ![r] = p]
        /\ sleepers' = sleepers \/ sleepers' = Append(sleepers, r)
        /\ UNCHANGED <<pending, processing, batchClosed, currentBatch, epoch, merged, mine,
                       claimedByReq, replyByEpoch, got>>
    BY <1>1 DEF LeaveWindow, RestartWindow, InWindow, Sleep, Gathering, rows, batch, replies
  <2>2. \A s \in Requests : Asleep(s)' => Asleep(s) \/ s = r
    <3>1. CASE sleepers' = sleepers
      BY <3>1 DEF Asleep
    <3>2. CASE sleepers' = Append(sleepers, r)
      BY <1>0, <3>2, SleepersMove DEF Asleep
    <3>. QED
      BY <2>1, <3>1, <3>2
  <2>. QED
    BY <1>0, <2>1, <2>2 DEF Quiet, Gathering
<1>2. ASSUME NEW r \in Requests, BacklogSleepsAgain(r) PROVE Quiet
  <2>1. /\ pc[r] = "backlog" /\ processing
        /\ sleepers' = Append(sleepers, r)
        /\ UNCHANGED <<pc, pending, processing, batchClosed, currentBatch, epoch, merged, mine,
                       claimedByReq, replyByEpoch, got>>
    BY <1>2 DEF BacklogSleepsAgain, Free, Sleep, rows, batch, replies
  <2>2. \A s \in Requests : Asleep(s)' => Asleep(s) \/ s = r
    BY <1>0, <2>1, SleepersMove DEF Asleep
  <2>. QED
    BY <1>0, <2>1, <2>2 DEF Quiet
<1>3. ASSUME NEW r \in Requests, WindowExpires(r) \/ SimpleWatchdog(r) PROVE Quiet
  <2>1. /\ sleepers' = <<>>
        /\ UNCHANGED <<pc, pending, processing, batchClosed, currentBatch, epoch, merged, mine,
                       claimedByReq, replyByEpoch, got>>
    BY <1>3 DEF WindowExpires, SimpleWatchdog, Broadcast, rows, batch, replies
  <2>. QED
    BY <1>0, <2>1, SleepersMove DEF Quiet, Asleep
<1>4. ASSUME NEW r \in Requests, SimpleMessage(r) PROVE Quiet
  <2>1. /\ pc[r] = "simpleWait" \/ (pc[r] = "new" /\ r \in Simple)
        /\ \E p \in {"simpleWait", "simple"} : pc' = [pc EXCEPT ![r] = p]
        /\ sleepers' = sleepers \/ sleepers' = Append(sleepers, r)
        /\ UNCHANGED <<pending, processing, batchClosed, currentBatch, epoch, merged, mine,
                       claimedByReq, replyByEpoch, got>>
    BY <1>4 DEF SimpleMessage, TakeSimple, Sleep, rows, batch, replies
  <2>2. \A s \in Requests : Asleep(s)' => Asleep(s) \/ s = r
    <3>1. CASE sleepers' = sleepers
      BY <3>1 DEF Asleep
    <3>2. CASE sleepers' = Append(sleepers, r)
      BY <1>0, <3>2, SleepersMove DEF Asleep
    <3>. QED
      BY <2>1, <3>1, <3>2
  <2>3. pc[r] \notin {"joined", "backlog"}
    BY <2>1
  <2>4. \A s \in Requests : s # r => pc'[s] = pc[s]
    BY <1>0, <2>1
  <2>5. pc'[r] \in {"simpleWait", "simple", "returned"}
    BY <1>0, <2>1
  <2>. QED
    BY <2>1, <2>2, <2>3, <2>4, <2>5 DEF Quiet
<1>5. ASSUME NEW r \in Requests, SimpleMessageDone(r) PROVE Quiet
  <2>1. /\ pc[r] = "simple" /\ pc' = [pc EXCEPT ![r] = "returned"]
        /\ sleepers' = Signalled
        /\ UNCHANGED <<pending, processing, batchClosed, currentBatch, epoch, merged, mine,
                       claimedByReq, replyByEpoch, got>>
    BY <1>5 DEF SimpleMessageDone, rows, batch, replies
  <2>. QED
    BY <1>0, <2>1, SleepersMove DEF Quiet, Asleep
<1>6. ASSUME UNCHANGED vars PROVE Quiet
  BY <1>6 DEF Quiet, Asleep, vars, rows, batch, replies
<1>7. ASSUME NEW r \in Requests, SetReply(r) PROVE PublishReply(r, mine[r])
  <2>1. PublishReply(r, mine[r]) \/ StaleReply(r, mine[r])
    BY <1>7 DEF SetReply, Calm
  <2>2. ASSUME StaleReply(r, mine[r]) PROVE FALSE
    <3>1. pc[r] \in Holding /\ ~Current(r)
      BY <2>2 DEF StaleReply, Holding
    <3>. QED
      BY <3>1, OnlyHolder DEF Current
  <2>. QED
    BY <2>1, <2>2
<1>8. ~LockTimesOut /\ \A r \in Requests : ~HealAndOpen(r)
  BY DEF LockTimesOut, HealAndOpen, Calm, Tidy, ClaimInv
<1>9. ~DrainFinds /\ ~DrainForces
  BY DEF DrainFinds, DrainForces, Calm, Tidy, OrphanInv
<1>. QED
  BY <1>1, <1>2, <1>3, <1>4, <1>5, <1>6, <1>7, <1>8, <1>9 DEF Next, Enqueue, Wake, Idle


\* Every step keeps the rows and the claims in place, collects nothing twice and
\* leaves nobody asleep beside a free queue.
LEMMA OnceStep ==
    ASSUME Calm, Tidy, OnceInv, [Next]_vars
    PROVE  OnceInv'
<1>0. /\ pc \in [Requests -> PCs] /\ mine \in [Requests -> Nat] /\ epoch \in Nat
      /\ DOMAIN claimedByReq \subseteq Requests /\ DOMAIN merged \subseteq Nat
      /\ \A e \in DOMAIN merged : merged[e] \subseteq Requests
      /\ \A row \in pending : row.req \in Requests
      /\ TypeOK /\ Simple \subseteq Requests
  BY SimpleAreRequests DEF Tidy, TypeOK, Row
<1>1. ASSUME NEW r \in Requests, OpenIdle(r) \/ TakeOver(r) PROVE OnceInv'
  <2>1. /\ ~processing /\ DOMAIN claimedByReq = {}
        /\ pc[r] \in {"new", "backlog"} /\ r \notin Simple
        /\ pc' = [pc EXCEPT ![r] = "opened"] /\ mine' = [mine EXCEPT ![r] = epoch + 1]
        /\ processing' /\ ~batchClosed' /\ epoch' = epoch + 1 /\ currentBatch' = currentBatch + 1
        /\ UNCHANGED <<merged, replyByEpoch, got, sleepers>>
        /\ \E row \in pending' : row.req = r /\ row.batch = currentBatch'
        /\ \A row \in pending' : row.batch # 0 => row.req = r \/ row.req \in DOMAIN claimedByReq'
        /\ \A s \in DOMAIN claimedByReq' :
              s \in Requests \ {r} /\ pc[s] = "backlog" /\ claimedByReq'[s] = epoch + 1
    BY <1>1, OpenFacts
  <2>2. \A s \in Requests : pc[s] \notin Holding
    BY <2>1, FreeQueue
  <2>3. PlaceInv'
    <3>1. \A row \in pending' : row.batch # 0 => InOpenBatch(row.req)'
      BY <1>0, <2>1 DEF InOpenBatch, Claimed, Gathering
    <3>2. \A s \in Requests : pc'[s] \in Gathering => s = r
      BY <1>0, <2>1, <2>2 DEF Gathering, Holding
    <3>. QED
      BY <1>0, <2>1, <3>1, <3>2 DEF OnceInv, PlaceInv
  <2>4. MergedInv'
    <3>1. \A e \in DOMAIN merged' : e <= epoch' /\ e # epoch'
      BY <1>0, <2>1 DEF OnceInv, MergedInv
    <3>2. ASSUME NEW e \in DOMAIN merged', NEW s \in merged'[e]
          PROVE  Collected(s)' /\ BatchOf(s)' = e
      <4>1. s \in Requests /\ Collected(s) /\ BatchOf(s) = e /\ s \notin DOMAIN claimedByReq
        BY <1>0, <2>1 DEF OnceInv, MergedInv
      <4>2. s # r /\ s \notin DOMAIN claimedByReq'
        BY <2>1, <4>1 DEF Collected, Claimed
      <4>. QED
        BY <1>0, <2>1, <4>1, <4>2 DEF Collected, BatchOf, Claimed
    <3>3. \A s \in Requests : pc'[s] # "generate"
      BY <1>0, <2>1, <2>2 DEF Holding
    <3>. QED
      BY <3>1, <3>2, <3>3 DEF MergedInv
  <2>5. FreeInv'
    <3>1. epoch' \notin DOMAIN replyByEpoch'
      BY <1>0, <2>1 DEF Tidy, SlotInv
    <3>. QED
      BY <2>1, <3>1 DEF FreeInv
  <2>. QED
    BY <2>3, <2>4, <2>5 DEF OnceInv
<1>2. ASSUME NEW r \in Requests, Join(r) \/ JoinBacklog(r) PROVE OnceInv'
  <2>1. /\ pc[r] = "new" /\ r \notin Simple /\ processing
        /\ UNCHANGED <<processing, batchClosed, currentBatch, epoch, claimedByReq, merged,
                       replyByEpoch>>
        /\ \/ /\ pc' = [pc EXCEPT ![r] = "joined"] /\ mine' = [mine EXCEPT ![r] = epoch]
              /\ ~batchClosed /\ pending' = EnsureOwnRow(r, currentBatch, pending)
           \/ /\ pc' = [pc EXCEPT ![r] = "backlog"] /\ mine' = mine
              /\ pending' = EnsureOwnRow(r, 0, pending)
    BY <1>2 DEF Join, JoinBacklog, HasRoom, PlaceOwnRow, batch, replies
  <2>2. r \notin DOMAIN claimedByReq /\ ~Collected(r)
    BY <2>1 DEF Tidy, OrphanInv, Collected, Claimed
  <2>3. PlaceInv'
    <3>1. ASSUME NEW row \in pending', row.batch # 0 PROVE InOpenBatch(row.req)'
      <4>1. CASE row.req = r
        <5>1. pc' = [pc EXCEPT ![r] = "joined"] /\ mine' = [mine EXCEPT ![r] = epoch]
          BY <2>1, <3>1, <4>1, PlacedRows
        <5>. QED
          BY <1>0, <2>1, <4>1, <5>1 DEF InOpenBatch
      <4>2. CASE row.req # r
        <5>1. row \in pending
          BY <2>1, <4>2, PlacedRows
        <5>2. InOpenBatch(row.req)
          BY <3>1, <5>1 DEF OnceInv, PlaceInv
        <5>. QED
          BY <1>0, <2>1, <4>2, <5>1, <5>2 DEF InOpenBatch, Claimed
      <4>. QED
        BY <4>1, <4>2
    <3>2. \A s \in Requests : pc'[s] \in Gathering =>
             \E row \in pending' : row.req = s /\ row.batch = currentBatch'
      <4>1. \A s \in Requests : pc'[s] \in Gathering => s # r /\ pc[s] \in Gathering
        BY <1>0, <2>1 DEF Gathering
      <4>2. \A row \in pending : row.req # r => row \in pending'
        BY <2>1, PlacedRows
      <4>. QED
        BY <2>1, <4>1, <4>2 DEF OnceInv, PlaceInv
    <3>3. \A s \in Simple : pc'[s] = pc[s]
      BY <1>0, <2>1
    <3>. QED
      BY <2>1, <3>1, <3>2, <3>3 DEF OnceInv, PlaceInv
  <2>4. MergedInv'
    <3>1. ASSUME NEW e \in DOMAIN merged', NEW s \in merged'[e]
          PROVE  Collected(s)' /\ BatchOf(s)' = e
      <4>1. s \in Requests /\ Collected(s) /\ BatchOf(s) = e /\ s # r
        BY <1>0, <2>1, <2>2 DEF OnceInv, MergedInv
      <4>. QED
        BY <1>0, <2>1, <4>1 DEF Collected, BatchOf, Claimed
    <3>2. \A s \in Requests : pc'[s] = "generate" => pc[s] = "generate"
      BY <1>0, <2>1
    <3>. QED
      BY <2>1, <3>1, <3>2 DEF OnceInv, MergedInv
  <2>5. FreeInv'
    BY <2>1 DEF OnceInv, FreeInv
  <2>. QED
    BY <2>3, <2>4, <2>5 DEF OnceInv
<1>3. ASSUME NEW r \in Requests, Collect(r) PROVE OnceInv'
  <2>1. /\ pc[r] = "collect" /\ pc' = [pc EXCEPT ![r] = "generate"] /\ ~batchClosed /\ batchClosed'
        /\ UNCHANGED <<mine, got, sleepers, processing, currentBatch, epoch, replyByEpoch,
                       claimedByReq>>
        /\ processing /\ mine[r] = epoch /\ epoch > 0 /\ r \notin DOMAIN claimedByReq
        /\ pending' = pending \ RowsOf(epoch, pending)
        /\ DOMAIN merged' = DOMAIN merged \union {epoch}
        /\ merged'[epoch] = {row.req : row \in RowsOf(epoch, pending)}
        /\ \A e \in DOMAIN merged \ {epoch} : merged'[e] = merged[e]
        /\ \A row \in pending' : row.batch = 0
        /\ \A s \in Requests \ {r} : pc[s] \notin Holding
    BY <1>3, CollectFacts DEF Tidy
  <2>2. epoch \notin DOMAIN merged
    BY <2>1 DEF OnceInv, MergedInv
  <2>3. \A s \in Simple : pc[s] # "collect"
    BY DEF OnceInv, PlaceInv
  <2>4. PlaceInv'
    <3>1. \A s \in Requests : pc'[s] \notin Gathering
      BY <1>0, <2>1 DEF Gathering, Holding
    <3>2. \A s \in Simple : pc'[s] = pc[s]
      BY <1>0, <2>1, <2>3
    <3>. QED
      BY <2>1, <3>1, <3>2 DEF OnceInv, PlaceInv
  <2>5. ASSUME NEW s \in merged'[epoch] PROVE Collected(s)' /\ BatchOf(s)' = epoch
    <3>1. PICK row \in pending : row.req = s /\ row.batch = epoch
      BY <2>1 DEF RowsOf
    <3>2. InOpenBatch(s) /\ s \in Requests
      BY <1>0, <2>1, <3>1 DEF OnceInv, PlaceInv
    <3>3. pc[s] \in Gathering => s = r
      BY <2>1, <3>2 DEF Gathering, Holding
    <3>4. pc[s] \in Gathering => s \notin DOMAIN claimedByReq
      BY DEF Tidy, OrphanInv, Gathering
    <3>5. pc[s] = "joined" => s \notin DOMAIN claimedByReq
      BY DEF Tidy, OrphanInv
    <3>6. CASE s = r
      BY <1>0, <2>1, <3>6 DEF Collected, BatchOf, Claimed
    <3>7. CASE s # r
      BY <1>0, <2>1, <3>2, <3>3, <3>5, <3>7 DEF Collected, BatchOf, InOpenBatch, Claimed
    <3>. QED
      BY <3>6, <3>7
  <2>6. ASSUME NEW e \in DOMAIN merged, NEW s \in merged[e]
        PROVE  Collected(s)' /\ BatchOf(s)' = e
    <3>1. Collected(s) /\ BatchOf(s) = e /\ s \in Requests
      BY <1>0 DEF OnceInv, MergedInv
    <3>2. s # r
      BY <2>1, <3>1 DEF Collected, Claimed
    <3>. QED
      BY <1>0, <2>1, <3>1, <3>2 DEF Collected, BatchOf, Claimed
  <2>7. MergedInv'
    <3>1. \A e \in DOMAIN merged' : e <= epoch'
      BY <1>0, <2>1 DEF OnceInv, MergedInv
    <3>2. \A e \in DOMAIN merged' : \A s \in merged'[e] : Collected(s)' /\ BatchOf(s)' = e
      BY <2>1, <2>2, <2>5, <2>6
    <3>3. r \in merged'[epoch]
      BY <2>1 DEF OnceInv, PlaceInv, Gathering, RowsOf, Tidy, ClaimInv
    <3>4. \A s \in Requests : pc'[s] = "generate" => s = r
      BY <1>0, <2>1 DEF Holding
    <3>. QED
      BY <2>1, <3>1, <3>2, <3>3, <3>4 DEF MergedInv
  <2>8. FreeInv'
    BY <2>1 DEF OnceInv, FreeInv
  <2>. QED
    BY <2>4, <2>7, <2>8 DEF OnceInv
<1>4. ASSUME NEW r \in Requests, PublishReply(r, mine[r]) PROVE OnceInv'
  <2>1. /\ pc[r] = "generate" /\ pc' = [pc EXCEPT ![r] = "returned"] /\ ~processing'
        /\ UNCHANGED <<mine, pending, batchClosed, currentBatch, epoch, merged>>
        /\ processing /\ mine[r] = epoch /\ epoch > 0 /\ r \notin DOMAIN claimedByReq
        /\ batchClosed /\ sleepers' = <<>>
        /\ replyByEpoch' = [e \in {x \in DOMAIN replyByEpoch \union {epoch} : Recent(x)} |->
                               IF e = epoch THEN mine[r] ELSE replyByEpoch[e]]
        /\ DOMAIN claimedByReq' = {s \in DOMAIN claimedByReq : Recent(claimedByReq[s])}
        /\ \A s \in DOMAIN claimedByReq' : claimedByReq'[s] = claimedByReq[s]
        /\ \A row \in pending : row.batch = 0
        /\ \A s \in Requests \ {r} : pc[s] \notin Holding
    BY <1>4, PublishFacts DEF Tidy
  <2>2. Recent(epoch)
    BY <1>0 DEF Recent
  <2>3. DOMAIN claimedByReq' = DOMAIN claimedByReq
    BY <2>1, <2>2 DEF OnceInv, PlaceInv
  <2>4. PlaceInv'
    <3>1. \A s \in Requests : pc'[s] \notin Gathering
      BY <1>0, <2>1 DEF Gathering, Holding
    <3>2. \A s \in Simple : pc'[s] = pc[s]
      BY <1>0, <2>1 DEF OnceInv, PlaceInv
    <3>. QED
      BY <2>1, <2>3, <3>1, <3>2 DEF OnceInv, PlaceInv
  <2>5. MergedInv'
    <3>1. ASSUME NEW e \in DOMAIN merged', NEW s \in merged'[e]
          PROVE  Collected(s)' /\ BatchOf(s)' = e
      <4>1. s \in Requests /\ Collected(s) /\ BatchOf(s) = e
        BY <1>0, <2>1 DEF OnceInv, MergedInv
      <4>. QED
        BY <1>0, <2>1, <2>3, <4>1 DEF Collected, BatchOf, Claimed
    <3>2. \A s \in Requests : pc'[s] # "generate"
      BY <1>0, <2>1 DEF Holding
    <3>. QED
      BY <2>1, <3>1, <3>2 DEF OnceInv, MergedInv
  <2>6. FreeInv'
    <3>1. epoch' \in DOMAIN replyByEpoch' /\ replyByEpoch'[epoch'] = epoch
      BY <2>1, <2>2
    <3>2. \A s \in Requests : ~Asleep(s)'
      BY <1>0, <2>1, SleepersMove DEF Asleep
    <3>. QED
      BY <1>0, <2>1, <3>1, <3>2 DEF FreeInv
  <2>. QED
    BY <2>4, <2>5, <2>6 DEF OnceInv
<1>5. ASSUME NEW r \in Requests, JoinedWakes(r) PROVE OnceInv'
  <2>1. /\ pc[r] = "joined"
        /\ UNCHANGED <<mine, pending, processing, batchClosed, currentBatch, epoch, merged,
                       claimedByReq, replyByEpoch>>
        /\ \/ pc' = pc /\ processing
           \/ /\ pc' = [pc EXCEPT ![r] = "returned"] /\ sleepers' = sleepers
              /\ ~(processing /\ Slot(mine[r]) = NoReply /\ epoch = mine[r])
    BY <1>5, Zenon DEF JoinedWakes, rows, batch, replies
  <2>2. CASE pc' = pc /\ processing
    BY <2>1, <2>2 DEF OnceInv, PlaceInv, MergedInv, FreeInv, InOpenBatch, Collected, BatchOf, Claimed
  <2>3. CASE /\ pc' = [pc EXCEPT ![r] = "returned"] /\ sleepers' = sleepers
             /\ ~(processing /\ Slot(mine[r]) = NoReply /\ epoch = mine[r])
    <3>1. r \notin DOMAIN claimedByReq
      BY <2>1 DEF Tidy, OrphanInv
    <3>2. ASSUME NEW row \in pending, row.req = r PROVE row.batch = 0
      <4>1. SUFFICES ASSUME row.batch # 0 PROVE FALSE
        OBVIOUS
      <4>2. processing
        BY <4>1 DEF Tidy, OrphanInv, NoOrphanRow
      <4>3. mine[r] = epoch
        BY <2>1, <3>1, <3>2, <4>1 DEF OnceInv, PlaceInv, InOpenBatch, Claimed, Gathering
      <4>4. Slot(epoch) = NoReply
        BY <4>2 DEF OnceInv, FreeInv, Slot
      <4>. QED
        BY <2>3, <4>2, <4>3, <4>4
    <3>3. PlaceInv'
      <4>1. \A row \in pending' : row.batch # 0 => InOpenBatch(row.req)'
        BY <1>0, <2>1, <2>3, <3>2 DEF OnceInv, PlaceInv, InOpenBatch, Claimed
      <4>2. \A s \in Requests : pc'[s] \in Gathering => pc[s] \in Gathering
        BY <1>0, <2>3 DEF Gathering
      <4>3. \A s \in Simple : pc'[s] = pc[s]
        BY <1>0, <2>1, <2>3 DEF OnceInv, PlaceInv
      <4>. QED
        BY <2>1, <4>1, <4>2, <4>3 DEF OnceInv, PlaceInv
    <3>4. MergedInv'
      <4>1. \A s \in Requests : Collected(s) => Collected(s)' /\ BatchOf(s)' = BatchOf(s)
        BY <1>0, <2>1, <2>3 DEF Collected, BatchOf, Claimed
      <4>2. \A s \in Requests : pc'[s] = "generate" => pc[s] = "generate"
        BY <1>0, <2>3
      <4>. QED
        BY <1>0, <2>1, <4>1, <4>2 DEF OnceInv, MergedInv
    <3>5. FreeInv'
      BY <1>0, <2>1, <2>3 DEF OnceInv, FreeInv, Asleep
    <3>. QED
      BY <3>3, <3>4, <3>5 DEF OnceInv
  <2>. QED
    BY <2>1, <2>2, <2>3
<1>6. ASSUME NEW r \in Requests, BacklogReturns(r) PROVE OnceInv'
  <2>1. /\ pc[r] = "backlog" /\ ~processing /\ r \in DOMAIN claimedByReq
        /\ pc' = [pc EXCEPT ![r] = "returned"] /\ mine' = [mine EXCEPT ![r] = claimedByReq[r]]
        /\ UNCHANGED <<pending, processing, batchClosed, currentBatch, epoch, merged, replyByEpoch,
                       sleepers>>
        /\ claimedByReq' = DropClaim(r)
    BY <1>6, Zenon DEF BacklogReturns, Claimed, Free, rows, batch
  <2>2. /\ DOMAIN claimedByReq' = DOMAIN claimedByReq \ {r}
        /\ \A s \in DOMAIN claimedByReq' : claimedByReq'[s] = claimedByReq[s]
    BY <2>1 DEF DropClaim, Restrict
  <2>3. (\A row \in pending : row.batch = 0) /\ \A s \in Requests : pc[s] \notin Holding
    BY <2>1, FreeQueue
  <2>4. PlaceInv'
    <3>1. \A s \in Requests : pc'[s] \notin Gathering
      BY <1>0, <2>1, <2>3 DEF Gathering, Holding
    <3>2. \A s \in Simple : pc'[s] = pc[s]
      BY <1>0, <2>1 DEF OnceInv, PlaceInv
    <3>. QED
      BY <2>1, <2>2, <2>3, <3>1, <3>2 DEF OnceInv, PlaceInv
  <2>5. MergedInv'
    <3>1. \A s \in Requests : Collected(s) => Collected(s)' /\ BatchOf(s)' = BatchOf(s)
      BY <1>0, <2>1, <2>2 DEF Collected, BatchOf, Claimed
    <3>2. \A s \in Requests : pc'[s] # "generate"
      BY <1>0, <2>1, <2>3 DEF Holding
    <3>. QED
      BY <1>0, <2>1, <3>1, <3>2 DEF OnceInv, MergedInv
  <2>6. FreeInv'
    BY <1>0, <2>1 DEF OnceInv, FreeInv, Asleep
  <2>. QED
    BY <2>4, <2>5, <2>6 DEF OnceInv
<1>7. CASE Quiet
  <2>1. /\ UNCHANGED <<pending, processing, batchClosed, currentBatch, epoch, merged, mine,
                       claimedByReq, replyByEpoch>>
        /\ \A s \in Requests :
              \/ pc'[s] = pc[s]
              \/ pc[s] \in Gathering /\ pc'[s] \in Gathering
              \/ /\ pc[s] \in {"new", "simpleWait", "simple"}
                 /\ pc'[s] \in {"simpleWait", "simple", "returned"}
        /\ \A s \in Requests : Asleep(s)' =>
              Asleep(s) \/ pc[s] \notin {"joined", "backlog"} \/ (pc[s] = "backlog" /\ processing)
    BY <1>7 DEF Quiet
  <2>2. \A s \in DOMAIN claimedByReq : pc[s] = "backlog"
    BY DEF Tidy, OrphanInv
  <2>3. \A s \in Requests : InOpenBatch(s) => InOpenBatch(s)'
    BY <2>1, <2>2 DEF InOpenBatch, Claimed, Gathering
  <2>4. PlaceInv'
    <3>1. \A s \in Requests : pc'[s] \in Gathering => pc[s] \in Gathering
      BY <2>1 DEF Gathering
    <3>2. \A s \in Simple : pc'[s] \in {"new", "simpleWait", "simple", "returned"}
      BY <1>0, <2>1 DEF OnceInv, PlaceInv, Gathering
    <3>. QED
      BY <1>0, <2>1, <2>3, <3>1, <3>2 DEF OnceInv, PlaceInv
  <2>5. MergedInv'
    <3>1. \A s \in Requests : Collected(s) => Collected(s)' /\ BatchOf(s)' = BatchOf(s)
      BY <1>0, <2>1, <2>2 DEF Collected, BatchOf, Claimed, Gathering
    <3>2. \A s \in Requests : pc'[s] = "generate" => pc[s] = "generate"
      BY <2>1 DEF Gathering
    <3>. QED
      BY <1>0, <2>1, <3>1, <3>2 DEF OnceInv, MergedInv
  <2>6. FreeInv'
    <3>1. \A s \in Requests : pc'[s] = "backlog" => pc[s] = "backlog"
      BY <2>1 DEF Gathering
    <3>. QED
      BY <2>1, <3>1 DEF OnceInv, FreeInv
  <2>. QED
    BY <2>4, <2>5, <2>6 DEF OnceInv
<1>. QED
  BY <1>1, <1>2, <1>3, <1>4, <1>5, <1>6, <1>7, CalmSteps

LEMMA OnceAlways ==
    ASSUME Calm
    PROVE  Spec => [](Tidy /\ OnceInv)
<1>1. Init => SlotInv /\ OnceInv
  BY SimpleAreRequests DEF Init, SlotInv, OnceInv, PlaceInv, MergedInv, FreeInv, Gathering
<1>2. TypeOK /\ OrphanInv /\ SlotInv /\ [Next]_vars => SlotInv'
  BY SlotStep DEF Calm
<1>3. Tidy /\ OnceInv /\ [Next]_vars => OnceInv'
  BY OnceStep
<1>4. Spec => [](TypeOK /\ HolderInv /\ OrphanInv /\ ClaimInv)
  BY ClaimAlways DEF Calm
<1>5. TypeOK /\ HolderInv /\ OrphanInv /\ ClaimInv /\ SlotInv <=> Tidy
  BY DEF Tidy
<1>. QED
  BY <1>1, <1>2, <1>3, <1>4, <1>5, PTL DEF Spec

\* Without shutdown, stalls, silent releases and lost races for the mutex, no
\* message is merged into two batches.
THEOREM CollectedOnce == Calm => (Spec => []MergedAtMostOnce)
<1>. SUFFICES ASSUME Calm PROVE Spec => []MergedAtMostOnce
  OBVIOUS
<1>1. Tidy /\ OnceInv => MergedAtMostOnce
  BY DEF OnceInv, MergedInv, MergedAtMostOnce
<1>. QED
  BY <1>1, OnceAlways, PTL


----------------------------------------------------------------------------
(* The queue implements BatchedAnswers                                     *)

AbstractStatus == [r \in Requests \ Simple |-> Status(r)]

\* A status depends on the arrival of the message, on what was collected and on
\* who still holds.
LEMMA StatusFrame ==
    ASSUME merged' = merged, \A e \in DOMAIN merged : Published(e)' <=> Published(e),
           NEW r, pc'[r] = "new" <=> pc[r] = "new"
    PROVE  Status(r)' = Status(r)
  BY DEF Status

LEMMA AnswersStep ==
    ASSUME Calm, Tidy, OnceInv, [Next]_vars
    PROVE  Answers!Next \/ AbstractStatus' = AbstractStatus
<1>0. /\ pc \in [Requests -> PCs] /\ mine \in [Requests -> Nat] /\ epoch \in Nat
      /\ \A e \in DOMAIN merged : merged[e] \subseteq Requests
      /\ \A row \in pending : row.req \in Requests
  BY DEF Tidy, TypeOK, Row
<1>a. SUFFICES ASSUME TRUE PROVE Answers!Next \/ \A m \in Requests \ Simple : Status(m)' = Status(m)
  BY DEF AbstractStatus
\* A message that is new becomes a waiting one.
<1>1. ASSUME NEW r \in Requests \ Simple, pc[r] = "new", pc'[r] # "new", merged' = merged,
             \A e \in DOMAIN merged : Published(e)' <=> Published(e),
             \A s \in Requests \ {r} : pc'[s] = pc[s]
      PROVE  Answers!Next
  <2>1. \A m \in (Requests \ Simple) \ {r} : Status(m)' = Status(m)
    BY <1>1, StatusFrame
  <2>2. \A e \in DOMAIN merged : r \notin merged[e]
    BY <1>1 DEF OnceInv, MergedInv, Collected, Claimed, Tidy, OrphanInv
  <2>3. Status(r) = "absent" /\ Status(r)' = "waiting"
    BY <1>1, <2>2 DEF Status
  <2>4. Answers!Arrive(r)
    BY <2>1, <2>3 DEF Answers!Arrive
  <2>. QED
    BY <2>4 DEF Answers!Next
<1>2. ASSUME NEW r \in Requests, OpenIdle(r) \/ TakeOver(r)
      PROVE  Answers!Next \/ \A m \in Requests \ Simple : Status(m)' = Status(m)
  <2>1. /\ ~processing /\ pc[r] \in {"new", "backlog"} /\ r \notin Simple /\ merged' = merged
        /\ pc' = [pc EXCEPT ![r] = "opened"] /\ mine' = [mine EXCEPT ![r] = epoch + 1]
    BY <1>2, OpenFacts
  <2>2. \A s \in Requests : pc[s] \notin Holding
    BY <2>1, FreeQueue
  <2>3. \A e \in DOMAIN merged : e # epoch + 1
    BY <1>0 DEF OnceInv, MergedInv, Tidy, TypeOK
  <2>4. \A e \in DOMAIN merged : Published(e)' <=> Published(e)
    BY <1>0, <2>1, <2>2, <2>3 DEF Published
  <2>5. \A s \in Requests \ {r} : pc'[s] = pc[s]
    BY <1>0, <2>1
  <2>6. pc'[r] = "opened"
    BY <1>0, <2>1
  <2>. QED
    BY <1>1, <2>1, <2>4, <2>5, <2>6, StatusFrame
<1>3. ASSUME NEW r \in Requests, Join(r) \/ JoinBacklog(r) PROVE Answers!Next
  <2>1. /\ pc[r] = "new" /\ r \notin Simple /\ merged' = merged
        /\ \E p \in {"joined", "backlog"} : pc' = [pc EXCEPT ![r] = p]
        /\ \A s \in Requests \ {r} : mine'[s] = mine[s]
    BY <1>0, <1>3 DEF Join, JoinBacklog
  <2>2. \A e \in DOMAIN merged : Published(e)' <=> Published(e)
    BY <1>0, <2>1 DEF Published, Holding
  <2>3. pc'[r] # "new" /\ \A s \in Requests \ {r} : pc'[s] = pc[s]
    BY <1>0, <2>1
  <2>. QED
    BY <1>1, <2>1, <2>2, <2>3
<1>4. ASSUME NEW r \in Requests, Collect(r) PROVE Answers!Next
  <2>. DEFINE S == {row.req : row \in RowsOf(epoch, pending)}
  <2>1. /\ pc[r] = "collect" /\ pc' = [pc EXCEPT ![r] = "generate"] /\ ~batchClosed
        /\ mine' = mine /\ epoch' = epoch /\ mine[r] = epoch
        /\ DOMAIN merged' = DOMAIN merged \union {epoch}
        /\ merged'[epoch] = S
        /\ \A e \in DOMAIN merged \ {epoch} : merged'[e] = merged[e]
    BY <1>4, CollectFacts DEF Tidy
  <2>2. epoch \notin DOMAIN merged
    BY <2>1 DEF OnceInv, MergedInv
  <2>3. \A s \in Requests : pc[s] \in Holding => mine[s] = epoch
    BY DEF Tidy, ClaimInv
  <2>4. r \in S
    BY <2>1 DEF OnceInv, PlaceInv, Gathering, RowsOf, Tidy, ClaimInv
  <2>5. ASSUME NEW m \in S
        PROVE  m \in Requests \ Simple /\ pc[m] # "new" /\ \A e \in DOMAIN merged : m \notin merged[e]
    <3>1. PICK row \in pending : row.req = m /\ row.batch = epoch
      BY DEF RowsOf
    <3>2. epoch > 0 /\ m \in Requests
      BY <1>0, <1>4, <3>1, CollectFacts
    <3>3. InOpenBatch(m)
      BY <1>0, <3>1, <3>2 DEF OnceInv, PlaceInv
    <3>4. Claimed(m) => pc[m] = "backlog"
      BY DEF Claimed, Tidy, OrphanInv
    <3>5. pc[m] \in Gathering \union {"joined", "backlog"}
      BY <3>3, <3>4 DEF InOpenBatch
    <3>6. m \notin Simple /\ pc[m] # "new"
      BY <3>5 DEF OnceInv, PlaceInv, Gathering
    <3>7. \A e \in DOMAIN merged : m \notin merged[e]
      BY <2>2, <3>3, <3>4 DEF OnceInv, MergedInv, InOpenBatch, Collected, BatchOf, Gathering
    <3>. QED
      BY <3>2, <3>6, <3>7
  <2>6. \A e \in DOMAIN merged : Published(e)
    BY <2>2, <2>3 DEF Published
  <2>7. \A m \in S : Status(m) = "waiting"
    BY <2>5 DEF Status
  <2>8. \A m \in Requests \ Simple : Status(m) # "taken"
    BY <2>6 DEF Status
  <2>9. \A e \in DOMAIN merged : Published(e)' /\ merged'[e] = merged[e]
    BY <1>0, <2>1, <2>2, <2>3 DEF Published
  <2>10. ~Published(epoch)'
    BY <1>0, <2>1 DEF Published, Holding
  <2>11. \A s \in Requests : pc'[s] = "new" <=> pc[s] = "new"
    BY <1>0, <2>1
  <2>. HIDE DEF S
  <2>12. \A m \in S : Status(m)' = "taken"
    BY <2>1, <2>5, <2>9, <2>10, <2>11 DEF Status
  <2>13. ASSUME NEW m \in Requests \ Simple, m \notin S PROVE Status(m)' = Status(m)
    <3>1. (\E e \in DOMAIN merged' : m \in merged'[e]) <=> (\E e \in DOMAIN merged : m \in merged[e])
      BY <2>1, <2>9, <2>13
    <3>2. (\E e \in DOMAIN merged' : m \in merged'[e] /\ Published(e)')
             <=> (\E e \in DOMAIN merged : m \in merged[e] /\ Published(e))
      BY <2>1, <2>6, <2>9, <2>13
    <3>. QED
      BY <2>11, <3>1, <3>2 DEF Status
  <2>14. S \in SUBSET (Requests \ Simple)
    BY <2>5
  <2>15. Answers!Take(S)
    BY <2>4, <2>5, <2>7, <2>8, <2>12, <2>13 DEF Answers!Take
  <2>. QED
    BY <2>14, <2>15 DEF Answers!Next
<1>5. ASSUME NEW r \in Requests, PublishReply(r, mine[r]) PROVE Answers!Next
  <2>1. /\ pc[r] = "generate" /\ pc' = [pc EXCEPT ![r] = "returned"]
        /\ UNCHANGED <<mine, merged>> /\ mine[r] = epoch
        /\ \A s \in Requests \ {r} : pc[s] \notin Holding
    BY <1>5, PublishFacts DEF Tidy
  <2>2. \A e \in DOMAIN merged : Published(e)'
    BY <1>0, <2>1 DEF Published, Holding
  <2>3. \A e \in DOMAIN merged : e # epoch => Published(e)
    BY <2>1 DEF Published
  <2>4. ~Published(epoch)
    BY <2>1 DEF Published, Holding
  <2>5. \A s \in Requests : pc'[s] = "new" <=> pc[s] = "new"
    BY <1>0, <2>1
  <2>6. \A m \in Requests \ Simple : \A e, f \in DOMAIN merged :
           m \in merged[e] /\ m \in merged[f] => e = f
    BY DEF OnceInv, MergedInv
  <2>7. \A m \in Requests \ Simple :
           Status(m)' = IF Status(m) = "taken" THEN "answered" ELSE Status(m)
    BY <2>1, <2>2, <2>3, <2>4, <2>5 DEF Status
  <2>8. r \notin Simple /\ epoch \in DOMAIN merged /\ r \in merged[epoch]
    BY <2>1 DEF OnceInv, PlaceInv, MergedInv
  <2>9. Status(r) = "taken"
    BY <2>1, <2>4, <2>6, <2>8 DEF Status
  <2>10. Answers!Answer
    BY <2>7, <2>8, <2>9 DEF Answers!Answer
  <2>. QED
    BY <2>10 DEF Answers!Next
<1>6. ASSUME NEW r \in Requests, JoinedWakes(r) \/ BacklogReturns(r), NEW m \in Requests \ Simple
      PROVE  Status(m)' = Status(m)
  <2>1. /\ pc[r] \in {"joined", "backlog"} /\ merged' = merged
        /\ pc' = pc \/ pc' = [pc EXCEPT ![r] = "returned"]
        /\ \A s \in Requests \ {r} : mine'[s] = mine[s]
    BY <1>0, <1>6 DEF JoinedWakes, BacklogReturns
  <2>2. \A e \in DOMAIN merged : Published(e)' <=> Published(e)
    BY <1>0, <2>1 DEF Published, Holding
  <2>3. pc'[m] = "new" <=> pc[m] = "new"
    BY <1>0, <2>1
  <2>. QED
    BY <2>1, <2>2, <2>3, StatusFrame
<1>7. ASSUME Quiet, NEW m \in Requests \ Simple
      PROVE  Status(m)' = Status(m)
  <2>1. merged' = merged /\ mine' = mine
    BY <1>7 DEF Quiet
  <2>2. \A s \in Requests : pc'[s] \in Holding <=> pc[s] \in Holding
    BY <1>7 DEF Quiet, Gathering, Holding
  <2>3. \A e \in DOMAIN merged : Published(e)' <=> Published(e)
    BY <2>1, <2>2 DEF Published
  <2>4. pc'[m] = "new" <=> pc[m] = "new"
    BY <1>7 DEF Quiet, Gathering
  <2>. QED
    BY <2>1, <2>3, <2>4, StatusFrame
<1>. QED
  BY <1>2, <1>3, <1>4, <1>5, <1>6, <1>7, CalmSteps

\* Under the same conditions the queue implements BatchedAnswers: messages wait,
\* one batch at a time is taken, the taken batch is answered as a whole before
\* the next is taken, and nothing is taken twice.
THEOREM BatchesAnswers == Calm => (Spec => ImplementsAnswers)
<1>. SUFFICES ASSUME Calm PROVE Spec => ImplementsAnswers
  OBVIOUS
<1>1. Init => Answers!Init
  BY SimpleAreRequests DEF Init, Answers!Init, Status
<1>2. Tidy /\ OnceInv /\ [Next]_vars =>
         [Answers!Next]_[r \in Requests \ Simple |-> Status(r)]
  BY AnswersStep DEF AbstractStatus
<1>. QED
  BY <1>1, <1>2, OnceAlways, PTL DEF Spec, ImplementsAnswers, Answers!Spec


----------------------------------------------------------------------------
(* Layer 4: the reply that is returned covers the message                  *)

LEMMA ReplyStep ==
    ASSUME Calm, PromptWakeups, Tidy, OnceInv, JoinedInv, ReplyInv, [Next]_vars
    PROVE  JoinedInv' /\ ReplyInv'
<1>0. /\ pc \in [Requests -> PCs] /\ mine \in [Requests -> Nat] /\ epoch \in Nat
      /\ got \in [Requests -> Nat] /\ TypeOK
      /\ \A e \in DOMAIN merged : merged[e] \subseteq Requests
  BY DEF Tidy, TypeOK
<1>1. ASSUME NEW r \in Requests, OpenIdle(r) \/ TakeOver(r) PROVE JoinedInv' /\ ReplyInv'
  <2>1. /\ ~processing /\ pc' = [pc EXCEPT ![r] = "opened"] /\ mine' = [mine EXCEPT ![r] = epoch + 1]
        /\ epoch' = epoch + 1 /\ UNCHANGED <<merged, replyByEpoch, got, sleepers>>
    BY <1>1, OpenFacts
  <2>2. ASSUME NEW s \in Requests, pc'[s] = "joined"
        PROVE  /\ mine'[s] > 0 /\ mine'[s] \in DOMAIN replyByEpoch' /\ ~Asleep(s)'
               /\ mine'[s] # epoch' /\ mine'[s] \in DOMAIN merged' /\ s \in merged'[mine'[s]]
    <3>1. s # r /\ pc[s] = "joined" /\ mine'[s] = mine[s]
      BY <1>0, <2>1, <2>2
    <3>2. mine[s] > 0 /\ mine[s] \in DOMAIN replyByEpoch /\ ~Asleep(s)
      BY <2>1, <3>1 DEF JoinedInv
    <3>3. mine[s] = epoch => batchClosed
      BY <1>0, <2>1, <3>2 DEF Tidy, ClaimInv
    <3>4. mine[s] \in DOMAIN merged /\ s \in merged[mine[s]]
      BY <3>1, <3>3 DEF JoinedInv
    <3>5. mine[s] <= epoch
      BY <3>4 DEF OnceInv, MergedInv
    <3>. QED
      BY <1>0, <2>1, <3>1, <3>2, <3>4, <3>5 DEF Asleep
  <2>3. JoinedInv'
    BY <2>2 DEF JoinedInv
  <2>. QED
    BY <2>1, <2>3 DEF ReplyInv
<1>2. ASSUME NEW r \in Requests, Join(r) \/ JoinBacklog(r) PROVE JoinedInv' /\ ReplyInv'
  <2>1. /\ pc[r] = "new" /\ processing
        /\ UNCHANGED <<processing, batchClosed, currentBatch, epoch, merged, replyByEpoch, got>>
        /\ sleepers' = Append(Signalled, r) \/ sleepers' = Append(sleepers, r)
        /\ \/ /\ pc' = [pc EXCEPT ![r] = "joined"] /\ mine' = [mine EXCEPT ![r] = epoch]
              /\ ~batchClosed /\ pending' = EnsureOwnRow(r, currentBatch, pending)
           \/ /\ pc' = [pc EXCEPT ![r] = "backlog"] /\ mine' = mine
              /\ pending' = EnsureOwnRow(r, 0, pending)
    BY <1>2 DEF Join, JoinBacklog, HasRoom, Sleep, PlaceOwnRow, batch, replies
  <2>2. epoch > 0
    BY <1>0, <2>1 DEF Tidy, HolderInv, BusyMeansOneHolder, ClaimInv
  <2>3. \A s \in Requests \ {r} : Asleep(s)' => Asleep(s)
    <3>1. CASE sleepers' = Append(Signalled, r)
      BY <1>0, <3>1, SleepersMove DEF Asleep
    <3>2. CASE sleepers' = Append(sleepers, r)
      BY <1>0, <3>2, SleepersMove DEF Asleep
    <3>. QED
      BY <2>1, <3>1, <3>2
  <2>4. \A row \in pending : row.req # r => row \in pending'
    BY <2>1, PlacedRows
  <2>5. ASSUME NEW s \in Requests, pc'[s] = "joined"
        PROVE  /\ mine'[s] > 0
               /\ mine'[s] \in DOMAIN replyByEpoch' \/ (mine'[s] = epoch' /\ processing')
               /\ Asleep(s)' => mine'[s] = epoch' /\ processing'
               /\ IF mine'[s] = epoch' /\ ~batchClosed'
                  THEN \E row \in pending' : row.req = s /\ row.batch = currentBatch'
                  ELSE mine'[s] \in DOMAIN merged' /\ s \in merged'[mine'[s]]
    <3>1. CASE s = r
      <4>1. mine'[r] = epoch /\ ~batchClosed /\ pending' = EnsureOwnRow(r, currentBatch, pending)
        BY <1>0, <2>1, <2>5, <3>1
      <4>. QED
        BY <2>1, <2>2, <3>1, <4>1, PlacedRows
    <3>2. CASE s # r
      <4>1. pc[s] = "joined" /\ mine'[s] = mine[s]
        BY <1>0, <2>1, <2>5, <3>2
      <4>. QED
        BY <2>1, <2>3, <2>4, <3>2, <4>1 DEF JoinedInv
    <3>. QED
      BY <3>1, <3>2
  <2>6. JoinedInv'
    BY <2>5 DEF JoinedInv
  <2>. QED
    BY <2>1, <2>6 DEF ReplyInv
<1>3. ASSUME NEW r \in Requests, Collect(r) PROVE JoinedInv' /\ ReplyInv'
  <2>1. /\ pc' = [pc EXCEPT ![r] = "generate"] /\ ~batchClosed /\ batchClosed'
        /\ UNCHANGED <<mine, got, sleepers, processing, epoch, replyByEpoch>>
        /\ DOMAIN merged' = DOMAIN merged \union {epoch}
        /\ merged'[epoch] = {row.req : row \in RowsOf(epoch, pending)}
        /\ \A e \in DOMAIN merged \ {epoch} : merged'[e] = merged[e]
    BY <1>3, CollectFacts DEF Tidy
  <2>2. epoch \notin DOMAIN merged /\ currentBatch = epoch
    BY <2>1 DEF OnceInv, MergedInv, Tidy, ClaimInv
  <2>3. JoinedInv'
    <3>1. ASSUME NEW s \in Requests, pc'[s] = "joined"
          PROVE  mine[s] \in DOMAIN merged' /\ s \in merged'[mine[s]] /\ pc[s] = "joined"
      <4>1. pc[s] = "joined"
        BY <1>0, <2>1, <3>1
      <4>2. CASE mine[s] = epoch
        BY <2>1, <2>2, <4>1, <4>2 DEF JoinedInv, RowsOf
      <4>3. CASE mine[s] # epoch
        BY <2>1, <2>2, <4>1, <4>3 DEF JoinedInv
      <4>. QED
        BY <4>1, <4>2, <4>3
    <3>. QED
      BY <2>1, <3>1 DEF JoinedInv, Asleep
  <2>4. ReplyInv'
    BY <2>1, <2>2 DEF ReplyInv
  <2>. QED
    BY <2>3, <2>4
<1>4. ASSUME NEW r \in Requests, PublishReply(r, mine[r]) PROVE JoinedInv' /\ ReplyInv'
  <2>1. /\ pc[r] = "generate" /\ pc' = [pc EXCEPT ![r] = "returned"]
        /\ UNCHANGED <<mine, pending, batchClosed, currentBatch, epoch, merged>>
        /\ mine[r] = epoch /\ epoch > 0 /\ batchClosed /\ sleepers' = <<>>
        /\ got' = [got EXCEPT ![r] = mine[r]] /\ TimePasses
        /\ replyByEpoch' = [e \in {x \in DOMAIN replyByEpoch \union {epoch} : Recent(x)} |->
                               IF e = epoch THEN mine[r] ELSE replyByEpoch[e]]
    BY <1>4, PublishFacts DEF Tidy
  <2>2. epoch \in DOMAIN replyByEpoch'
    BY <1>0, <2>1 DEF Recent
  <2>3. JoinedInv'
    <3>1. ASSUME NEW s \in Requests, pc'[s] = "joined" PROVE pc[s] = "joined" /\ mine[s] = epoch
      <4>1. pc[s] = "joined"
        BY <1>0, <2>1, <3>1
      <4>2. Asleep(s)
        BY <2>1, <4>1 DEF TimePasses, Runnable, Waiting
      <4>. QED
        BY <4>1, <4>2 DEF JoinedInv
    <3>2. \A s \in Requests : ~Asleep(s)'
      BY <1>0, <2>1, SleepersMove DEF Asleep
    <3>. QED
      BY <2>1, <2>2, <3>1, <3>2 DEF JoinedInv
  <2>4. ReplyInv'
    <3>1. epoch \in DOMAIN merged /\ r \in merged[epoch]
      BY <2>1 DEF OnceInv, MergedInv
    <3>2. \A e \in DOMAIN replyByEpoch' : replyByEpoch'[e] = e
      BY <2>1 DEF ReplyInv
    <3>3. \A s \in Requests : got'[s] # NoReply => got'[s] \in DOMAIN merged /\ s \in merged[got'[s]]
      BY <1>0, <2>1, <3>1 DEF ReplyInv
    <3>. QED
      BY <2>1, <3>2, <3>3 DEF ReplyInv
  <2>. QED
    BY <2>3, <2>4
\* The last four kinds of step leave the rows, the batch and the slots alone.
<1>5. ASSUME UNCHANGED <<pending, processing, batchClosed, currentBatch, epoch, merged, replyByEpoch>>,
             \A s \in Requests : pc'[s] = "joined" =>
                pc[s] = "joined" /\ mine'[s] = mine[s]
                /\ (Asleep(s)' => Asleep(s) \/ (mine[s] = epoch /\ processing))
      PROVE  JoinedInv'
  BY <1>5 DEF JoinedInv
<1>6. ASSUME NEW r \in Requests, JoinedWakes(r) PROVE JoinedInv' /\ ReplyInv'
  <2>1. /\ pc[r] = "joined"
        /\ UNCHANGED <<mine, pending, processing, batchClosed, currentBatch, epoch, merged, replyByEpoch>>
        /\ \/ /\ processing /\ epoch = mine[r] /\ sleepers' = Append(sleepers, r)
              /\ UNCHANGED <<pc, got>>
           \/ /\ pc' = [pc EXCEPT ![r] = "returned"] /\ sleepers' = sleepers
              /\ ~(processing /\ Slot(mine[r]) = NoReply /\ epoch = mine[r])
              /\ got' = [got EXCEPT ![r] = ReplyFor(mine[r])]
    BY <1>6, Zenon DEF JoinedWakes, Sleep, rows, batch, replies
  <2>2. CASE /\ processing /\ epoch = mine[r] /\ sleepers' = Append(sleepers, r)
             /\ UNCHANGED <<pc, got>>
    <3>1. \A s \in Requests : Asleep(s)' => Asleep(s) \/ s = r
      BY <1>0, <2>2, SleepersMove DEF Asleep
    <3>2. JoinedInv'
      BY <1>5, <2>1, <2>2, <3>1
    <3>. QED
      BY <2>1, <2>2, <3>2 DEF ReplyInv
  <2>3. CASE /\ pc' = [pc EXCEPT ![r] = "returned"] /\ sleepers' = sleepers
             /\ ~(processing /\ Slot(mine[r]) = NoReply /\ epoch = mine[r])
             /\ got' = [got EXCEPT ![r] = ReplyFor(mine[r])]
    <3>1. \A s \in Requests : pc'[s] = "joined" => pc[s] = "joined"
      BY <1>0, <2>3
    <3>2. JoinedInv'
      BY <1>5, <2>1, <2>3, <3>1 DEF Asleep
    <3>3. mine[r] \in DOMAIN replyByEpoch
      <4>1. processing => epoch \notin DOMAIN replyByEpoch
        BY DEF OnceInv, FreeInv
      <4>. QED
        BY <2>1, <2>3, <4>1 DEF JoinedInv, Slot
    <3>4. mine[r] > 0 /\ ReplyFor(mine[r]) = mine[r]
      BY <1>0, <2>1, <3>3 DEF JoinedInv, ReplyInv, ReplyFor, Slot
    <3>5. mine[r] = epoch => batchClosed
      BY <1>0, <3>3, <3>4 DEF OnceInv, FreeInv, Tidy, ClaimInv
    <3>6. mine[r] \in DOMAIN merged /\ r \in merged[mine[r]]
      BY <2>1, <3>5 DEF JoinedInv
    <3>7. ReplyInv'
      BY <1>0, <2>1, <2>3, <3>4, <3>6 DEF ReplyInv
    <3>. QED
      BY <3>2, <3>7
  <2>. QED
    BY <2>1, <2>2, <2>3
<1>7. ASSUME NEW r \in Requests, BacklogReturns(r) PROVE JoinedInv' /\ ReplyInv'
  <2>1. /\ pc[r] = "backlog" /\ ~processing /\ r \in DOMAIN claimedByReq
        /\ pc' = [pc EXCEPT ![r] = "returned"] /\ mine' = [mine EXCEPT ![r] = claimedByReq[r]]
        /\ got' = [got EXCEPT ![r] = ReplyFor(claimedByReq[r])]
        /\ UNCHANGED <<pending, processing, batchClosed, currentBatch, epoch, merged, replyByEpoch,
                       sleepers>>
    BY <1>7, Zenon DEF BacklogReturns, Claimed, Free, rows, batch
  <2>2. \A s \in Requests : pc'[s] = "joined" => pc[s] = "joined" /\ mine'[s] = mine[s]
    BY <1>0, <2>1
  <2>3. JoinedInv'
    BY <1>5, <2>1, <2>2 DEF Asleep
  <2>4. claimedByReq[r] = epoch /\ epoch > 0 /\ batchClosed
    BY <2>1 DEF OnceInv, PlaceInv, Tidy, ClaimInv
  <2>5. ReplyFor(epoch) = epoch
    BY <2>1, <2>4 DEF OnceInv, FreeInv, ReplyInv, ReplyFor, Slot
  <2>6. epoch \in DOMAIN merged /\ r \in merged[epoch]
    BY <2>1, <2>4 DEF Tidy, ClaimInv, ClaimBacked
  <2>7. ReplyInv'
    BY <1>0, <2>1, <2>4, <2>5, <2>6 DEF ReplyInv
  <2>. QED
    BY <2>3, <2>7
<1>8. CASE Quiet
  <2>1. JoinedInv'
    BY <1>5, <1>8 DEF Quiet, Gathering
  <2>2. ReplyInv'
    BY <1>8 DEF Quiet, ReplyInv
  <2>. QED
    BY <2>1, <2>2
<1>. QED
  BY <1>1, <1>2, <1>3, <1>4, <1>6, <1>7, <1>8, CalmSteps

\* When a reply takes longer than it takes a woken goroutine to run, whoever
\* returns with a reply returns with the one generated for the batch that
\* collected its own message.
THEOREM RightReply == Calm /\ PromptWakeups => (Spec => []ReplyCoversMessage)
<1>. SUFFICES ASSUME Calm, PromptWakeups PROVE Spec => []ReplyCoversMessage
  OBVIOUS
<1>1. Init => JoinedInv /\ ReplyInv
  BY DEF Init, JoinedInv, ReplyInv
<1>2. Tidy /\ OnceInv /\ JoinedInv /\ ReplyInv /\ [Next]_vars => JoinedInv' /\ ReplyInv'
  BY ReplyStep
<1>3. ReplyInv => ReplyCoversMessage
  BY DEF ReplyInv, ReplyCoversMessage
<1>. QED
  BY <1>1, <1>2, <1>3, OnceAlways, PTL DEF Spec

=============================================================================
