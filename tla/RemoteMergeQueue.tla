-------------------------- MODULE RemoteMergeQueue --------------------------
(***************************************************************************)
(* The merge queue of one customer when Redis is on: several processes     *)
(* share a lock, a list of messages handed over and the published replies  *)
(* (internal/service/message_queue.go), and the workers of one channel     *)
(* deliver each reply (internal/channel/inbound.go).                       *)
(*                                                                         *)
(* Every action is one call to Redis, or one critical section of the local *)
(* queue.  Whoever gets the lock opens a batch in its own process; while   *)
(* the lock is held by a live process, every other request is handed over  *)
(* through the list, so the local queue never has a second row: its joined *)
(* and backlog branches are those of MergeQueue.  A batch is named by the  *)
(* request that opened it.                                                 *)
(***************************************************************************)
EXTENDS Naturals, SequencesExt

CONSTANTS
    Requests,     \* the inbound messages of this customer, contents distinct
    Instances,    \* the server processes
    Home,         \* the process each request came to
    Workers,      \* the requests that are workers of the channel (others: web)
    MaxMerge,     \* ReplySpeed.MaxMergeMessages
    MayCrash,     \* one process may die, once
    MaySweep,     \* SweepIdleQueues may run, once
    MayExitText,  \* one batch of a worker may be routed to a human: the exit text
    SlowPolls     \* two Redis calls of one goroutine may be far apart in time

ASSUME HomesAreInstances == Home \in [Requests -> Instances]
ASSUME WorkersAreRequests == Workers \subseteq Requests
ASSUME MaxMergePositive == MaxMerge \in Nat \ {0}

VARIABLES
    \* the goroutines
    pc,         \* where each request stands
    cur,        \* curSeq: the last sequence number before it was handed over
    hand,       \* what its last DrainList returned
    mine,       \* the epoch of the batch it opened, or read with its reply, or 0
    got,        \* the batch whose reply it has, or NoBatch
    mySeq,      \* the sequence number it publishes, or read, under
    \* the processes
    epoch,      \* q.epoch of the local queue
    trouble,    \* the once-only events that have happened: "crash", "sweep", and
                \* the batch that was routed to a human
    \* Redis
    lock,       \* mq:lock: the request that holds it, or NoBatch
    list,       \* mq:pending
    seq,        \* mq:seq
    lastseq,    \* mq:lastseq
    reply,      \* mq:reply, by sequence number
    repEpoch,   \* mq:replepoch, by sequence number
    claims,     \* mq:deliver, by epoch
    \* history
    merged,     \* what each batch collected, in order
    delivered   \* how often the reply of each batch went out on the channel

local == <<cur, hand, mine, got, mySeq>>
store == <<lock, list, seq, lastseq, reply, repEpoch, claims>>
vars  == <<pc, local, epoch, trouble, store, merged, delivered>>

NoBatch == "none"

----------------------------------------------------------------------------
(* Time.  A window, a generation and the expiry of a lock take seconds, a  *)
(* poll comes every 300 ms: seconds pass only when nobody is between two   *)
(* calls to Redis and every poll would change nothing.                     *)

\* A newer reply is there, whoever it is for.
NewReply(r) == lastseq > cur[r] /\ lastseq <= Len(reply) /\ reply[lastseq] # NoBatch

\* Mutant: the first new reply is taken.
MutStillPending(r) == FALSE
\* ownMessageStillPending
StillPending(r) == r \in ToSet(list)

AtRest(r) ==
    \/ pc[r] \in {"new", "window", "generate", "sendExit", "returned", "dead"}
    \/ pc[r] = "polling" /\ lock # NoBatch /\ (NewReply(r) => StillPending(r))

TimePasses == SlowPolls \/ \A r \in Requests : AtRest(r)

Goes(r, p) == pc' = [pc EXCEPT ![r] = p]

Init ==
    /\ pc = [r \in Requests |-> "new"]
    /\ cur = [r \in Requests |-> 0] /\ mySeq = [r \in Requests |-> 0]
    /\ hand = [r \in Requests |-> <<>>]
    /\ mine = [r \in Requests |-> 0]
    /\ got = [r \in Requests |-> NoBatch]
    /\ epoch = [i \in Instances |-> 0]
    /\ trouble = {}
    /\ lock = NoBatch /\ list = <<>>
    /\ seq = 0 /\ lastseq = 0
    /\ reply = <<>> /\ repEpoch = [n \in {} |-> 0]
    /\ claims = {}
    /\ merged = [r \in Requests |-> <<>>]
    /\ delivered = [r \in Requests |-> 0]

----------------------------------------------------------------------------
(* EnqueueAndWait and openFreshBatchLocked                                 *)

OpenBatch(r) ==
    /\ epoch' = [epoch EXCEPT ![Home[r]] = @ + 1]
    /\ mine' = [mine EXCEPT ![r] = epoch[Home[r]] + 1]
    /\ Goes(r, "window")

\* Mutant: a key that is already set is overwritten.
MutSetNX == TRUE
\* TryLock: SetNX succeeds only on a free lock.
SetNX == lock = NoBatch

\* The lock is free: r takes it and opens a batch in its process.
TakeLock(r) ==
    /\ pc[r] = "new"
    /\ SetNX
    /\ lock' = r
    /\ OpenBatch(r)
    /\ UNCHANGED <<cur, hand, got, mySeq, trouble, list, seq, lastseq, reply, repEpoch, claims,
                   merged, delivered>>

\* The lock is held: r will be handed over.
LockHeld(r) ==
    /\ pc[r] = "new"
    /\ ~SetNX
    /\ Goes(r, "handover")
    /\ UNCHANGED <<local, epoch, trouble, store, merged, delivered>>

----------------------------------------------------------------------------
(* waitRemotely                                                            *)

ReadSeq(r) ==
    /\ pc[r] = "handover"
    /\ cur' = [cur EXCEPT ![r] = lastseq]
    /\ Goes(r, "push")
    /\ UNCHANGED <<hand, mine, got, mySeq, epoch, trouble, store, merged, delivered>>

PushOwn(r) ==
    /\ pc[r] = "push"
    /\ list' = Append(list, r)
    /\ Goes(r, "polling")
    /\ UNCHANGED <<local, epoch, trouble, lock, seq, lastseq, reply, repEpoch, claims, merged, delivered>>

PollSeq(r) ==
    /\ pc[r] = "polling"
    /\ IF lastseq > cur[r]
       THEN mySeq' = [mySeq EXCEPT ![r] = lastseq] /\ Goes(r, "readReply")
       ELSE UNCHANGED mySeq /\ Goes(r, "checkLock")
    /\ UNCHANGED <<cur, hand, mine, got, epoch, trouble, store, merged, delivered>>

\* The reply of that number, once it is there.
ReadReply(r) ==
    /\ pc[r] = "readReply"
    /\ IF reply[mySeq[r]] # NoBatch
       THEN got' = [got EXCEPT ![r] = reply[mySeq[r]]] /\ Goes(r, "readEpoch")
       ELSE UNCHANGED got /\ Goes(r, "checkLock")
    /\ UNCHANGED <<cur, hand, mine, mySeq, epoch, trouble, store, merged, delivered>>

\* The epoch published with that reply; a missing key reads as 0.
ReadEpoch(r) ==
    /\ pc[r] = "readEpoch"
    /\ mine' = [mine EXCEPT ![r] = IF mySeq[r] \in DOMAIN repEpoch THEN repEpoch[mySeq[r]] ELSE 0]
    /\ Goes(r, "checkList")
    /\ UNCHANGED <<cur, hand, got, mySeq, epoch, trouble, store, merged, delivered>>

\* Mutant: a reply that is not taken skips the check of the lock ("continue").
MutCheckList(r) ==
    /\ pc[r] = "checkList"
    /\ IF StillPending(r)
       THEN Goes(r, "polling") /\ got' = [got EXCEPT ![r] = NoBatch]
       ELSE Goes(r, "claim") /\ UNCHANGED got
    /\ UNCHANGED <<cur, hand, mine, mySeq, epoch, trouble, store, merged, delivered>>

\* shouldConsumeRemoteReply: the reply is taken unless the own message still waits.
CheckList(r) ==
    /\ pc[r] = "checkList"
    /\ IF StillPending(r)
       THEN Goes(r, "checkLock") /\ got' = [got EXCEPT ![r] = NoBatch]
       ELSE Goes(r, "claim") /\ UNCHANGED got
    /\ UNCHANGED <<cur, hand, mine, mySeq, epoch, trouble, store, merged, delivered>>

CheckLock(r) ==
    /\ pc[r] = "checkLock"
    /\ Goes(r, IF lock = NoBatch THEN "grab" ELSE "polling")
    /\ UNCHANGED <<local, epoch, trouble, store, merged, delivered>>

\* TryLock for the takeover; who loses waits on.
Grab(r) ==
    /\ pc[r] = "grab"
    /\ IF SetNX
       THEN lock' = r /\ Goes(r, "drain")
       ELSE UNCHANGED lock /\ Goes(r, "polling")
    /\ UNCHANGED <<local, epoch, trouble, list, seq, lastseq, reply, repEpoch, claims, merged, delivered>>

\* absorbRemotePending, first half: DrainList.
Drain(r, p) ==
    /\ hand' = [hand EXCEPT ![r] = list]
    /\ list' = <<>>
    /\ Goes(r, p)
    /\ UNCHANGED <<cur, mine, got, mySeq, epoch, trouble, lock, seq, lastseq, reply, repEpoch,
                   claims, merged, delivered>>

TakeoverDrain(r) == pc[r] = "drain" /\ Drain(r, "putBack")

\* Mutant: what was drained is forgotten.
MutOthersDrained(r) == <<>>
\* The first row that is the own message is kept here.
OthersDrained(r) == RemoveFirst(hand[r], r)

\* No batch runs here yet: r keeps its own message, the others go back to the
\* list, and r opens its batch.
TakeoverOpen(r) ==
    /\ pc[r] = "putBack"
    /\ list' = list \o OthersDrained(r)
    /\ hand' = [hand EXCEPT ![r] = <<>>]
    /\ OpenBatch(r)
    /\ UNCHANGED <<cur, got, mySeq, trouble, lock, seq, lastseq, reply, repEpoch, claims,
                   merged, delivered>>

----------------------------------------------------------------------------
(* waitForMerge: the window ends, the list is absorbed, the batch closes   *)

WindowEnds(r) == pc[r] = "window" /\ TimePasses /\ Drain(r, "absorb")

Room == MaxMerge - 1

\* Those that fit beside the row of r join the batch, the rest goes back.
Collect(r) ==
    /\ pc[r] = "absorb"
    /\ LET fit == IF Len(hand[r]) < Room THEN Len(hand[r]) ELSE Room
       IN /\ merged' = [merged EXCEPT ![r] = <<r>> \o SubSeq(hand[r], 1, fit)]
          /\ list' = list \o SubSeq(hand[r], fit + 1, Len(hand[r]))
    /\ hand' = [hand EXCEPT ![r] = <<>>]
    /\ Goes(r, "generate")
    /\ UNCHANGED <<cur, mine, got, mySeq, epoch, trouble, lock, seq, lastseq, reply, repEpoch,
                   claims, delivered>>

----------------------------------------------------------------------------
(* The holder generates, claims the delivery, publishes and delivers       *)

\* The answer of a web request: nothing goes out on the channel.
AnswerWeb(r) ==
    /\ pc[r] = "generate" /\ TimePasses
    /\ r \notin Workers
    /\ Goes(r, "release")
    /\ UNCHANGED <<local, epoch, trouble, store, merged, delivered>>

\* A worker routed to a human (or to the fish pond) answers with a fixed text and
\* claims nothing: the text goes out after the release.
RouteToHuman(r) ==
    /\ pc[r] = "generate" /\ TimePasses
    /\ r \in Workers /\ MayExitText /\ trouble \cap Requests = {}
    /\ trouble' = trouble \union {r}
    /\ Goes(r, "release")
    /\ UNCHANGED <<local, epoch, store, merged, delivered>>

\* Mutant: the claim is for the customer and the channel only.
MutClaimKey(e) == 1
\* The key mq:deliver of a batch, by its epoch in the process that ran it.
ClaimKey(e) == e

\* Mutant: the claim is made and not looked at.
MutMayDeliver(e) == TRUE
\* ClaimReplyDelivery: epoch 0 may always deliver, otherwise the first to claim.
MayDeliver(e) == e = 0 \/ ClaimKey(e) \notin claims

\* A worker claims before it releases; it delivers if it got the claim.
ClaimAndAnswer(r) ==
    /\ pc[r] = "generate" /\ TimePasses
    /\ r \in Workers
    /\ claims' = claims \union {ClaimKey(mine[r])}
    /\ delivered' = [delivered EXCEPT ![r] = @ + IF MayDeliver(mine[r]) THEN 1 ELSE 0]
    /\ Goes(r, "release")
    /\ UNCHANGED <<local, epoch, trouble, lock, list, seq, lastseq, reply, repEpoch, merged>>

\* Incr
NextSeq == seq + 1

\* Mutant: the lock goes first, then the reply is published.
MutRelease(r) ==
    /\ pc[r] = "release"
    /\ seq' = NextSeq
    /\ mySeq' = [mySeq EXCEPT ![r] = NextSeq]
    /\ reply' = Append(reply, NoBatch)
    /\ got' = [got EXCEPT ![r] = r]
    /\ lock' = NoBatch
    /\ Goes(r, "publishSeq")
    /\ UNCHANGED <<cur, hand, mine, epoch, trouble, list, lastseq, repEpoch, claims,
                   merged, delivered>>

\* SetReply: the local queue is freed, the next sequence number drawn.
Release(r) ==
    /\ pc[r] = "release"
    /\ seq' = NextSeq
    /\ mySeq' = [mySeq EXCEPT ![r] = NextSeq]
    /\ reply' = Append(reply, NoBatch)
    /\ got' = [got EXCEPT ![r] = r]
    /\ Goes(r, "publishSeq")
    /\ UNCHANGED <<cur, hand, mine, epoch, trouble, lock, list, lastseq, repEpoch, claims,
                   merged, delivered>>

PublishSeq(r) ==
    /\ pc[r] = "publishSeq"
    /\ lastseq' = mySeq[r]
    /\ Goes(r, "publishReply")
    /\ UNCHANGED <<local, epoch, trouble, lock, list, seq, reply, repEpoch, claims, merged, delivered>>

PublishReply(r) ==
    /\ pc[r] = "publishReply"
    /\ reply' = [reply EXCEPT ![mySeq[r]] = r]
    /\ Goes(r, "publishEpoch")
    /\ UNCHANGED <<local, epoch, trouble, lock, list, seq, lastseq, repEpoch, claims, merged, delivered>>

PublishEpoch(r) ==
    /\ pc[r] = "publishEpoch"
    /\ repEpoch' = [n \in DOMAIN repEpoch \union {mySeq[r]} |->
                       IF n = mySeq[r] THEN mine[r] ELSE repEpoch[n]]
    /\ Goes(r, "unlock")
    /\ UNCHANGED <<local, epoch, trouble, lock, list, seq, lastseq, reply, claims, merged, delivered>>

\* Unlock deletes the key only if it still holds the token of r.
Unlock(r) ==
    /\ pc[r] = "unlock"
    /\ lock' = IF lock = r THEN NoBatch ELSE lock
    /\ Goes(r, IF r \in trouble THEN "sendExit" ELSE "returned")
    /\ UNCHANGED <<local, epoch, trouble, list, seq, lastseq, reply, repEpoch, claims, merged, delivered>>

\* saveAndDeliver of the exit text, by a worker that has released its batch.
SendExitText(r) ==
    /\ pc[r] = "sendExit"
    /\ delivered' = [delivered EXCEPT ![r] = @ + 1]
    /\ Goes(r, "returned")
    /\ UNCHANGED <<local, epoch, trouble, store, merged>>

\* deliverMergedReplyOnce: a worker that read a reply delivers it if it may.
ClaimAndDeliver(r) ==
    /\ pc[r] = "claim"
    /\ IF r \in Workers
       THEN /\ delivered' = [delivered EXCEPT ![got[r]] = @ + IF MayDeliver(mine[r]) THEN 1 ELSE 0]
            /\ claims' = IF mine[r] = 0 THEN claims ELSE claims \union {ClaimKey(mine[r])}
       ELSE UNCHANGED <<claims, delivered>>
    /\ Goes(r, "returned")
    /\ UNCHANGED <<local, epoch, trouble, lock, list, seq, lastseq, reply, repEpoch, merged>>

----------------------------------------------------------------------------
(* Crashes, expiry and sweeping                                            *)

\* A process dies: its goroutines and its local queue are gone, what it keeps
\* in Redis stays.
Crash(i) ==
    /\ MayCrash /\ "crash" \notin trouble
    /\ trouble' = trouble \union {"crash"}
    /\ pc' = [r \in Requests |->
                 IF Home[r] = i /\ pc[r] \notin {"new", "returned"} THEN "dead" ELSE pc[r]]
    /\ epoch' = [epoch EXCEPT ![i] = 0]
    /\ UNCHANGED <<local, store, merged, delivered>>

\* The watchdog of a dead process renews its lock no more.
LockExpires ==
    /\ lock # NoBatch /\ pc[lock] = "dead"
    /\ TimePasses
    /\ lock' = NoBatch
    /\ UNCHANGED <<pc, local, epoch, trouble, list, seq, lastseq, reply, repEpoch, claims, merged, delivered>>

\* SweepIdleQueues drops the local queue of a customer idle for 15 minutes.
SweepIdleQueue(i) ==
    /\ MaySweep /\ "sweep" \notin trouble
    /\ TimePasses
    /\ epoch[i] > 0
    /\ \A r \in Requests : Home[r] = i => pc[r] \in {"new", "returned", "dead"}
    /\ trouble' = trouble \union {"sweep"}
    /\ epoch' = [epoch EXCEPT ![i] = 0]
    /\ UNCHANGED <<pc, local, store, merged, delivered>>

----------------------------------------------------------------------------
Wait(r) ==
    \/ ReadSeq(r) \/ PushOwn(r) \/ PollSeq(r) \/ ReadReply(r) \/ ReadEpoch(r) \/ CheckList(r)
    \/ CheckLock(r) \/ Grab(r) \/ TakeoverDrain(r) \/ TakeoverOpen(r) \/ ClaimAndDeliver(r)

Hold(r) ==
    \/ WindowEnds(r) \/ Collect(r) \/ AnswerWeb(r) \/ RouteToHuman(r) \/ ClaimAndAnswer(r)
    \/ Release(r) \/ PublishSeq(r) \/ PublishReply(r) \/ PublishEpoch(r) \/ Unlock(r) \/ SendExitText(r)

\* Every request is done: nothing is left to do.
Idle == (\A r \in Requests : pc[r] \in {"returned", "dead"}) /\ UNCHANGED vars

Next ==
    \/ \E r \in Requests : TakeLock(r) \/ LockHeld(r) \/ Wait(r) \/ Hold(r)
    \/ \E i \in Instances : Crash(i) \/ SweepIdleQueue(i)
    \/ LockExpires
    \/ Idle

Spec == Init /\ [][Next]_vars

\* Waiters poll every 300 ms, holders always release, Redis expires dead locks.
Fairness ==
    /\ \A r \in Requests : WF_vars(Wait(r)) /\ WF_vars(Hold(r))
    /\ WF_vars(LockExpires)

FairSpec == Spec /\ Fairness

----------------------------------------------------------------------------
(* Properties                                                              *)

\* Past TryLock and before Unlock.
Holders == {r \in Requests :
               pc[r] \in {"drain", "putBack", "window", "absorb", "generate", "release",
                         "publishSeq", "publishReply", "publishEpoch", "unlock"}}

\* Handed over, and not answering for itself.
HandedOver == {r \in Requests :
                  pc[r] \in {"polling", "readReply", "readEpoch", "checkList", "checkLock", "grab", "drain",
                            "putBack", "claim"}}

InList(r) == r \in ToSet(list)
InHand(r) == \E s \in Requests : pc[s] # "dead" /\ r \in ToSet(hand[s])
InBatch(r, s) == r \in ToSet(merged[s])

\* One live process at a time answers the customer, crashes and takeovers included.
OneHolder == \A r, s \in Holders : r = s

\* A message handed over is in the list, in the hands of a live absorber or in
\* a batch: none is lost between the processes while none of them dies.
NothingLost ==
    "crash" \notin trouble =>
        \A r \in HandedOver : InList(r) \/ InHand(r) \/ \E s \in Requests : InBatch(r, s)

\* "Publish the reply before the lock goes": whoever sees the lock gone can
\* read the reply of every batch that was closed, and its epoch.
PublishedBeforeUnlock ==
    "crash" \notin trouble /\ lock = NoBatch =>
        \A s \in Requests : merged[s] # <<>> =>
            \E n \in DOMAIN repEpoch : reply[n] = s /\ repEpoch[n] = mine[s]

\* Every request of a process that lives returns.
EveryRequestReturns ==
    \A r \in Requests : []<>(pc[r] \in {"new", "returned", "dead"})

\* No message goes into a second batch.
AnsweredOnce ==
    \A r, s, t \in Requests : InBatch(r, s) /\ InBatch(r, t) => s = t

\* A reply goes out once on the channel; only a waiter that found no epoch
\* beside it delivers it again, or one that claims it when it is the exit text,
\* which its own worker sends without a claim.
OnceUnlessNoEpoch ==
    \A s \in Requests : delivered[s] > 1 =>
        \/ \E r \in Requests \ {s} : got[r] = s /\ mine[r] = 0
        \/ s \in trouble

\* A worker answers and nothing goes out only when an earlier batch had the same epoch.
DroppedOnlyOnReusedEpoch ==
    \A s \in Workers : pc[s] = "returned" /\ got[s] = s /\ delivered[s] = 0 =>
        \E t \in Requests \ {s} : merged[t] # <<>> /\ mine[t] = mine[s]

\* The reply of a worker's batch goes out on the channel.
WorkerDelivers ==
    \A s \in Workers : pc[s] = "returned" /\ got[s] = s => delivered[s] >= 1

=============================================================================
