----------------------------- MODULE MergeQueue -----------------------------
(***************************************************************************)
(* The merge queue of one customer in one process, Redis switched off:     *)
(* internal/service/message_queue.go.  A customer who sends several        *)
(* messages in a row gets one reply per batch.  The goroutine that finds   *)
(* the queue idle opens a batch, waits for a sliding window, collects the  *)
(* rows of its batch, generates a reply and publishes it with SetReply;    *)
(* the others sleep on the queue's condition variable.                     *)
(*                                                                         *)
(* Every action is one critical section of q.mu, up to the next Unlock or  *)
(* cond.Wait.  A request is named by the goroutine that carries it: r is   *)
(* at once the goroutine, its ReqID and its message.  A reply is named by  *)
(* the epoch of the batch it was generated for; NoReply is the empty       *)
(* string.                                                                 *)
(***************************************************************************)
EXTENDS Naturals, Sequences, FiniteSets, Functions

CONSTANTS
    Requests,       \* the inbound messages of this customer
    Simple,         \* those that IsSimpleMessage accepts
    MaxMerge,       \* ReplySpeed.MaxMergeMessages
    MaySilent,      \* a holder may release its batch with SetReply("")
    StallsIn,       \* the phases in which a holder may outlive
                    \* processing_lock_timeout (a subset of Holding)
    MayDrain,       \* ShutdownDrain may run
    MaySimpleStall, \* a simple reply may outlive simpleLockTimeout
    MayOvertake,    \* a request may open a batch before a woken request whose
                    \* reply is ready takes q.mu (the mutex is not a queue)
    PromptWakeups   \* a window, a reply and a timeout last longer than it
                    \* takes a goroutine that is ready to take q.mu

ASSUME RequestsFinite == IsFiniteSet(Requests)
ASSUME SimpleAreRequests == Simple \subseteq Requests
ASSUME MaxMergePositive == MaxMerge \in Nat \ {0}
ASSUME SwitchesAreBoolean ==
    {MaySilent, MayDrain, MaySimpleStall, MayOvertake, PromptWakeups} \subseteq BOOLEAN

VARIABLES
    \* the goroutines
    pc,          \* where each request stands
    mine,        \* the epoch it holds, or waits for, or 0
    seen,        \* lastCheckedCount of its merge window
    armed,       \* the requests whose window timer is running
    got,         \* the reply it returned with
    \* CustomerQueue
    sleepers,    \* the notify list of q.cond, first to be signalled first
    pending,     \* q.pending: rows [req, batch, arrival]
    arrivals,    \* number of rows ever placed (orders ReceivedAt)
    processing, batchClosed, mergeCount, deadlineExpired,
    currentBatch, epoch,
    lastReply, replyByEpoch, claimedByReq,
    overdue,     \* processingStartedAt is older than processing_lock_timeout
    drain,       \* ShutdownDrain: "off", "found" the queue busy, "forced" it free
    simpleProcessing, simpleToken, token,
    \* what the holders of each epoch collected (local to the goroutine)
    merged

local    == <<seen, armed>>
batch    == <<processing, batchClosed, currentBatch, epoch, overdue>>
rows     == <<pending, arrivals, mergeCount>>
replies  == <<lastReply, replyByEpoch, claimedByReq>>
simple   == <<simpleProcessing, simpleToken, token>>
vars     == <<pc, mine, got, local, sleepers, rows, batch, deadlineExpired,
              replies, drain, simple, merged>>

NoReply == 0

----------------------------------------------------------------------------
(* Condition variable.  sync.Cond wakes its waiters first in, first out.   *)

Asleep(r) == r \in Range(sleepers)
Signalled == IF sleepers = <<>> THEN <<>> ELSE Tail(sleepers)
\* Mutant: Signal where the code broadcasts.
MutBroadcast == sleepers' = Signalled
Broadcast == sleepers' = <<>>
Sleep(r)  == sleepers' = Append(sleepers, r)

Waiting  == {"window", "joined", "backlog", "simpleWait"}
Runnable(r) ==
    \/ pc[r] \in {"opened", "collect"}
    \/ pc[r] \in Waiting /\ ~Asleep(r)

\* Holders of the processing right: they opened a batch and have not released it.
Holding == {"opened", "window", "collect", "generate"}

\* Mutant: the claim table is never consulted.
MutClaimed(r) == FALSE
Claimed(r) == r \in DOMAIN claimedByReq
\* Mutant: a consumed claim stays in the table.
MutDropClaim(r) == claimedByReq
DropClaim(r) == Restrict(claimedByReq, DOMAIN claimedByReq \ {r})

\* Map reads: an absent key reads as the zero value.
Slot(e) == IF e \in DOMAIN replyByEpoch THEN replyByEpoch[e] ELSE NoReply

ReplyFor(e) == IF Slot(e) # NoReply THEN Slot(e) ELSE lastReply

\* Mutant: a closed batch counts as a free queue.
MutFree == ~processing \/ batchClosed
\* Nobody holds the processing right.
Free == ~processing

\* No woken request is about to return the reply of the batch that took its row.
NobodyOvertaken ==
    MayOvertake \/ ~\E s \in Requests :
        pc[s] = "backlog" /\ ~Asleep(s) /\ Claimed(s) /\ ReplyFor(claimedByReq[s]) # NoReply

\* The timing assumption: seconds pass only when no goroutine is ready.
TimePasses == PromptWakeups => \A r \in Requests : ~Runnable(r)

----------------------------------------------------------------------------
(* Rows of q.pending.                                                      *)

InBatch(row, b) == [req |-> row.req, batch |-> b, arrival |-> row.arrival]

RowsOf(b, R) == {row \in R : row.batch = b}

\* Mutant of the next definition: the unconditional append.
MutAppendRow(r, b, R) == R \union {[req |-> r, batch |-> b, arrival |-> arrivals]}

\* ensureOwnPendingRow: the row of r, if there is one, moves to batch b;
\* otherwise a new row is added.  Never a second row.
EnsureOwnRow(r, b, R) ==
    IF \E row \in R : row.req = r
    THEN {IF row.req = r THEN InBatch(row, b) ELSE row : row \in R}
    ELSE R \union {[req |-> r, batch |-> b, arrival |-> arrivals]}

PlaceOwnRow(r, b, R) ==
    /\ pending' = EnsureOwnRow(r, b, R)
    /\ arrivals' = arrivals + 1

\* Mutant: the count kept by hand, decremented.
MutSyncMergeCount(b) == mergeCount' = mergeCount - 1

\* syncMergeCount
SyncMergeCount(b) == mergeCount' = Cardinality(RowsOf(b, pending'))

----------------------------------------------------------------------------
Init ==
    /\ pc = [r \in Requests |-> "new"]
    /\ mine = [r \in Requests |-> 0]
    /\ seen = [r \in Requests |-> 0]
    /\ token = [r \in Requests |-> 0]
    /\ got = [r \in Requests |-> NoReply]
    /\ armed = {}
    /\ sleepers = <<>>
    /\ pending = {}
    /\ arrivals = 0
    /\ processing = FALSE /\ batchClosed = FALSE
    /\ mergeCount = 0 /\ deadlineExpired = FALSE
    /\ currentBatch = 0 /\ epoch = 0
    /\ lastReply = NoReply
    /\ replyByEpoch = [e \in {} |-> NoReply]
    /\ claimedByReq = [r \in {} |-> 0]
    /\ overdue = FALSE /\ drain = "off"
    /\ simpleProcessing = FALSE /\ simpleToken = 0
    /\ merged = [e \in {} |-> {}]

----------------------------------------------------------------------------
(* processLocally                                                          *)

\* The common part of openFreshBatchLocked and takeoverNextBatchLocked.
OpenBatch(r, R) ==
    /\ processing' = TRUE
    /\ batchClosed' = FALSE
    /\ currentBatch' = currentBatch + 1
    /\ epoch' = epoch + 1
    /\ overdue' = FALSE
    /\ lastReply' = NoReply
    /\ deadlineExpired' = FALSE
    /\ PlaceOwnRow(r, currentBatch + 1, R)
    /\ SyncMergeCount(currentBatch + 1)
    /\ pc' = [pc EXCEPT ![r] = "opened"]
    /\ mine' = [mine EXCEPT ![r] = epoch + 1]
    /\ UNCHANGED replyByEpoch

\* The queue is idle: r opens a batch with its own row.
OpenIdle(r) ==
    /\ pc[r] = "new" /\ r \notin Simple
    /\ Free
    /\ NobodyOvertaken
    /\ OpenBatch(r, pending)
    /\ UNCHANGED <<local, got, sleepers, claimedByReq, drain, simple, merged>>

\* healStaleProcessingLocked, then r opens: the rows of the dead batch go,
\* everyone is woken.
HealAndOpen(r) ==
    /\ pc[r] = "new" /\ r \notin Simple
    /\ processing /\ overdue
    /\ OpenBatch(r, pending \ RowsOf(currentBatch, pending))
    /\ Broadcast
    /\ UNCHANGED <<local, got, claimedByReq, drain, simple, merged>>

\* Mutant: a closed batch still takes messages.
MutHasRoom == mergeCount < MaxMerge

\* The running batch still takes messages: it is not full and not closed.
HasRoom == mergeCount < MaxMerge /\ ~batchClosed

\* joinRunningBatchLocked
Join(r) ==
    /\ pc[r] = "new" /\ r \notin Simple
    /\ processing /\ ~overdue
    /\ HasRoom
    /\ PlaceOwnRow(r, currentBatch, pending)
    /\ SyncMergeCount(currentBatch)
    /\ sleepers' = Append(Signalled, r)
    /\ pc' = [pc EXCEPT ![r] = "joined"]
    /\ mine' = [mine EXCEPT ![r] = epoch]
    /\ UNCHANGED <<local, got, batch, deadlineExpired, replies, drain, simple, merged>>

\* The batch is full or closed: r leaves a row in no batch and waits.
JoinBacklog(r) ==
    /\ pc[r] = "new" /\ r \notin Simple
    /\ processing /\ ~overdue
    /\ ~HasRoom
    /\ PlaceOwnRow(r, 0, pending)
    /\ Sleep(r)
    /\ pc' = [pc EXCEPT ![r] = "backlog"]
    /\ UNCHANGED <<mine, local, got, batch, mergeCount, deadlineExpired,
                   replies, drain, simple, merged>>

\* A joined request is woken: it goes back to sleep while its batch runs,
\* otherwise it returns with the reply of its epoch, or with lastReply.
JoinedWakes(r) ==
    /\ pc[r] = "joined" /\ ~Asleep(r)
    /\ \/ /\ processing /\ Slot(mine[r]) = NoReply /\ epoch = mine[r]
          /\ Sleep(r)
          /\ UNCHANGED <<pc, got>>
       \/ /\ ~(processing /\ Slot(mine[r]) = NoReply /\ epoch = mine[r])
          /\ pc' = [pc EXCEPT ![r] = "returned"]
          /\ got' = [got EXCEPT ![r] = ReplyFor(mine[r])]
          /\ UNCHANGED sleepers
    /\ UNCHANGED <<mine, local, rows, batch, deadlineExpired, replies, drain, simple, merged>>

\* awaitBacklogClaimLocked, while a batch runs.
BacklogSleepsAgain(r) ==
    /\ pc[r] = "backlog" /\ ~Asleep(r)
    /\ ~Free
    /\ Sleep(r)
    /\ UNCHANGED <<pc, mine, got, local, rows, batch, deadlineExpired, replies, drain, simple, merged>>

\* Another batch took the row of r and that batch has a reply: r returns it.
BacklogReturns(r) ==
    /\ pc[r] = "backlog" /\ ~Asleep(r)
    /\ Free
    /\ Claimed(r) /\ ReplyFor(claimedByReq[r]) # NoReply
    /\ claimedByReq' = DropClaim(r)
    /\ pc' = [pc EXCEPT ![r] = "returned"]
    /\ got' = [got EXCEPT ![r] = ReplyFor(claimedByReq[r])]
    /\ mine' = [mine EXCEPT ![r] = claimedByReq[r]]
    /\ UNCHANGED <<local, sleepers, rows, batch, deadlineExpired, lastReply,
                   replyByEpoch, drain, simple, merged>>

\* The requests, other than r, that have a row in no batch.
OthersInBacklog(r) == {row.req : row \in RowsOf(0, pending)} \ {r}

\* Every row in no batch moves to the next batch.
Gathered == {IF row.batch = 0 THEN InBatch(row, currentBatch + 1) ELSE row : row \in pending}

\* takeoverNextBatchLocked: nobody took the row of r, or whoever did left no
\* reply.  r opens the next batch with every row that is in no batch, and
\* registers the claim of the other requests among them.
TakeOver(r) ==
    /\ pc[r] = "backlog" /\ ~Asleep(r)
    /\ Free
    /\ Claimed(r) => ReplyFor(claimedByReq[r]) = NoReply
    /\ NobodyOvertaken
    /\ claimedByReq' = [s \in DOMAIN DropClaim(r) \union OthersInBacklog(r) |->
                           IF s \in OthersInBacklog(r) THEN epoch + 1 ELSE claimedByReq[s]]
    /\ OpenBatch(r, Gathered)
    /\ UNCHANGED <<local, got, sleepers, drain, simple, merged>>

----------------------------------------------------------------------------
(* waitForMerge                                                            *)

\* lastCheckedCount is read on entry, then updated on every turn of the loop.
Checked(r) == IF pc[r] = "opened" THEN mergeCount ELSE seen[r]

InWindow(r) == pc[r] = "opened" \/ (pc[r] = "window" /\ ~Asleep(r))

WindowOver(r) == mergeCount >= MaxMerge \/ (deadlineExpired /\ mergeCount <= Checked(r))

\* The batch is full, or the timer ran out with no new message.
LeaveWindow(r) ==
    /\ InWindow(r) /\ WindowOver(r)
    /\ pc' = [pc EXCEPT ![r] = "collect"]
    /\ deadlineExpired' = (deadlineExpired /\ mergeCount >= MaxMerge)
    /\ UNCHANGED <<mine, got, local, sleepers, rows, batch, replies, drain, simple, merged>>

\* Any other wake-up restarts the window.
RestartWindow(r) ==
    /\ InWindow(r) /\ ~WindowOver(r)
    /\ pc' = [pc EXCEPT ![r] = "window"]
    /\ deadlineExpired' = FALSE
    /\ seen' = [seen EXCEPT ![r] = mergeCount]
    /\ armed' = armed \union {r}
    /\ Sleep(r)
    /\ UNCHANGED <<mine, got, rows, batch, replies, drain, simple, merged>>

\* The callback of armDeadline.
WindowExpires(r) ==
    /\ r \in armed
    /\ TimePasses
    /\ armed' = armed \ {r}
    /\ deadlineExpired' = TRUE
    /\ Broadcast
    /\ UNCHANGED <<pc, mine, got, seen, rows, batch, replies, drain, simple, merged>>

\* The rows of the current batch leave q.pending and the batch is closed.
Collect(r) ==
    /\ pc[r] = "collect"
    /\ LET taken == RowsOf(currentBatch, pending)
       IN /\ pending' = pending \ taken
          /\ merged' = [e \in DOMAIN merged \union {mine[r]} |->
                           IF e = mine[r] THEN {row.req : row \in taken} ELSE merged[e]]
    /\ batchClosed' = TRUE
    /\ armed' = armed \ {r}
    /\ pc' = [pc EXCEPT ![r] = "generate"]
    /\ UNCHANGED <<mine, got, seen, sleepers, arrivals, mergeCount, processing, currentBatch,
                   epoch, overdue, deadlineExpired, replies, drain, simple>>

----------------------------------------------------------------------------
(* SetReply                                                                *)

\* Slots and claims of batches older than the previous one are pruned.
Recent(e) == epoch > 1 => e >= epoch - 1

\* Mutant: no fence.
MutCurrent(r) == TRUE

\* The fence: r still holds the current epoch.
Current(r) == mine[r] = epoch

\* The holder of the current epoch publishes its reply and frees the queue.
PublishReply(r, reply) ==
    /\ pc[r] = "generate" /\ Current(r)
    /\ TimePasses
    /\ lastReply' = reply
    /\ processing' = FALSE
    /\ replyByEpoch' = [e \in {x \in DOMAIN replyByEpoch \union {epoch} : Recent(x)} |->
                           IF e = epoch THEN reply ELSE replyByEpoch[e]]
    /\ claimedByReq' = Restrict(claimedByReq,
                                {s \in DOMAIN claimedByReq : Recent(claimedByReq[s])})
    /\ Broadcast
    /\ pc' = [pc EXCEPT ![r] = "returned"]
    /\ got' = [got EXCEPT ![r] = reply]
    /\ UNCHANGED <<mine, local, rows, batchClosed, currentBatch, epoch, overdue,
                   deadlineExpired, drain, simple, merged>>

\* A holder of an older epoch is fenced off: nothing of the queue changes.
StaleReply(r, reply) ==
    /\ pc[r] = "generate" /\ ~Current(r)
    /\ TimePasses
    /\ pc' = [pc EXCEPT ![r] = "returned"]
    /\ got' = [got EXCEPT ![r] = reply]
    /\ UNCHANGED <<mine, local, sleepers, rows, batch, deadlineExpired, replies, drain, simple, merged>>

SetReply(r) ==
    \E reply \in {mine[r]} \union (IF MaySilent THEN {NoReply} ELSE {}) :
        PublishReply(r, reply) \/ StaleReply(r, reply)

----------------------------------------------------------------------------
(* Timeout and shutdown                                                    *)

\* processing_lock_timeout (600 s) goes by in a phase of the holder.
LockTimesOut ==
    /\ processing /\ ~overdue
    /\ \E r \in Requests : pc[r] \in StallsIn /\ mine[r] = epoch
    /\ TimePasses
    /\ overdue' = TRUE
    /\ UNCHANGED <<pc, mine, got, local, sleepers, rows, processing, batchClosed, currentBatch,
                   epoch, deadlineExpired, replies, drain, simple, merged>>

\* Mutant: the forced release wakes nobody.
MutWakeDrained == UNCHANGED sleepers
WakeDrained == Broadcast

\* ShutdownDrain, its grace over, lists the queues that are busy.
DrainFinds ==
    /\ MayDrain /\ drain = "off"
    /\ processing \/ simpleProcessing
    /\ TimePasses
    /\ drain' = "found"
    /\ UNCHANGED <<pc, mine, got, local, sleepers, rows, batch, deadlineExpired, replies,
                   simple, merged>>

\* Then it frees each of them, without looking again: the epoch moves.
DrainForces ==
    /\ drain = "found"
    /\ drain' = "forced"
    /\ processing' = FALSE /\ simpleProcessing' = FALSE
    /\ epoch' = epoch + 1
    /\ batchClosed' = TRUE
    /\ WakeDrained
    /\ UNCHANGED <<pc, mine, got, local, rows, currentBatch, overdue, deadlineExpired,
                   replies, simpleToken, token, merged>>

----------------------------------------------------------------------------
(* The lane of simple messages: no batch, one at a time                    *)

\* The loop "for q.simpleProcessing { Wait }" ends.
LaneFree(r) == ~simpleProcessing

TakeSimple(r) ==
    /\ LaneFree(r)
    /\ simpleProcessing' = TRUE
    /\ simpleToken' = simpleToken + 1
    /\ token' = [token EXCEPT ![r] = simpleToken + 1]
    /\ pc' = [pc EXCEPT ![r] = "simple"]
    /\ UNCHANGED sleepers

SimpleMessage(r) ==
    /\ \/ pc[r] = "new" /\ r \in Simple
       \/ pc[r] = "simpleWait" /\ ~Asleep(r)
    /\ \/ TakeSimple(r)
       \/ /\ ~LaneFree(r)
          /\ Sleep(r)
          /\ pc' = [pc EXCEPT ![r] = "simpleWait"]
          /\ UNCHANGED simple
    /\ UNCHANGED <<mine, got, local, rows, batch, deadlineExpired, replies, drain, merged>>

\* SimpleMessageDone does not look at who holds the lane.
SimpleMessageDone(r) ==
    /\ pc[r] = "simple"
    /\ TimePasses
    /\ simpleProcessing' = FALSE
    /\ sleepers' = Signalled
    /\ pc' = [pc EXCEPT ![r] = "returned"]
    /\ UNCHANGED <<mine, got, local, rows, batch, deadlineExpired, replies, drain,
                   simpleToken, token, merged>>

\* The watchdog of the takeover by r: only while that takeover still holds.
SimpleWatchdog(r) ==
    /\ MaySimpleStall
    /\ pc[r] = "simple"
    /\ simpleProcessing /\ simpleToken = token[r]
    /\ TimePasses
    /\ simpleProcessing' = FALSE
    /\ Broadcast
    /\ UNCHANGED <<pc, mine, got, local, rows, batch, deadlineExpired, replies, drain,
                   simpleToken, token, merged>>

----------------------------------------------------------------------------
Enqueue(r) == OpenIdle(r) \/ HealAndOpen(r) \/ Join(r) \/ JoinBacklog(r)

Wake(r) ==
    \/ JoinedWakes(r)
    \/ BacklogSleepsAgain(r) \/ BacklogReturns(r) \/ TakeOver(r)
    \/ LeaveWindow(r) \/ RestartWindow(r) \/ Collect(r)

\* Every request has returned: nothing is left to do.
Idle == (\A r \in Requests : pc[r] = "returned") /\ UNCHANGED vars

Next ==
    \/ \E r \in Requests :
          \/ Enqueue(r) \/ Wake(r) \/ WindowExpires(r) \/ SetReply(r)
          \/ SimpleMessage(r) \/ SimpleMessageDone(r) \/ SimpleWatchdog(r)
    \/ LockTimesOut
    \/ DrainFinds \/ DrainForces
    \/ Idle

Spec == Init /\ [][Next]_vars

\* The Go scheduler runs every ready goroutine, the runtime fires every armed
\* timer, and every holder calls SetReply (its release is deferred).
Fairness ==
    \A r \in Requests :
        /\ WF_vars(Wake(r)) /\ WF_vars(WindowExpires(r)) /\ WF_vars(SetReply(r))
        /\ WF_vars(SimpleMessage(r) /\ pc[r] = "simpleWait")
        /\ WF_vars(SimpleMessageDone(r))

FairSpec == Spec /\ Fairness

----------------------------------------------------------------------------
(* Properties                                                              *)

PCs == {"new", "opened", "window", "collect", "generate", "joined", "backlog",
        "simpleWait", "simple", "returned"}

Row == [req : Requests, batch : Nat, arrival : Nat]

\* The type of every variable; a map is a function on the keys it holds.
TypeOK ==
    /\ pc \in [Requests -> PCs]
    /\ mine \in [Requests -> Nat] /\ seen \in [Requests -> Nat]
    /\ token \in [Requests -> Nat] /\ got \in [Requests -> Nat]
    /\ armed \subseteq Requests
    /\ sleepers \in Seq(Requests)
    /\ pending \subseteq Row /\ IsFiniteSet(pending)
    /\ arrivals \in Nat /\ mergeCount \in Nat
    /\ currentBatch \in Nat /\ epoch \in Nat /\ simpleToken \in Nat
    /\ processing \in BOOLEAN /\ batchClosed \in BOOLEAN /\ deadlineExpired \in BOOLEAN
    /\ overdue \in BOOLEAN /\ simpleProcessing \in BOOLEAN
    /\ drain \in {"off", "found", "forced"}
    /\ lastReply \in Nat
    /\ DOMAIN replyByEpoch \subseteq Nat /\ replyByEpoch \in [DOMAIN replyByEpoch -> Nat]
    /\ DOMAIN claimedByReq \subseteq Requests /\ claimedByReq \in [DOMAIN claimedByReq -> Nat]
    /\ DOMAIN merged \subseteq Nat /\ merged \in [DOMAIN merged -> SUBSET Requests]

\* "One message has at most one row in q.pending" (ensureOwnPendingRow): the
\* three branches that place a row never add a second one.
OneRowPerRequest ==
    \A x, y \in pending : x.req = y.req => x = y

\* The queue is marked busy exactly while one live goroutine holds the current
\* epoch: the right to process is never leaked, and never held twice.
BusyMeansOneHolder ==
    /\ processing => \E r \in Requests : pc[r] \in Holding /\ mine[r] = epoch
    /\ \A r \in Requests : pc[r] \in Holding /\ mine[r] = epoch => processing
    /\ \A r, s \in Requests :
           pc[r] \in Holding /\ pc[s] \in Holding /\ mine[r] = mine[s] => r = s

\* A row waits for somebody: it is in the open batch, or it is in no batch and
\* its request is in the backlog.  No orphan is left for a later batch.
NoOrphanRow ==
    \A row \in pending :
        \/ row.batch = currentBatch /\ processing /\ ~batchClosed
        \/ row.batch = 0 /\ pc[row.req] = "backlog"

\* A message is merged into at most one batch: no customer is answered twice.
MergedAtMostOnce ==
    \A e, f \in DOMAIN merged : merged[e] \intersect merged[f] # {} => e = f

\* Whoever returns with a reply returns with the one that covers its message.
ReplyCoversMessage ==
    \A r \in Requests : got[r] # NoReply => r \in merged[got[r]]

\* The tables hold what is still needed: a claim belongs to a request still in
\* the backlog and names the batch that has its row or had it, and when everyone
\* has returned nothing is left but two reply slots.
TablesAreClean ==
    /\ \A r \in DOMAIN claimedByReq :
          /\ pc[r] = "backlog"
          /\ \/ claimedByReq[r] \in DOMAIN merged /\ r \in merged[claimedByReq[r]]
             \/ \E row \in pending : row.req = r /\ row.batch # 0
    /\ (\A r \in Requests : pc[r] = "returned") =>
        /\ pending = {} /\ DOMAIN claimedByReq = {}
        /\ Cardinality(DOMAIN replyByEpoch) <= 2
        /\ ~processing /\ ~simpleProcessing

\* Fencing: the reply slots and lastReply only ever take the reply of the
\* holder of the current epoch, and only while the queue is busy; a batch that
\* opens empties lastReply.
OnlyHolderPublishes ==
    [][/\ \A e \in DOMAIN replyByEpoch' :
             e \notin DOMAIN replyByEpoch \/ replyByEpoch'[e] # replyByEpoch[e]
                => e = epoch /\ processing /\ replyByEpoch'[e] \in {NoReply, epoch}
       /\ lastReply' \notin {lastReply, NoReply} => processing /\ lastReply' = epoch]_vars

\* What the queue promises: BatchedAnswers, where a message is taken when a
\* holder collects it and answered when that holder publishes.
Published(e) == ~\E r \in Requests : pc[r] \in Holding /\ mine[r] = e

Status(r) ==
    IF pc[r] = "new" THEN "absent"
    ELSE IF \E e \in DOMAIN merged : r \in merged[e]
         THEN IF \E e \in DOMAIN merged : r \in merged[e] /\ Published(e)
              THEN "answered" ELSE "taken"
         ELSE "waiting"

Answers == INSTANCE BatchedAnswers
    WITH Messages <- Requests \ Simple, status <- [r \in Requests \ Simple |-> Status(r)]

ImplementsAnswers == Answers!Spec

\* Every request that enters the queue returns.
EveryRequestReturns ==
    \A r \in Requests : []<>(pc[r] \in {"new", "returned"})
=============================================================================
