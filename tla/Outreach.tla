----------------------------- MODULE Outreach -----------------------------
(***************************************************************************)
(* Outreach tasks and their dispatcher (internal/outreach/dispatch.go,     *)
(* service.go), on top of the outbound queue.  One process at a time runs  *)
(* the round: it lists the pending tasks, decides one after the other      *)
(* whether each may be sent, enqueues those, and then reads back what      *)
(* became of the queued ones.  The tasks of the model are of one customer; *)
(* creating one stands for its time having come.                           *)
(***************************************************************************)
EXTENDS OutboundQueue, FiniteSets

\* The messages are the tasks.
Tasks == Messages

CONSTANTS
    WeeklyLimit,   \* outreach_weekly_limit
    MaxAttempts    \* maxDispatchAttempts: 5

VARIABLES
    task,       \* task -> status, attempts, outbound_id
    round,      \* the tasks listed and not yet decided, or Idle
    enqueued,   \* the task whose row was just added, with the row, or {}
    torn        \* history: task -> the enqueueings whose mark was not written

dispatcher == <<round, enqueued>>
outreachVars == <<outboundVars, task, dispatcher, torn>>

Idle == {"idle"}
TasksIn(s) == {t \in Tasks : task[t].st = s}

Init ==
    /\ OutboundInit
    /\ task = [t \in Tasks |-> [st |-> "none", tries |-> 0, ob |-> 0]]
    /\ round = Idle /\ enqueued = {} /\ torn = [t \in Tasks |-> 0]

Mishap == mishaps < MaxMishaps /\ mishaps' = mishaps + 1
QueueStays == UNCHANGED <<out, aged, work, accepted, overrun, resends>>

\* The weekly limit counts the tasks that were sent.
CreateTask(t) ==
    /\ task[t].st = "none"
    /\ Cardinality(TasksIn("sent")) < WeeklyLimit
    /\ task' = [task EXCEPT ![t].st = "pending"]
    /\ UNCHANGED <<outboundVars, dispatcher, torn>>

Cancel(t) ==
    /\ task[t].st = "pending"
    /\ task' = [task EXCEPT ![t].st = "cancelled"]
    /\ UNCHANGED <<outboundVars, dispatcher, torn>>

(***************************************************************************)
(* DispatchDue.  Every write of a task goes by its id alone.               *)
(***************************************************************************)

\* The lock of the round (main.go:1021) keeps a second process out; without Redis
\* there is none, and the model holds for one process.
BeginRound ==
    /\ round = Idle /\ TasksIn("pending") # {}
    /\ round' = TasksIn("pending")
    /\ UNCHANGED <<outboundVars, task, enqueued, torn>>

Listed(t) == t \in round /\ enqueued = {}

Skip(t) ==
    /\ Listed(t) /\ round' = round \ {t}
    /\ task' = [task EXCEPT ![t].st = "skipped"]
    /\ UNCHANGED <<outboundVars, enqueued, torn>>

\* The insert may have committed and reported an error all the same.
TryLater(t) ==
    /\ Listed(t) /\ round' = round \ {t}
    /\ task' = IF task[t].tries + 1 >= MaxAttempts
               THEN [task EXCEPT ![t].st = "failed"]
               ELSE [task EXCEPT ![t].tries = @ + 1]
    /\ \/ UNCHANGED <<outboundVars, torn>>
       \/ /\ AddRow(t) /\ Mishap /\ torn' = [torn EXCEPT ![t] = @ + 1]
          /\ UNCHANGED <<aged, work, accepted, overrun, resends>>
    /\ UNCHANGED enqueued

Enqueue(t) ==
    /\ Listed(t) /\ AddRow(t)
    /\ enqueued' = {<<t, Len(out) + 1>>}
    /\ UNCHANGED <<aged, work, accepted, overrun, tally, task, round, torn>>

\* Mutant: the task stays pending until its row is sent.
MutMarkQueued(t, i) == task' = [task EXCEPT ![t].tries = @ + 1]
MarkQueued(t, i) == task' = [task EXCEPT ![t] = [st |-> "queued", tries |-> @.tries + 1, ob |-> i]]

AfterEnqueue(t) ==
    /\ \E i \in Rows : <<t, i>> \in enqueued /\ MarkQueued(t, i)
    /\ round' = round \ {t} /\ enqueued' = {}
    /\ UNCHANGED <<outboundVars, torn>>

\* A write of the round fails, or its process dies.
RoundBreaks ==
    /\ round # Idle /\ Mishap
    /\ round' = Idle /\ enqueued' = {}
    /\ torn' = [t \in Tasks |-> IF \E i \in Rows : <<t, i>> \in enqueued THEN torn[t] + 1 ELSE torn[t]]
    /\ QueueStays /\ UNCHANGED task

EndRound ==
    /\ round = {} /\ round' = Idle
    /\ UNCHANGED <<outboundVars, task, enqueued, torn>>

\* SyncResults, later in the same round.  Its branch for a task whose row has been
\* missing for a day is left out: nothing in the program deletes an outbound row.
Sync(t) ==
    /\ round = Idle /\ task[t].st = "queued"
    /\ out[task[t].ob].status \in {"sent", "failed"}
    /\ task' = [task EXCEPT ![t].st = out[task[t].ob].status]
    /\ UNCHANGED <<outboundVars, dispatcher, torn>>

DispatchStep(t) == Skip(t) \/ TryLater(t) \/ Enqueue(t) \/ AfterEnqueue(t)

QueueStep == OutboundNext /\ UNCHANGED <<task, dispatcher, torn>>

Next ==
    \/ QueueStep
    \/ \E t \in Tasks : CreateTask(t) \/ Cancel(t) \/ DispatchStep(t) \/ Sync(t)
    \/ BeginRound \/ EndRound \/ RoundBreaks

Spec == Init /\ [][Next]_outreachVars

OnQueue(A) == A /\ UNCHANGED <<task, dispatcher, torn>>
ClaimSome == OnQueue(\E w \in Workers, rows \in SUBSET Rows : Claim(w, rows))
WorkerStep(w) == OnQueue(\E i \in Rows : Send(w, i) \/ Write(w, i))
RowAges(i) == OnQueue(Holders(i) = {} /\ Age(i))

\* The tickers fire, a worker goes through its batch, and time passes.
FairSpec ==
    /\ Spec
    /\ WF_outreachVars(BeginRound) /\ WF_outreachVars(EndRound) /\ WF_outreachVars(ClaimSome)
    /\ \A t \in Tasks :
        /\ WF_outreachVars(DispatchStep(t) /\ round # Idle)
        /\ WF_outreachVars(Sync(t))
    /\ \A w \in Workers : WF_outreachVars(WorkerStep(w))
    /\ \A i \in 1 .. MaxRows : WF_outreachVars(RowAges(i))

----------------------------------------------------------------------------
TypeOK ==
    /\ OutboundTypeOK
    /\ \A t \in Tasks :
        /\ task[t].st \in {"none", "pending", "queued", "sent", "failed", "skipped", "cancelled"}
        /\ task[t].tries \in Nat /\ task[t].ob \in 0 .. Len(out)
    /\ round \in {Idle} \cup SUBSET Tasks
    /\ enqueued \subseteq Tasks \X Rows /\ Cardinality(enqueued) <= 1

\* A task is enqueued once, but for the times at which the round broke between
\* the insert of the row and the mark of the task (dispatch.go:104).
OneRowPerTask ==
    \A t \in Tasks : Cardinality({i \in Rows : out[i].msg = t}) <= 1 + torn[t]

\* A task whose time has come does not stay pending, or queued, for ever.
TasksSettle ==
    \A t \in Tasks : []<>(task[t].st \notin {"pending", "queued"})
=============================================================================
