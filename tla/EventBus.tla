------------------------------ MODULE EventBus ------------------------------
(***************************************************************************)
(* The topic user_event on Kafka: one partition, the consumer loops of     *)
(* the processes, the inbox and the ledger of events (internal/mq).  Two   *)
(* handlers take every event one after the other: the ingestion of the     *)
(* customer data platform, which goes through the inbox itself and under   *)
(* the same event id (WithInbox), and the start of the welcome flow, which *)
(* never reports an error.                                                 *)
(*                                                                         *)
(* The broker hands each event of the partition to its owner, from the     *)
(* committed offset on.  A consumer that has lost the partition finishes   *)
(* the event at hand; its commit has no effect.                            *)
(***************************************************************************)
EXTENDS Naturals

CONSTANTS
    Consumers,
    LastEvent,    \* bound of a run: the events published
    MaxRetry,     \* maxRetry of processWithRetry: 5
    MaxFaults     \* bound of a run: crashes, rebalances, failed writes

VARIABLES
    published, committed,   \* the last event; the next one for a new owner
    owner, position,        \* of the partition; consumer -> its next event
    inbox,                  \* event -> status of its row, or "none"
    ledger,                 \* event -> status of its row
    taken,                  \* event -> the handlers that it has had its effect on
    job,                    \* consumer -> the event at hand and how far it is
    leaps,                  \* history: events whose loss the code admits
    unwelcomed,             \* history: events whose welcome could not be started
    faults

busVars == <<published, committed, owner, position, inbox, ledger, taken, job, leaps, unwelcomed, faults>>

Events == 1 .. LastEvent
Handlers == {"cdp", "flow"}
NoJob == [pc |-> "fetch", ev |-> 0, round |-> 0, errs |-> FALSE]
At(c, place) == job[c].pc = place
JobTo(c, place) == job' = [job EXCEPT ![c].pc = place]
Fault == faults < MaxFaults /\ faults' = faults + 1

BusInit ==
    /\ published = 0 /\ committed = 1
    /\ owner \in Consumers /\ position = [c \in Consumers |-> 1]
    /\ inbox = [e \in Events |-> "none"] /\ ledger = [e \in Events |-> "sent"]
    /\ taken = [e \in Events |-> {}]
    /\ job = [c \in Consumers |-> NoJob]
    /\ leaps = {} /\ unwelcomed = {} /\ faults = 0

Publish ==
    /\ published < LastEvent /\ published' = published + 1
    /\ UNCHANGED <<committed, owner, position, inbox, ledger, taken, job, leaps, unwelcomed, faults>>

(***************************************************************************)
(* consumeLoop                                                             *)
(***************************************************************************)
BrokerStays == UNCHANGED <<published, committed, owner, position>>

Fetch(c) ==
    /\ At(c, "fetch") /\ c = owner /\ position[c] <= published
    /\ job' = [job EXCEPT ![c] = [NoJob EXCEPT !.pc = "ensure", !.ev = position[c]]]
    /\ position' = [position EXCEPT ![c] = @ + 1]
    /\ UNCHANGED <<published, committed, owner, inbox, ledger, taken, leaps, unwelcomed, faults>>

\* Mutant: a row that exists means processed.
MutProcessed(e) == inbox[e] # "none"
\* EnsureProcessed.
Processed(e) == inbox[e] = "done"

\* When the inbox cannot be read the event is not committed, and the loop goes on:
\* the commit of a later event passes it.  It stays among the leaps even when a
\* rebalance brings it back and it is processed.
Ensure(c) ==
    LET e == job[c].ev IN
    /\ At(c, "ensure")
    /\ \/ /\ JobTo(c, IF Processed(e) THEN "consumed" ELSE "cdp")
          /\ inbox' = [inbox EXCEPT ![e] = IF @ = "none" THEN "pending" ELSE @]
          /\ UNCHANGED <<leaps, faults>>
       \/ /\ Fault /\ job' = [job EXCEPT ![c] = NoJob]
          /\ leaps' = leaps \cup {e} /\ UNCHANGED inbox
    /\ BrokerStays /\ UNCHANGED <<ledger, taken, unwelcomed>>

\* WithInbox around the ingestion: its look at the inbox and its transaction.
\* Either may fail, and so may the mark of the failure.
Ingest(c) ==
    LET e == job[c].ev IN
    /\ At(c, "cdp")
    /\ \/ /\ Processed(e) /\ JobTo(c, "flow") /\ UNCHANGED <<inbox, taken>>
       \/ /\ ~Processed(e) /\ JobTo(c, "mark")
          /\ taken' = [taken EXCEPT ![e] = @ \cup {"cdp"}] /\ UNCHANGED inbox
       \/ /\ job' = [job EXCEPT ![c].pc = "flow", ![c].errs = TRUE]
          /\ \/ ~Processed(e) /\ inbox' = [inbox EXCEPT ![e] = "failed"]
             \/ UNCHANGED inbox
          /\ UNCHANGED taken
    /\ BrokerStays /\ UNCHANGED <<ledger, leaps, unwelcomed, faults>>

MarkIngested(c) ==
    /\ At(c, "mark")
    /\ \/ /\ JobTo(c, "flow") /\ inbox' = [inbox EXCEPT ![job[c].ev] = "done"]
          /\ UNCHANGED faults
       \/ Fault /\ job' = [job EXCEPT ![c].pc = "flow", ![c].errs = TRUE] /\ UNCHANGED inbox
    /\ BrokerStays /\ UNCHANGED <<ledger, taken, leaps, unwelcomed>>

\* The failure of StartFlow is logged and no error returned: to the loop the
\* handler has succeeded.
StartWelcome(c) ==
    LET e == job[c].ev IN
    /\ At(c, "flow") /\ JobTo(c, "round")
    /\ \/ /\ taken' = [taken EXCEPT ![e] = @ \cup {"flow"}] /\ UNCHANGED <<unwelcomed, faults>>
       \/ Fault /\ unwelcomed' = unwelcomed \cup {e} /\ UNCHANGED taken
    /\ BrokerStays /\ UNCHANGED <<inbox, ledger, leaps>>

\* processWithRetry: every handler again, until none fails or the rounds are up.
RoundEnds(c) ==
    /\ At(c, "round")
    /\ \/ ~job[c].errs /\ JobTo(c, "done")
       \/ /\ job[c].errs /\ job[c].round < MaxRetry
          /\ job' = [job EXCEPT ![c].pc = "cdp", ![c].errs = FALSE, ![c].round = @ + 1]
       \/ job[c].errs /\ job[c].round = MaxRetry /\ JobTo(c, "failed")
    /\ BrokerStays /\ UNCHANGED <<inbox, ledger, taken, leaps, unwelcomed, faults>>

\* MarkInboxDone or MarkInboxFailed; an error is only logged.
MarkInbox(c) ==
    /\ job[c].pc \in {"done", "failed"}
    /\ JobTo(c, IF At(c, "done") THEN "consumed" ELSE "dead_letter")
    /\ \/ inbox' = [inbox EXCEPT ![job[c].ev] = job[c].pc] /\ UNCHANGED faults
       \/ Fault /\ UNCHANGED inbox
    /\ BrokerStays /\ UNCHANGED <<ledger, taken, leaps, unwelcomed>>

\* recordConsumeOutcome: consumed does not replace dead_letter.
RecordOutcome(c) ==
    LET e == job[c].ev IN
    /\ job[c].pc \in {"consumed", "dead_letter"} /\ JobTo(c, "commit")
    /\ \/ /\ ledger' = [ledger EXCEPT ![e] = IF @ = "dead_letter" THEN @ ELSE job[c].pc]
          /\ UNCHANGED <<leaps, faults>>
       \/ Fault /\ leaps' = leaps \cup {e} /\ UNCHANGED ledger
    /\ BrokerStays /\ UNCHANGED <<inbox, taken, unwelcomed>>

Commit(c) ==
    /\ At(c, "commit") /\ job' = [job EXCEPT ![c] = NoJob]
    /\ committed' = IF c = owner THEN job[c].ev + 1 ELSE committed
    /\ UNCHANGED <<published, owner, position, inbox, ledger, taken, leaps, unwelcomed, faults>>

\* The partition is given to a consumer, from the committed offset on.
Rebalance(c) ==
    /\ Fault /\ owner' = c
    /\ position' = [position EXCEPT ![c] = committed]
    /\ At(c, "fetch")
    /\ UNCHANGED <<published, committed, inbox, ledger, taken, job, leaps, unwelcomed>>

\* The process dies.  The mark of the ingestion stands for all the handlers.
Crash(c) ==
    /\ Fault /\ job' = [job EXCEPT ![c] = NoJob]
    /\ position' = [position EXCEPT ![c] = committed]
    /\ leaps' = IF At(c, "flow") /\ ~job[c].errs THEN leaps \cup {job[c].ev} ELSE leaps
    /\ UNCHANGED <<published, committed, owner, inbox, ledger, taken, unwelcomed>>

BusNext ==
    \/ Publish
    \/ \E c \in Consumers :
        \/ Fetch(c) \/ Ensure(c) \/ Ingest(c) \/ MarkIngested(c) \/ StartWelcome(c)
        \/ RoundEnds(c) \/ MarkInbox(c) \/ RecordOutcome(c) \/ Commit(c)
        \/ Rebalance(c) \/ Crash(c)

BusSpec == BusInit /\ [][BusNext]_busVars

----------------------------------------------------------------------------
BusTypeOK ==
    /\ published \in 0 .. LastEvent /\ committed \in 1 .. LastEvent + 1
    /\ owner \in Consumers /\ \A c \in Consumers : position[c] \in 1 .. LastEvent + 1
    /\ \A e \in Events :
        /\ inbox[e] \in {"none", "pending", "failed", "done"}
        /\ ledger[e] \in {"sent", "consumed", "dead_letter"}
        /\ taken[e] \subseteq Handlers
    /\ \A c \in Consumers : job[c].pc \in {"fetch", "ensure", "cdp", "mark", "flow", "round",
            "done", "failed", "consumed", "dead_letter", "commit"}

\* What has become of an event can be told: both handlers have had it, or it is on
\* the ledger as a dead letter, or some consumer still has it; or it is one of the
\* losses that the code admits: the inbox could not be read, the ledger could not be
\* written, or the process died between the mark of the ingestion and the handler
\* after it.
Accounted(e) ==
    \/ taken[e] = Handlers
    \/ ledger[e] = "dead_letter"
    \/ \E c \in Consumers : job[c].ev = e
    \/ e \in leaps

\* An event that the broker will not hand out again is accounted for, whatever
\* crashed, failed or was handed out twice, but for one loss that leaves no record:
\* the welcome that could not be started (orchestrate.go:239).
EventsAccounted == \A e \in Events : e < committed => Accounted(e) \/ e \in unwelcomed
=============================================================================
