----------------------------- MODULE FlowEngine -----------------------------
(***************************************************************************)
(* One flow of a tenant: its instance (internal/engine/flow), the state    *)
(* machine kept beside it and its patrol (internal/state_machine).  A      *)
(* walker is a request or a consumer that starts the flow or advances it:  *)
(* it reads the instance, executes nodes on its copy until one waits,      *)
(* saves the whole row, and brings the state machine up to date.  Nothing  *)
(* keeps two walkers apart.                                                *)
(*                                                                         *)
(* What a node does to the conversation is in Conversation; a requeue is   *)
(* an event that its consumer only logs.                                   *)
(***************************************************************************)
EXTENDS Naturals, Sequences, Functions

CONSTANTS
    Walkers,
    StartNode,
    Kind,       \* node -> its type
    Leads,      \* node -> next_nodes
    MaxSteps,   \* maxSteps: 50
    \* bounds of a run: walks; failed calls of the database and deaths
    MaxWalks, MaxSlips

VARIABLES
    inst,       \* the row of the instance: node, status
    machine,    \* the row of the state machine: node, status, version, and
                \* whether heartbeat_ts is older than the limit
    walker,     \* place, copy of the instance, nodes executed, version read
    patrol,     \* the sweep: place
    walks, slips

flowVars == <<inst, machine, walker, patrol, walks, slips>>

Nodes == DOMAIN Kind
Resting == [pc |-> "idle", node |-> StartNode, st |-> "none", steps |-> 0, ver |-> 0]
Slip == slips < MaxSlips /\ slips' = slips + 1
WalkerAt(w, place) == walker[w].pc = place
WalkTo(w, place) == walker' = [walker EXCEPT ![w].pc = place]
Rest(w) == walker' = [walker EXCEPT ![w] = Resting]

FlowInit ==
    /\ inst = [node |-> StartNode, st |-> "none"]
    /\ machine = [node |-> StartNode, st |-> "none", ver |-> 0, old |-> FALSE]
    /\ walker = [w \in Walkers |-> Resting]
    /\ patrol = "idle" /\ walks = 0 /\ slips = 0

(***************************************************************************)
(* StartFlow and AdvanceFlow, up to the save.                              *)
(***************************************************************************)
Walk(w, row) ==
    /\ WalkerAt(w, "idle") /\ walks < MaxWalks /\ walks' = walks + 1
    /\ walker' = [walker EXCEPT ![w] = [Resting EXCEPT !.pc = "walk", !.node = row.node, !.st = row.st]]
    /\ UNCHANGED <<machine, patrol, slips>>

StartFlow(w) ==
    /\ inst.st = "none" /\ inst' = [inst EXCEPT !.st = "running"]
    /\ Walk(w, inst')

\* The status is not looked at.
AdvanceFlow(w) ==
    /\ inst.st # "none" /\ Walk(w, inst) /\ UNCHANGED inst

\* A strategy or a condition chooses by the route, with the first as default.
Following(n) ==
    CASE Kind[n] \in {"strategy", "condition"} -> Range(Leads[n])
      [] Kind[n] \in {"start", "tag_update"}   -> IF Leads[n] = <<>> THEN {} ELSE {Head(Leads[n])}
      [] OTHER -> {}

\* executeToWait: a waiting node, also one the walk begins at, is not left.
ExecuteNode(w) ==
    /\ WalkerAt(w, "walk") /\ walker[w].steps < MaxSteps
    /\ \E n \in Following(walker[w].node) :
        walker' = [walker EXCEPT ![w].node = n, ![w].steps = @ + 1]
    /\ UNCHANGED <<inst, machine, patrol, walks, slips>>

Completes(w) == walker[w].steps < MaxSteps /\ Kind[walker[w].node] = "end"

\* The whole row is saved, whatever became of it since; an error is ignored.
Save(w) ==
    LET st == IF Completes(w) THEN "completed" ELSE walker[w].st IN
    /\ WalkerAt(w, "walk")
    /\ walker[w].steps = MaxSteps \/ Following(walker[w].node) = {}
    /\ walker' = [walker EXCEPT ![w].pc = "get", ![w].st = st]
    /\ \/ inst' = [node |-> walker[w].node, st |-> st] /\ UNCHANGED slips
       \/ Slip /\ UNCHANGED inst
    /\ UNCHANGED <<machine, patrol, walks>>

(***************************************************************************)
(* syncStateMachine.  A call that fails ends it.                           *)
(***************************************************************************)
MachineStays == UNCHANGED <<inst, machine, patrol, walks, slips>>

GetMachine(w) ==
    /\ WalkerAt(w, "get") /\ MachineStays
    /\ walker' = [walker EXCEPT ![w].ver = machine.ver,
            ![w].pc = IF machine.st = "none" THEN "init"
                      ELSE IF walker[w].st = "completed" THEN "complete" ELSE "advance"]

\* The row says running even when the flow is over already.
InitMachine(w) ==
    /\ WalkerAt(w, "init") /\ Rest(w)
    /\ machine' = IF machine.st # "none" THEN machine
                  ELSE [node |-> walker[w].node, st |-> "running", ver |-> 1, old |-> FALSE]
    /\ UNCHANGED <<inst, patrol, walks, slips>>

CompleteMachine(w) ==
    /\ WalkerAt(w, "complete") /\ Rest(w)
    /\ machine' = [machine EXCEPT !.st = "completed", !.old = FALSE]
    /\ UNCHANGED <<inst, patrol, walks, slips>>

\* The version must be the one that was read; then it is read again, once, and
\* the node of the copy is written all the same.
AdvanceMachine(w) ==
    /\ walker[w].pc \in {"advance", "again"}
    /\ IF machine.ver = walker[w].ver
       THEN /\ machine' = [machine EXCEPT !.node = walker[w].node, !.ver = @ + 1, !.old = FALSE]
            /\ Rest(w)
       ELSE /\ IF WalkerAt(w, "advance") THEN WalkTo(w, "reget") ELSE Rest(w)
            /\ UNCHANGED machine
    /\ UNCHANGED <<inst, patrol, walks, slips>>

GetAgain(w) ==
    /\ WalkerAt(w, "reget") /\ MachineStays
    /\ walker' = [walker EXCEPT ![w].pc = "again", ![w].ver = machine.ver]

\* A call of the synchronisation fails, or the process dies.
WalkBreaks(w) ==
    /\ ~WalkerAt(w, "idle") /\ Slip /\ Rest(w)
    /\ UNCHANGED <<inst, machine, patrol, walks>>

(***************************************************************************)
(* The heartbeat and SweepOnce.                                            *)
(***************************************************************************)

\* The activity of a customer, whose flow is looked up among the running ones.
Heartbeat ==
    /\ inst.st = "running" /\ machine.old
    /\ machine' = [machine EXCEPT !.old = FALSE]
    /\ UNCHANGED <<inst, walker, patrol, walks, slips>>

HeartbeatAges ==
    /\ machine.st # "none" /\ ~machine.old
    /\ machine' = [machine EXCEPT !.old = TRUE]
    /\ UNCHANGED <<inst, walker, patrol, walks, slips>>

PatrolTo(place) == patrol' = place
PatrolFrame == UNCHANGED <<inst, walker, walks>>

\* Mutant: rows of ended flows are treated like the others.
MutToReconcile(n) == FALSE
\* The candidates of terminalReconcile: by the id of the node, not by its type.
ToReconcile(n) == n = "end"

\* The scan takes 100 rows in no order: that it takes this one in the end is part of
\* the fairness below.
SweepScan ==
    /\ patrol = "idle" /\ machine.st = "running" /\ machine.old
    /\ PatrolTo(IF ToReconcile(machine.node) THEN "join" ELSE "notice")
    /\ UNCHANGED <<machine, slips>> /\ PatrolFrame

\* The instances of the candidates; a query that fails leaves them to the rest.
SweepJoin ==
    /\ patrol = "join"
    /\ \/ PatrolTo(IF inst.st = "completed" THEN "close" ELSE "notice") /\ UNCHANGED slips
       \/ Slip /\ PatrolTo("notice")
    /\ UNCHANGED machine /\ PatrolFrame

SweepClose ==
    /\ patrol = "close"
    /\ \/ /\ PatrolTo("idle") /\ UNCHANGED slips
          /\ machine' = [machine EXCEPT !.st = "completed", !.old = FALSE]
       \/ Slip /\ PatrolTo("notice") /\ UNCHANGED machine
    /\ PatrolFrame

\* The others: requeued or only noticed; either way the heartbeat starts again.
SweepNotice ==
    /\ patrol = "notice" /\ PatrolTo("idle")
    /\ \/ machine' = [machine EXCEPT !.old = FALSE] /\ UNCHANGED slips
       \/ Slip /\ UNCHANGED machine
    /\ PatrolFrame

\* The process of the patrol dies.
SweepBreaks ==
    /\ patrol # "idle" /\ Slip /\ PatrolTo("idle")
    /\ UNCHANGED machine /\ PatrolFrame

PatrolStep == SweepScan \/ SweepJoin \/ SweepClose \/ SweepNotice

FlowNext ==
    \/ \E w \in Walkers :
        \/ StartFlow(w) \/ AdvanceFlow(w) \/ ExecuteNode(w) \/ Save(w)
        \/ GetMachine(w) \/ InitMachine(w) \/ CompleteMachine(w) \/ AdvanceMachine(w) \/ GetAgain(w)
        \/ WalkBreaks(w)
    \/ Heartbeat \/ HeartbeatAges
    \/ PatrolStep \/ SweepBreaks

FlowSpec == FlowInit /\ [][FlowNext]_flowVars
\* The patrol is called every minute, its scan reaches the row, and time passes.
FlowFairSpec == FlowSpec /\ WF_flowVars(PatrolStep) /\ WF_flowVars(HeartbeatAges)

----------------------------------------------------------------------------
FlowTypeOK ==
    /\ inst.node \in Nodes /\ inst.st \in {"none", "running", "completed"}
    /\ machine.node \in Nodes /\ machine.st \in {"none", "running", "completed"}
    /\ machine.ver \in 0 .. MaxWalks + 1 /\ machine.old \in BOOLEAN
    /\ \A w \in Walkers :
        /\ walker[w].pc \in {"idle", "walk", "get", "init", "complete", "advance", "reget", "again"}
        /\ walker[w].node \in Nodes /\ walker[w].steps \in 0 .. MaxSteps
    /\ patrol \in {"idle", "join", "close", "notice"}

\* The state machine of a flow that is over, and that stands at the end of a graph
\* whose end is called so, does not stay running and in the scan of the patrol for
\* ever (state_machine.go:122), in whatever order the walkers save and synchronise
\* and wherever they stop.  One that a second walker has left at another node is not
\* found by terminalReconcile.
EndedIsClosed ==
    []<>~(inst.st = "completed" /\ machine.st = "running" /\ Kind[machine.node] = "end")
=============================================================================
