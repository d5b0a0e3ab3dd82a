----------------------------- MODULE MCServices -----------------------------
(***************************************************************************)
(* Small instances of six services of one tenant: the dunning of its       *)
(* subscription, the outreach to its customers with the outbound queue,    *)
(* the deals and quotes, the bus of its events, the conversation with a    *)
(* customer and a flow with its patrol.  They share no variable: a         *)
(* behaviour of all of them is one of each, and the run explores one of    *)
(* them (service) at a time.                                               *)
(***************************************************************************)
EXTENDS Outreach, Deals, Dunning, EventBus, Conversation, FlowEngine

VARIABLE service

services == <<service, outreachVars, dealVars, dunningVars, busVars, chatVars, flowVars>>

\* The graph of the flow: a choice, a loop and a node that waits.
AGraph == [start |-> "start", decide |-> "strategy", tag |-> "tag_update", talk |-> "ai",
           end |-> "end"]
ItsEdges == [start |-> <<"decide">>, decide |-> <<"talk", "tag", "end">>, tag |-> <<"decide">>,
             talk |-> <<"tag">>, end |-> <<>>]

ServicesInit ==
    /\ service \in {"outreach", "deals", "dunning", "bus", "chat", "flow"}
    /\ Init /\ DealsInit /\ DunningInit /\ BusInit /\ ChatInit /\ FlowInit
    /\ owner = CHOOSE c \in Consumers : TRUE   \* the consumers are alike
    /\ service # "chat" => conv.mode = "ai"

InOutreach == service = "outreach" /\ UNCHANGED <<service, dealVars, dunningVars, busVars, chatVars, flowVars>>
InDeals    == service = "deals" /\ UNCHANGED <<service, outreachVars, dunningVars, busVars, chatVars, flowVars>>
InDunning  == service = "dunning" /\ UNCHANGED <<service, outreachVars, dealVars, busVars, chatVars, flowVars>>
InBus      == service = "bus" /\ UNCHANGED <<service, outreachVars, dealVars, dunningVars, chatVars, flowVars>>
InChat     == service = "chat" /\ UNCHANGED <<service, outreachVars, dealVars, dunningVars, busVars, flowVars>>
InFlow     == service = "flow" /\ UNCHANGED <<service, outreachVars, dealVars, dunningVars, busVars, chatVars>>

ServicesNext ==
    \/ InOutreach /\ Next
    \/ InDeals /\ DealsNext
    \/ InDunning /\ DunningNext
    \/ InBus /\ BusNext
    \/ InChat /\ ChatNext
    \/ InFlow /\ FlowNext

\* The fairness of the modules, restated for the steps of the service that runs.
ServicesFairness ==
    /\ WF_services(InOutreach /\ BeginRound) /\ WF_services(InOutreach /\ EndRound)
    /\ WF_services(InOutreach /\ ClaimSome)
    /\ \A t \in Tasks :
        /\ WF_services(InOutreach /\ DispatchStep(t) /\ round # Idle)
        /\ WF_services(InOutreach /\ Sync(t))
    /\ \A w \in Workers : WF_services(InOutreach /\ WorkerStep(w))
    /\ \A i \in 1 .. MaxRows : WF_services(InOutreach /\ RowAges(i))
    /\ WF_services(InDunning /\ SweepStep)
    /\ WF_services(InFlow /\ PatrolStep) /\ WF_services(InFlow /\ HeartbeatAges)

ServicesSpec == ServicesInit /\ [][ServicesNext]_services /\ ServicesFairness

----------------------------------------------------------------------------
\* The type invariants of the modules.
ServicesTypeOK ==
    /\ TypeOK /\ DealsTypeOK /\ DunningTypeOK /\ BusTypeOK /\ ChatTypeOK /\ FlowTypeOK
=============================================================================
