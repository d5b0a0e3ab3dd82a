------------------------------- MODULE Deals -------------------------------
(***************************************************************************)
(* The deals of one customer and their quotes (internal/deal/service.go,   *)
(* quote.go, policy.go).  Nothing here is a transaction: a request reads   *)
(* a row, decides, and writes with a condition on part of what it read.    *)
(* Where the condition repeats the whole decision the request is one       *)
(* action; creating a deal, moving one and creating a quote are not.       *)
(***************************************************************************)
EXTENDS Naturals, Sequences, FiniteSetsExt

CONSTANTS
    Users,       \* requests at one time: sales people, the assistant's hook
    LastStage,   \* the stages of an open deal are 1 .. LastStage
    Amounts,     \* amounts of a deal, 0 among them
    Texts,       \* contents of a quote
    MaxDeals, MaxQuotes   \* bounds of a run

VARIABLES
    deals,     \* the rows: stage, amount
    quotes,    \* the rows: deal, version, status, text, and quotes seen by max(version)
    request,   \* user -> what its request has read
    edited     \* history: the deals whose amount was edited while a request moved them

dealVars == <<deals, quotes, request, edited>>

NoRequest == [kind |-> "none"]
Won == LastStage + 1
Lost == LastStage + 2
Closed == {Won, Lost}
Stages == 1 .. Lost
Live == {"draft", "sent"}
IsOpen(d) == deals[d].stage \notin Closed
OpenDeals == {d \in DOMAIN deals : IsOpen(d)}
QuotesOf(d) == {q \in DOMAIN quotes : quotes[q].deal = d}
Free(u) == request[u].kind = "none"
Ask(u, r) == Free(u) /\ request' = [request EXCEPT ![u] = r]
Done(u) == request' = [request EXCEPT ![u] = NoRequest]

DealsInit ==
    /\ deals = <<>> /\ quotes = <<>> /\ edited = {}
    /\ request = [u \in Users |-> NoRequest]

(***************************************************************************)
(* Deals.                                                                  *)
(***************************************************************************)

\* createDeal: the look for an open deal, and the insert, which the index
\* ux_deal_one_open_per_customer refuses when there is one after all.
BeginCreateDeal(u) ==
    /\ OpenDeals = {} /\ Ask(u, [kind |-> "create"])
    /\ UNCHANGED <<deals, quotes, edited>>

InsertDeal(u) ==
    /\ request[u].kind = "create" /\ Done(u)
    /\ \/ /\ OpenDeals = {} /\ Len(deals) < MaxDeals
          /\ \E s \in 1 .. LastStage, a \in Amounts :
                deals' = Append(deals, [stage |-> s, amount |-> a])
       \/ OpenDeals # {} /\ UNCHANGED deals
    /\ UNCHANGED <<quotes, edited>>

\* Mutant: a deal of nothing may be won.
MutMayMove(from, to, amount) == to \in Closed \/ to > from
\* DecideMove, for a deal that is not closed.
MayMove(from, to, amount) ==
    \/ to = Lost
    \/ to = Won /\ amount > 0
    \/ to \in 1 .. LastStage /\ to > from

\* The amount that the request brings along, if any.
NewAmount(deal, change) == IF change = <<>> THEN deal.amount ELSE change[1]

\* MoveDeal reads the deal and decides on the amount it read, or brings along.
BeginMove(u, d) ==
    /\ IsOpen(d)
    /\ \E to \in Stages, change \in {<<>>} \cup {<<a>> : a \in Amounts} :
        /\ MayMove(deals[d].stage, to, NewAmount(deals[d], change))
        /\ Ask(u, [kind |-> "move", deal |-> d, from |-> deals[d].stage, to |-> to,
                   change |-> change])
    /\ UNCHANGED <<deals, quotes, edited>>

\* The update is conditional on the stage, not on the amount.
FinishMove(u) ==
    LET r == request[u] IN
    /\ r.kind = "move" /\ Done(u)
    /\ IF deals[r.deal].stage = r.from
       THEN deals' = [deals EXCEPT ![r.deal] =
                [stage |-> r.to, amount |-> NewAmount(@, r.change)]]
       ELSE UNCHANGED deals
    /\ UNCHANGED <<quotes, edited>>

\* EditDeal: the update is conditional on a stage that is not closed.
MayEdit(d) == IsOpen(d)

EditDeal(d, a) ==
    /\ MayEdit(d)
    /\ deals' = [deals EXCEPT ![d].amount = a]
    /\ edited' = IF \E u \in Users : request[u].kind = "move" /\ request[u].deal = d
                 THEN edited \cup {d} ELSE edited
    /\ UNCHANGED <<quotes, request>>

(***************************************************************************)
(* Quotes.                                                                 *)
(***************************************************************************)

\* Mutant: the versions of the live quotes only.
MutVersions(d) == {quotes[q].ver : q \in {p \in QuotesOf(d) : quotes[p].st \in Live}}
Versions(d) == {quotes[q].ver : q \in QuotesOf(d)}

\* CreateQuote: the deal is not closed; then max(version) + 1.
BeginQuote(u, d) ==
    /\ IsOpen(d) /\ Ask(u, [kind |-> "quote", deal |-> d])
    /\ UNCHANGED <<deals, quotes, edited>>

NumberQuote(u) ==
    /\ request[u].kind = "quote"
    /\ request' = [request EXCEPT ![u] =
            [kind |-> "numbered", deal |-> @.deal, ver |-> Max(Versions(@.deal) \cup {0}) + 1,
             seen |-> Len(quotes)]]
    /\ UNCHANGED <<deals, quotes, edited>>

Superseded(d) == {q \in QuotesOf(d) : quotes[q].st \in Live}

SupersedeLive(u) ==
    /\ request[u].kind = "numbered"
    /\ request' = [request EXCEPT ![u].kind = "superseded"]
    /\ quotes' = [q \in DOMAIN quotes |-> IF q \in Superseded(request[u].deal)
                    THEN [quotes[q] EXCEPT !.st = "superseded"] ELSE quotes[q]]
    /\ UNCHANGED <<deals, edited>>

\* The insert, which the index ux_quote_one_open_per_deal may refuse.
InsertQuote(u) ==
    LET r == request[u] IN
    /\ r.kind = "superseded" /\ Done(u)
    /\ IF \E q \in QuotesOf(r.deal) : quotes[q].st \in Live THEN UNCHANGED quotes
       ELSE /\ Len(quotes) < MaxQuotes
            /\ \E t \in Texts : quotes' = Append(quotes,
                 [deal |-> r.deal, ver |-> r.ver, st |-> "draft", text |-> t, seen |-> r.seen])
    /\ UNCHANGED <<deals, edited>>

\* The request ends where it is: refused, an error, or the process died.
GiveUp(u) == ~Free(u) /\ Done(u) /\ UNCHANGED <<deals, quotes, edited>>

MayChange(q) == quotes[q].st = "draft"

EditQuote(q, t) ==
    /\ MayChange(q)
    /\ quotes' = [quotes EXCEPT ![q].text = t]
    /\ UNCHANGED <<deals, request, edited>>

\* DecideQuoteAction.
Decisions == {<<"draft", "sent">>, <<"sent", "accepted">>, <<"sent", "declined">>,
              <<"draft", "void">>, <<"sent", "void">>}

\* SendQuote, DecideQuote and VoidQuote.

Decide(q, st) ==
    /\ <<quotes[q].st, st>> \in Decisions
    /\ quotes' = [quotes EXCEPT ![q].st = st]
    /\ UNCHANGED <<deals, request, edited>>

SweepExpiredQuotes(q) ==
    /\ quotes[q].st = "sent"
    /\ quotes' = [quotes EXCEPT ![q].st = "expired"]
    /\ UNCHANGED <<deals, request, edited>>

DealsNext ==
    \/ \E u \in Users :
        \/ BeginCreateDeal(u) \/ InsertDeal(u) \/ FinishMove(u) \/ GiveUp(u)
        \/ NumberQuote(u) \/ SupersedeLive(u) \/ InsertQuote(u)
        \/ \E d \in DOMAIN deals : BeginMove(u, d) \/ BeginQuote(u, d)
    \/ \E d \in DOMAIN deals, a \in Amounts : EditDeal(d, a)
    \/ \E q \in DOMAIN quotes :
        \/ \E t \in Texts : EditQuote(q, t)
        \/ \E st \in {"sent", "accepted", "declined", "void"} : Decide(q, st)
        \/ SweepExpiredQuotes(q)

DealsSpec == DealsInit /\ [][DealsNext]_dealVars

----------------------------------------------------------------------------
DealsTypeOK ==
    /\ deals \in Seq([stage : Stages, amount : Amounts])
    /\ \A q \in DOMAIN quotes :
        /\ quotes[q].deal \in DOMAIN deals /\ quotes[q].ver \in Nat \ {0}
        /\ quotes[q].seen < q /\ quotes[q].text \in Texts
    /\ \A u \in Users : request[u].kind \in {"none", "create", "move", "quote", "numbered", "superseded"}
    /\ edited \subseteq DOMAIN deals

\* A won deal has an amount ("a won deal must have money", policy.go:176), unless
\* its amount was edited between the read and the write of the move: the
\* condition of the update is on the stage alone (service.go:306).
WonWithAmount ==
    \A d \in DOMAIN deals \ edited : deals[d].stage = Won => deals[d].amount > 0

\* Two quotes of one deal have different versions ("two v1 side by side" must
\* not be, quote.go:81), unless the later one was numbered before the earlier one
\* was inserted; whatever was superseded, voided or declined in between.
VersionsDiffer ==
    \A p, q \in DOMAIN quotes :
        p < q /\ quotes[p].deal = quotes[q].deal /\ quotes[p].ver = quotes[q].ver
            => quotes[q].seen < p
=============================================================================
