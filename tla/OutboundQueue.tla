--------------------------- MODULE OutboundQueue ---------------------------
(***************************************************************************)
(* The table channel_outbound and the workers that empty it                *)
(* (internal/channel/outbound.go).  A worker claims due rows in one        *)
(* transaction, offers them to the provider one after the other, and       *)
(* writes each result back by id.  The lock of the ticker is left out:     *)
(* without Redis there is none, and the claim is there to do without it.   *)
(*                                                                         *)
(* Time is abstracted: a row is due at any moment, and a row that is       *)
(* sending becomes five minutes old at any moment.                         *)
(***************************************************************************)
EXTENDS Naturals, Sequences, Functions

CONSTANTS
    Workers,
    Messages,
    MaxRetries,   \* maxRetries: 5
    \* bounds of a run: rows; crashes, failed writes and rows held too long;
    \* dead letters sent again
    MaxRows, MaxMishaps, MaxResends

VARIABLES
    out,          \* the rows: message, status, retries
    aged,         \* the rows whose updated_at is older than staleSendingTTL
    batch,        \* worker -> the retries in the copies it claimed and has not finished
    answer,       \* worker -> what the provider said of the first of them
    accepted,     \* history: the rows that the provider has taken
    overrun,      \* history: the rows that a living worker held too long
    mishaps, resends

work == <<batch, answer>>
tally == <<mishaps, resends>>
outboundVars == <<out, aged, batch, answer, accepted, overrun, mishaps, resends>>

Rows == DOMAIN out
Holds(w, i) == i \in DOMAIN batch[w]
\* A batch is gone through in the order of the ids.
First(w, i) == Holds(w, i) /\ \A j \in DOMAIN batch[w] : i <= j
Holders(i) == {w \in Workers : Holds(w, i)}
InStatus(s) == {i \in Rows : out[i].status = s}

OutboundInit ==
    /\ out = <<>> /\ aged = {}
    /\ batch = [w \in Workers |-> <<>>]
    /\ answer = [w \in Workers |-> "none"]
    /\ accepted = {} /\ overrun = {}
    /\ mishaps = 0 /\ resends = 0

\* Enqueue, as part of an action of its caller.
AddRow(m) ==
    /\ Len(out) < MaxRows
    /\ out' = Append(out, [msg |-> m, status |-> "pending", retries |-> 0])

(***************************************************************************)
(* claimDueOutbound                                                        *)
(***************************************************************************)

\* Mutant: rows of a dead worker are never taken back.
MutRevived == {}
\* The rows sending for five minutes become pending again.
Revived == InStatus("sending") \cap aged

\* Mutant: a bare SELECT that leaves the rows pending.
MutMarked(rows) == [i \in Rows |-> out[i]]
\* The claimed rows are sending, the other revived ones pending.
Marked(rows) ==
    [i \in Rows |-> [out[i] EXCEPT !.status =
        IF i \in rows THEN "sending" ELSE IF i \in Revived THEN "pending" ELSE @]]

Claim(w, rows) ==
    /\ batch[w] = <<>>
    /\ rows # {} /\ rows \subseteq InStatus("pending") \cup Revived
    /\ out' = Marked(rows)
    /\ batch' = [batch EXCEPT ![w] = [i \in rows |-> out[i].retries]]
    /\ aged' = aged \ (rows \cup Revived)
    /\ UNCHANGED <<answer, accepted, overrun, tally>>

(***************************************************************************)
(* ProcessDueOutbound: sendOne and the write of its result                 *)
(***************************************************************************)

\* An error may come after the provider has taken the message.  The second try
\* with a fresh token, and the end of the 15 seconds of the round, are errors too.
Send(w, i) ==
    /\ First(w, i) /\ answer[w] = "none"
    /\ \E a \in {"sent", "fatal", "error"} :
        /\ answer' = [answer EXCEPT ![w] = a]
        /\ \/ a # "fatal" /\ accepted' = accepted \cup {i}
           \/ a # "sent" /\ UNCHANGED accepted
    /\ UNCHANGED <<out, aged, batch, overrun, tally>>

\* Mutant: the limit is tested before the retry is counted.
MutExhausted(n) == n > MaxRetries
Exhausted(n) == n + 1 > MaxRetries

\* The row after the result; n are the retries in the copy.
Result(row, a, n) ==
    CASE a = "sent"  -> [row EXCEPT !.status = "sent"]
      [] a = "fatal" -> [row EXCEPT !.status = "failed"]
      [] a = "error" -> IF Exhausted(n)
                        THEN [row EXCEPT !.status = "failed"]
                        ELSE [row EXCEPT !.status = "pending", !.retries = n + 1]

\* The update goes by id alone; an error of the update is ignored.
Write(w, i) ==
    /\ First(w, i) /\ answer[w] # "none"
    /\ \/ /\ out' = [out EXCEPT ![i] = Result(@, answer[w], batch[w][i])]
          /\ aged' = aged \ {i}
          /\ UNCHANGED mishaps
       \/ /\ mishaps < MaxMishaps /\ mishaps' = mishaps + 1
          /\ UNCHANGED <<out, aged>>
    /\ batch' = [batch EXCEPT ![w] = Restrict(@, DOMAIN @ \ {i})]
    /\ answer' = [answer EXCEPT ![w] = "none"]
    /\ UNCHANGED <<accepted, overrun, resends>>

(***************************************************************************)
(* Time, death, and the dead letters                                       *)
(***************************************************************************)

\* Five minutes pass for a row that is sending; that a living worker needs as
\* long for its batch is a mishap.
Age(i) ==
    /\ i \in InStatus("sending") \ aged
    /\ aged' = aged \cup {i}
    /\ IF Holders(i) = {} THEN UNCHANGED <<overrun, mishaps>>
       ELSE /\ mishaps < MaxMishaps /\ mishaps' = mishaps + 1
            /\ overrun' = overrun \cup {i}
    /\ UNCHANGED <<out, work, accepted, resends>>

WorkerDies(w) ==
    /\ batch[w] # <<>>
    /\ mishaps < MaxMishaps /\ mishaps' = mishaps + 1
    /\ batch' = [batch EXCEPT ![w] = <<>>]
    /\ answer' = [answer EXCEPT ![w] = "none"]
    /\ UNCHANGED <<out, aged, accepted, overrun, resends>>

RetryDeadLetter(i) ==
    /\ i \in InStatus("failed")
    /\ resends < MaxResends /\ resends' = resends + 1
    /\ out' = [out EXCEPT ![i].status = "pending", ![i].retries = 0]
    /\ UNCHANGED <<aged, work, accepted, overrun, mishaps>>

OutboundNext ==
    \/ \E w \in Workers :
        \/ \E rows \in SUBSET Rows : Claim(w, rows)
        \/ \E i \in Rows : Send(w, i) \/ Write(w, i)
        \/ WorkerDies(w)
    \/ \E i \in Rows : Age(i) \/ RetryDeadLetter(i)

----------------------------------------------------------------------------
OutboundTypeOK ==
    /\ out \in Seq([msg : Messages, status : {"pending", "sending", "sent", "failed"}, retries : 0 .. MaxRetries])
    /\ aged \subseteq Rows /\ accepted \subseteq Rows /\ overrun \subseteq Rows
    /\ \A w \in Workers :
        /\ DOMAIN batch[w] \subseteq Rows /\ \A i \in DOMAIN batch[w] : batch[w][i] \in 0 .. MaxRetries
        /\ answer[w] \in {"none", "sent", "fatal", "error"}
        /\ answer[w] # "none" => batch[w] # <<>>

\* Claiming is exclusive (the promise at outbound.go:64): no two workers hold
\* one row, and a row that was sent is not sent again, unless somebody has held
\* that row for more than five minutes.
OneOwner ==
    \A i \in Rows \ overrun :
        /\ \A v, w \in Workers : Holds(v, i) /\ Holds(w, i) => v = w
        /\ out[i].status = "sent" => Holders(i) = {}
=============================================================================
