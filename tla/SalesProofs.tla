---------------------------- MODULE SalesProofs ----------------------------
(***************************************************************************)
(* What holds of the modules that sell: of OutboundQueue and Outreach for  *)
(* any sets of workers and tasks, any limits, and any number of rows,      *)
(* crashes and failures; of Deals for any sets of requests and amounts,    *)
(* any stages, and any number of deals and quotes.  The two share nothing. *)
(***************************************************************************)
EXTENDS Outreach, Deals, FiniteSetTheorems, SequenceTheorems, WellFoundedInduction, TLAPS

(***************************************************************************)
(* The outbound queue and the outreach tasks.                              *)
(***************************************************************************)
\* What a row says of the worker that holds it, unless he held it for too long.
Answers == {"none", "sent", "fatal", "error"}
RowStatus == {"pending", "sending", "sent", "failed"}
RowType == [msg : Tasks, status : RowStatus, retries : Nat]
RowOwned(i) ==
    i \notin overrun =>
        /\ \A v, w \in Workers : Holds(v, i) /\ Holds(w, i) => v = w
        /\ \A w \in Workers : Holds(w, i) => out[i].status = "sending" /\ i \notin aged

QueueTyped ==
    /\ out \in Seq(RowType)
    /\ \A w \in Workers :
        /\ DOMAIN batch[w] \subseteq Rows
        /\ \A i \in DOMAIN batch[w] : batch[w][i] \in Nat
        /\ answer[w] \in Answers
    /\ batch = [w \in Workers |-> batch[w]]
    /\ answer = [w \in Workers |-> answer[w]]

QueueInv == QueueTyped /\ \A i \in Rows : RowOwned(i)

\* A row is rewritten, or all of them are.
LEMMA OneRewritten ==
    ASSUME NEW S, NEW s \in Seq(S), NEW i \in 1 .. Len(s), NEW e \in S, NEW t, t = [s EXCEPT ![i] = e]
    PROVE  t \in Seq(S) /\ Len(t) = Len(s) /\ t[i] = e /\ \A j \in 1 .. Len(s) \ {i} : t[j] = s[j]
  OBVIOUS

LEMMA AllRewritten ==
    ASSUME NEW S, NEW n \in Nat, NEW t, t = [i \in 1 .. n |-> t[i]], \A i \in 1 .. n : t[i] \in S
    PROVE  t \in Seq(S) /\ Len(t) = n
<1>1. t \in [1 .. n -> S]
  OBVIOUS
<1> QED
  BY <1>1

\* What the result of a send makes of a row, and the retry of a dead letter.
LEMMA Results ==
    ASSUME NEW r \in RowType, NEW n \in Nat
    PROVE  /\ [r EXCEPT !.status = "sent"] \in RowType /\ [r EXCEPT !.status = "sent"].msg = r.msg
           /\ [r EXCEPT !.status = "failed"] \in RowType /\ [r EXCEPT !.status = "failed"].msg = r.msg
           /\ [r EXCEPT !.status = "pending", !.retries = n] \in RowType
           /\ [r EXCEPT !.status = "pending", !.retries = n].msg = r.msg
  BY DEF RowType, RowStatus

LEMMA QueueInvInit == OutboundInit => QueueInv
<1> SUFFICES ASSUME OutboundInit PROVE QueueInv
  OBVIOUS
<1>1. out = <<>> /\ Rows = {} /\ \A w \in Workers : batch[w] = <<>> /\ answer[w] \in Answers
  BY DEF OutboundInit, Rows, Answers
<1>3. out \in Seq(RowType)
  BY <1>1
<1>2. DOMAIN <<>> = {}
  OBVIOUS
<1> QED
  BY <1>1, <1>2, <1>3 DEF OutboundInit, QueueInv, QueueTyped

\* What a step of the queue needs of the invariant.
LEMMA QueueFacts ==
    ASSUME QueueInv
    PROVE  /\ out \in Seq(RowType) /\ Len(out) \in Nat /\ Rows = 1 .. Len(out)
           /\ \A i \in Rows : out[i] \in RowType
           /\ \A w \in Workers : DOMAIN batch[w] \subseteq Rows
           /\ \A w \in Workers : \A i \in DOMAIN batch[w] : batch[w][i] \in Nat
           /\ batch = [w \in Workers |-> batch[w]]
           /\ \A i \in Rows : RowOwned(i)
<1>1. out \in Seq(RowType)
  BY DEF QueueInv, QueueTyped
<1>2. Len(out) \in Nat /\ Rows = 1 .. Len(out) /\ \A i \in Rows : out[i] \in RowType
  BY <1>1, LenProperties, ElementOfSeq DEF Rows
<1> QED
  BY <1>1, <1>2 DEF QueueInv, QueueTyped

\* A new row has no holder.
LEMMA QueueInvAddRow ==
    ASSUME QueueInv, NEW t \in Tasks, AddRow(t), UNCHANGED <<aged, batch, answer, overrun>>
    PROVE  /\ QueueInv'
           /\ Len(out) \in Nat /\ Rows = 1 .. Len(out) /\ Rows' = 1 .. Len(out) + 1
           /\ out'[Len(out) + 1].msg = t /\ \A i \in Rows : out'[i] = out[i]
<1> DEFINE r == [msg |-> t, status |-> "pending", retries |-> 0]
           n == Len(out)
<1>0. batch' = batch /\ answer' = answer /\ aged' = aged /\ overrun' = overrun
  OBVIOUS
<1>1. out' = Append(out, r) /\ r \in RowType
  BY DEF AddRow, RowStatus, RowType
<1>2. r.msg = t
  OBVIOUS
<1> HIDE DEF r
<1>3. out \in Seq(RowType) /\ n \in Nat /\ Rows = 1 .. n /\ \A w \in Workers : DOMAIN batch[w] \subseteq Rows
  BY QueueFacts
<1>4. /\ out' \in Seq(RowType) /\ Rows' = 1 .. n + 1
      /\ out'[n + 1] = r /\ \A i \in Rows : out'[i] = out[i]
  BY <1>1, <1>3 DEF Rows
<1> HIDE DEF n
<1>5. QueueTyped'
  BY <1>0, <1>3, <1>4 DEF QueueInv, QueueTyped
<1>6. \A i \in Rows : RowOwned(i)'
  BY <1>0, <1>4, QueueFacts DEF RowOwned, Holds
<1>8. \A i \in Nat \ Rows : RowOwned(i)'
  BY <1>0, <1>3 DEF RowOwned, Holds
<1>9. \A i \in Rows' : RowOwned(i)'
  <2> SUFFICES ASSUME NEW i \in Rows' PROVE RowOwned(i)'
    OBVIOUS
  <2>1. i \in Rows \/ i \in Nat \ Rows
    BY <1>3, <1>4
  <2> QED
    BY <2>1, <1>6, <1>8
<1>10. QueueInv'
  BY <1>5, <1>9 DEF QueueInv
<1> QED
  BY <1>2, <1>3, <1>4, <1>10 DEF n

\* A step of the queue keeps the invariant, and the messages of the rows.
QueueKept == QueueInv' /\ Rows' = Rows /\ \A i \in Rows : out'[i].msg = out[i].msg

LEMMA QueueInvNext == QueueInv /\ [OutboundNext]_outboundVars => QueueKept
<1> SUFFICES ASSUME QueueInv, [OutboundNext]_outboundVars PROVE QueueKept
  OBVIOUS
<1> USE QueueFacts
<1>0. answer = [w \in Workers |-> answer[w]] /\ \A w \in Workers : answer[w] \in Answers
  BY DEF QueueInv, QueueTyped
<1>1. ASSUME NEW w \in Workers, NEW rows \in SUBSET Rows, Claim(w, rows) PROVE QueueKept
  <2>1. out' = Marked(rows) /\ aged' = aged \ (rows \cup Revived) /\ UNCHANGED <<answer, overrun>>
    BY <1>1 DEF Claim
  <2>2. batch' = [batch EXCEPT ![w] = [i \in rows |-> out[i].retries]]
    BY <1>1 DEF Claim
  <2>3. \A i \in rows : out[i].status = "pending" \/ (out[i].status = "sending" /\ i \in aged)
    BY <1>1 DEF Claim, InStatus, Revived
  <2>4. DOMAIN batch[w] = {}
    BY <1>1 DEF Claim
  <2>5. /\ out' = [i \in 1 .. Len(out) |-> out'[i]]
        /\ \A i \in Rows : out'[i] \in RowType /\ out'[i].msg = out[i].msg
        /\ \A i \in rows : out'[i].status = "sending"
        /\ \A i \in Rows \ (rows \cup Revived) : out'[i].status = out[i].status
    BY <2>1 DEF Marked, RowStatus, RowType, Rows
  <2>6. out' \in Seq(RowType) /\ Rows' = Rows
    BY <2>5, AllRewritten DEF Rows
  <2>7. /\ DOMAIN batch'[w] = rows /\ \A v \in Workers \ {w} : batch'[v] = batch[v]
        /\ \A i \in rows : batch'[w][i] \in Nat
        /\ batch' = [v \in Workers |-> batch'[v]]
    BY <2>2 DEF RowType
  <2>8. ASSUME NEW i \in Rows PROVE RowOwned(i)'
    <3> SUFFICES ASSUME i \notin overrun PROVE RowOwned(i)'
      BY <2>1 DEF RowOwned
    <3>1. CASE i \in rows
      <4>1. \A v \in Workers : ~Holds(v, i)
        BY <3>1, <2>3 DEF RowOwned
      <4>2. \A v \in Workers : Holds(v, i)' => v = w
        BY <4>1, <2>7 DEF Holds
      <4>3. out'[i].status = "sending" /\ i \notin aged'
        BY <3>1, <2>1, <2>5
      <4> QED
        BY <4>2, <4>3 DEF RowOwned
    <3>2. CASE i \notin rows
      <4>1. \A v \in Workers : Holds(v, i)' => Holds(v, i)
        BY <3>2, <2>7 DEF Holds
      <4>2. (\E v \in Workers : Holds(v, i)) => i \notin Revived /\ out[i].status = "sending" /\ i \notin aged
        BY DEF RowOwned, Revived
      <4>3. (\E v \in Workers : Holds(v, i)) => out'[i].status = "sending" /\ i \notin aged'
        BY <3>2, <4>2, <2>1, <2>5
      <4> QED
        BY <4>1, <4>3 DEF RowOwned
    <3> QED
      BY <3>1, <3>2
  <2> QED
    BY <1>0, <2>1, <2>5, <2>6, <2>7, <2>8 DEF QueueKept, QueueInv, QueueTyped
<1>2. ASSUME NEW w \in Workers, NEW i \in Rows, Send(w, i) PROVE QueueKept
  <2>1. UNCHANGED <<out, aged, batch, overrun>>
    BY <1>2 DEF Send
  <2>2. answer' = [v \in Workers |-> answer'[v]] /\ \A v \in Workers : answer'[v] \in Answers
    BY <1>0, <1>2 DEF Send, Answers
  <2> QED
    BY <2>1, <2>2 DEF QueueKept, QueueInv, QueueTyped, RowOwned, Holds, Rows
<1>3. ASSUME NEW w \in Workers, NEW i \in Rows, Write(w, i) PROVE QueueKept
  <2> DEFINE row == Result(out[i], answer[w], batch[w][i])
  <2>1. Holds(w, i) /\ overrun' = overrun
    BY <1>3 DEF Write, First
  <2>2. /\ DOMAIN batch'[w] = DOMAIN batch[w] \ {i} /\ \A v \in Workers \ {w} : batch'[v] = batch[v]
        /\ \A j \in DOMAIN batch[w] \ {i} : batch'[w][j] = batch[w][j]
        /\ batch' = [v \in Workers |-> batch'[v]]
    BY <1>3 DEF Write, Restrict
  <2>3. (out' = [out EXCEPT ![i] = row] /\ aged' = aged \ {i}) \/ (out' = out /\ aged' = aged)
    BY <1>3 DEF Write
  <2>4. row \in RowType /\ row.msg = out[i].msg
    <3>1. batch[w][i] \in Nat
      BY <2>1 DEF Holds
    <3>3. answer[w] \in {"sent", "fatal", "error"}
      BY <1>0, <1>3 DEF Write, Answers
    <3>2. batch[w][i] + 1 \in Nat /\ out[i] \in RowType
      BY <3>1
    <3> QED
      BY <3>2, <3>3, Results DEF Result
  <2>8. answer' = [v \in Workers |-> answer'[v]] /\ \A v \in Workers : answer'[v] \in Answers
    BY <1>0, <1>3 DEF Write, Answers
  <2> HIDE DEF row
  <2>5. \A j \in Rows \ {i} : out'[j] = out[j] /\ (j \in aged' <=> j \in aged)
    BY <2>3
  <2>6. out' \in Seq(RowType) /\ Rows' = Rows /\ out'[i].msg = out[i].msg
    BY <2>3, <2>4, OneRewritten DEF Rows
  <2>7. ASSUME NEW j \in Rows PROVE RowOwned(j)'
    <3>1. CASE j = i
      BY <3>1, <2>1, <2>2 DEF RowOwned, Holds
    <3>2. CASE j # i
      BY <3>2, <2>1, <2>2, <2>5 DEF RowOwned, Holds
    <3> QED
      BY <3>1, <3>2
  <2> QED
    BY <2>1, <2>2, <2>5, <2>6, <2>7, <2>8 DEF QueueKept, QueueInv, QueueTyped
<1>4. ASSUME NEW w \in Workers, WorkerDies(w) PROVE QueueKept
  <2>0. DOMAIN <<>> = {}
    OBVIOUS
  <2>1. batch' = [batch EXCEPT ![w] = <<>>] /\ UNCHANGED <<out, aged, overrun>>
    BY <1>4 DEF WorkerDies
  <2>2. /\ DOMAIN batch'[w] = {} /\ \A v \in Workers \ {w} : batch'[v] = batch[v]
        /\ batch' = [v \in Workers |-> batch'[v]]
    BY <2>0, <2>1
  <2>3. answer' = [v \in Workers |-> answer'[v]] /\ \A v \in Workers : answer'[v] \in Answers
    BY <1>0, <1>4 DEF WorkerDies, Answers
  <2>4. \A i \in Rows : RowOwned(i)'
    BY <2>1, <2>2 DEF RowOwned, Holds
  <2> QED
    BY <2>0, <2>1, <2>2, <2>3, <2>4 DEF QueueKept, QueueInv, QueueTyped, Rows
<1>5. ASSUME NEW i \in Rows, Age(i) PROVE QueueKept
  <2>1. UNCHANGED <<out, batch, answer>> /\ aged' = aged \cup {i}
        /\ (overrun' = overrun \/ overrun' = overrun \cup {i})
        /\ ((\E w \in Workers : Holds(w, i)) => overrun' = overrun \cup {i})
    BY <1>5 DEF Age, Holders, work, tally
  <2>2. \A j \in Rows : RowOwned(j)'
    BY <2>1 DEF RowOwned, Holds
  <2> QED
    BY <2>1, <2>2 DEF QueueKept, QueueInv, QueueTyped, Rows
<1>6. ASSUME NEW i \in Rows, RetryDeadLetter(i) PROVE QueueKept
  <2> DEFINE row == [out[i] EXCEPT !.status = "pending", !.retries = 0]
  <2>1. UNCHANGED <<aged, batch, answer, overrun>> /\ out[i].status = "failed" /\ out' = [out EXCEPT ![i] = row]
    BY <1>6 DEF RetryDeadLetter, InStatus, work
  <2>3. row \in RowType /\ row.msg = out[i].msg
    BY Results
  <2> HIDE DEF row
  <2>4. out' \in Seq(RowType) /\ Rows' = Rows /\ out'[i] = row /\ \A j \in Rows \ {i} : out'[j] = out[j]
    BY <2>1, <2>3, OneRewritten DEF Rows
  <2>5. \A j \in Rows : RowOwned(j)'
    BY <2>1, <2>4 DEF RowOwned, Holds
  <2> QED
    BY <2>1, <2>3, <2>4, <2>5 DEF QueueKept, QueueInv, QueueTyped
<1>7. CASE UNCHANGED outboundVars
  BY <1>7 DEF outboundVars, work, tally, QueueKept, QueueInv, QueueTyped, RowOwned, Holds, Rows
<1> QED
  BY <1>1, <1>2, <1>3, <1>4, <1>5, <1>6, <1>7 DEF OutboundNext

\* The promise of the claim (outbound.go:64), for any number of workers: no two
\* hold one row, and a row that was sent is not sent again, unless somebody held
\* it for more than five minutes.
LEMMA OwnedRows == QueueInv => OneOwner
  BY DEF QueueInv, RowOwned, OneOwner, Holders

----------------------------------------------------------------------------
\* The rows of a task, against the times at which its mark was not written: a task
\* that may still be enqueued has none besides those.
RowsOf(t) == {i \in Rows : out[i].msg = t}
Count(t) == Cardinality(RowsOf(t))
InHand(t) == \E i \in Rows : <<t, i>> \in enqueued
Waiting(t) == task[t].st \in {"none", "pending"} \/ t \in round

TaskStates == {"none", "pending", "queued", "sent", "failed", "skipped", "cancelled"}
RoundTyped ==
    /\ task \in [Tasks -> [st : TaskStates, tries : Nat, ob : Nat]]
    /\ torn \in [Tasks -> Nat]
    /\ round = Idle \/ round \subseteq Tasks
    /\ round = Idle => enqueued = {}
    /\ enqueued = {} \/ \E t \in round, i \in Rows : enqueued = {<<t, i>>}

Counted(t) ==
    /\ Count(t) <= 1 + torn[t]
    /\ Waiting(t) /\ ~InHand(t) => Count(t) <= torn[t]

RoundInv == RoundTyped /\ \A t \in Tasks : Counted(t)

\* The word that says that no round runs is no task.
ReachConstants == "idle" \notin Tasks

LEMMA CountIsNat == QueueInv => \A t \in Tasks : Count(t) \in Nat
<1> SUFFICES ASSUME QueueInv, NEW t \in Tasks PROVE Count(t) \in Nat
  OBVIOUS
<1>1. IsFiniteSet(Rows)
  BY QueueFacts, FS_Interval
<1>2. IsFiniteSet(RowsOf(t))
  BY <1>1, FS_Subset DEF RowsOf
<1> QED
  BY <1>2, FS_CardinalityType DEF Count

\* The queue of messages does its work: the counts stay.
LEMMA CountKept ==
    QueueInv /\ [OutboundNext]_outboundVars =>
        /\ QueueInv' /\ Rows' = Rows
        /\ \A t \in Tasks : Count(t)' = Count(t)
<1> SUFFICES ASSUME QueueInv, [OutboundNext]_outboundVars
             PROVE  QueueInv' /\ Rows' = Rows /\ \A t \in Tasks : Count(t)' = Count(t)
  OBVIOUS
<1>1. QueueKept
  BY QueueInvNext
<1>2. \A t \in Tasks : RowsOf(t)' = RowsOf(t)
  BY <1>1 DEF QueueKept, RowsOf
<1> QED
  BY <1>1, <1>2 DEF QueueKept, Count

\* The dispatcher adds a row: one more for its task.
LEMMA CountAdded ==
    ASSUME QueueInv, NEW t \in Tasks, AddRow(t), UNCHANGED <<aged, batch, answer, overrun>>
    PROVE  /\ QueueInv' /\ Rows' = 1 .. Len(out) + 1 /\ Len(out) \in Nat
           /\ Rows \subseteq Rows'
           /\ Count(t)' = Count(t) + 1 /\ \A s \in Tasks \ {t} : Count(s)' = Count(s)
<1> DEFINE n == Len(out)
<1>1. /\ QueueInv' /\ n \in Nat /\ Rows = 1 .. n /\ Rows' = 1 .. n + 1
      /\ out'[n + 1].msg = t /\ \A i \in Rows : out'[i] = out[i]
  BY QueueInvAddRow
<1>2. /\ Rows' = Rows \cup {Len(out) + 1} /\ Len(out) + 1 \notin Rows /\ Rows \subseteq Rows'
      /\ out'[Len(out) + 1].msg = t
  BY <1>1
<1>3. RowsOf(t)' = RowsOf(t) \cup {Len(out) + 1} /\ Len(out) + 1 \notin RowsOf(t)
  BY <1>1, <1>2 DEF RowsOf
<1>4. \A s \in Tasks \ {t} : RowsOf(s)' = RowsOf(s)
  BY <1>1, <1>2 DEF RowsOf
<1>5. IsFiniteSet(RowsOf(t))
  <2>1. Rows = 1 .. Len(out) /\ 1 \in Int /\ Len(out) \in Int
    BY DEF QueueInv, QueueTyped, Rows
  <2>2. IsFiniteSet(Rows)
    BY <2>1, FS_Interval
  <2> QED
    BY <2>2, FS_Subset DEF RowsOf
<1>6. Cardinality(RowsOf(t) \cup {Len(out) + 1}) = Cardinality(RowsOf(t)) + 1
  BY <1>3, <1>5, FS_AddElement
<1> QED
  BY <1>1, <1>2, <1>3, <1>4, <1>6 DEF Count

LEMMA RoundInvInit == ReachConstants /\ Init => QueueInv /\ RoundInv
<1> SUFFICES ASSUME ReachConstants, Init PROVE QueueInv /\ RoundInv
  OBVIOUS
<1>1. QueueInv
  BY QueueInvInit DEF Init
<1>2. Rows = {} /\ \A t \in Tasks : Count(t) = 0
  BY FS_EmptySet DEF Init, OutboundInit, Rows, RowsOf, Count
<1> QED
  BY <1>1, <1>2 DEF Init, RoundInv, RoundTyped, Counted, TaskStates

\* A step of the dispatcher that adds no row.
LEMMA Stable ==
    ASSUME QueueInv, UNCHANGED <<out, aged, batch, answer, overrun>>
    PROVE  QueueInv' /\ Rows' = Rows /\ \A t \in Tasks : Count(t)' = Count(t)
  BY DEF QueueInv, QueueTyped, RowOwned, Holds, Rows, RowsOf, Count

LEMMA RoundInvNext == ReachConstants /\ QueueInv /\ RoundInv /\ [Next]_outreachVars => QueueInv' /\ RoundInv'
<1> SUFFICES ASSUME ReachConstants, QueueInv, RoundInv, [Next]_outreachVars PROVE QueueInv' /\ RoundInv'
  OBVIOUS
<1>0. /\ RoundTyped /\ \A t \in Tasks : Counted(t)
      /\ \A t \in Tasks : Count(t) \in Nat /\ torn[t] \in Nat
  BY CountIsNat DEF RoundInv, RoundTyped
<1> USE <1>0 DEF ReachConstants
<1>1. ASSUME UNCHANGED outboundVars PROVE UNCHANGED <<out, aged, batch, answer, overrun>>
  BY <1>1 DEF outboundVars, work
<1>2. CASE QueueStep
  <2>1. /\ QueueInv' /\ Rows' = Rows /\ \A t \in Tasks : Count(t)' = Count(t)
        /\ UNCHANGED <<task, round, enqueued, torn>>
    BY <1>2, CountKept DEF QueueStep, dispatcher
  <2> QED
    BY <2>1 DEF RoundInv, RoundTyped, Counted, Waiting, InHand
<1>3. ASSUME NEW t \in Tasks, CreateTask(t) \/ Cancel(t) \/ Sync(t) PROVE QueueInv' /\ RoundInv'
  <2>1. /\ QueueInv' /\ Rows' = Rows /\ \A s \in Tasks : Count(s)' = Count(s)
        /\ UNCHANGED <<round, enqueued, torn>>
    BY <1>1, <1>3, Stable DEF CreateTask, Cancel, Sync, dispatcher
  <2>2. /\ task' \in [Tasks -> [st : TaskStates, tries : Nat, ob : Nat]]
        /\ \A s \in Tasks : task'[s].st \in {"none", "pending"} => task[s].st \in {"none", "pending"}
    BY <1>3 DEF CreateTask, Cancel, Sync, RoundTyped, TaskStates
  <2> QED
    BY <2>1, <2>2 DEF RoundInv, RoundTyped, Counted, Waiting, InHand
<1>4. ASSUME NEW t \in Tasks, Skip(t) PROVE QueueInv' /\ RoundInv'
  <2>1. /\ QueueInv' /\ Rows' = Rows /\ \A s \in Tasks : Count(s)' = Count(s)
        /\ UNCHANGED <<enqueued, torn>>
    BY <1>1, <1>4, Stable DEF Skip
  <2>2. /\ task' \in [Tasks -> [st : TaskStates, tries : Nat, ob : Nat]]
        /\ \A s \in Tasks : task'[s].st \in {"none", "pending"} => task[s].st \in {"none", "pending"}
        /\ round' = round \ {t} /\ enqueued = {} /\ t \in round
    BY <1>4 DEF Skip, Listed, RoundTyped, TaskStates
  <2>3. round \subseteq Tasks
    BY <2>2 DEF RoundTyped, Idle
  <2> QED
    BY <2>1, <2>2, <2>3 DEF RoundInv, RoundTyped, Counted, Waiting, InHand
<1>5. ASSUME NEW t \in Tasks, TryLater(t) PROVE QueueInv' /\ RoundInv'
  <2>1. /\ task' \in [Tasks -> [st : TaskStates, tries : Nat, ob : Nat]]
        /\ \A s \in Tasks : task'[s].st \in {"none", "pending"} => task[s].st \in {"none", "pending"}
        /\ round' = round \ {t} /\ enqueued = {} /\ enqueued' = enqueued /\ t \in round
    BY <1>5 DEF TryLater, Listed, RoundTyped, TaskStates
  <2>2. round \subseteq Tasks
    BY <2>1 DEF RoundTyped, Idle
  <2>3. Count(t) <= torn[t]
    BY <2>1 DEF Counted, Waiting, InHand
  <2>4. CASE UNCHANGED <<outboundVars, torn>>
    <3>1. QueueInv' /\ Rows' = Rows /\ torn' = torn /\ \A s \in Tasks : Count(s)' = Count(s)
      BY <1>1, <2>4, Stable
    <3> QED
      BY <2>1, <2>2, <3>1 DEF RoundInv, RoundTyped, Counted, Waiting, InHand
  <2>5. CASE AddRow(t) /\ torn' = [torn EXCEPT ![t] = @ + 1] /\ UNCHANGED <<aged, work, overrun>>
    <3>1. /\ QueueInv' /\ Count(t)' = Count(t) + 1 /\ \A s \in Tasks \ {t} : Count(s)' = Count(s)
      BY <2>5, CountAdded DEF work
    <3>2. torn' \in [Tasks -> Nat] /\ torn'[t] = torn[t] + 1 /\ \A s \in Tasks \ {t} : torn'[s] = torn[s]
      BY <2>5 DEF RoundTyped
    <3>3. Counted(t)'
      BY <2>3, <3>1, <3>2 DEF Counted
    <3>4. \A s \in Tasks \ {t} : Counted(s)'
      BY <2>1, <3>1, <3>2 DEF Counted, Waiting, InHand
    <3> QED
      BY <2>1, <2>2, <3>1, <3>2, <3>3, <3>4 DEF RoundInv, RoundTyped
  <2> QED
    BY <1>5, <2>4, <2>5 DEF TryLater
<1>6. ASSUME NEW t \in Tasks, Enqueue(t) PROVE QueueInv' /\ RoundInv'
  <2>1. /\ AddRow(t) /\ t \in round /\ enqueued = {} /\ enqueued' = {<<t, Len(out) + 1>>}
        /\ UNCHANGED <<aged, batch, answer, overrun, task, round, torn>>
    BY <1>6 DEF Enqueue, Listed, work
  <2>2. round \subseteq Tasks
    BY <2>1 DEF RoundTyped, Idle
  <2>3. Count(t) <= torn[t]
    BY <2>1 DEF Counted, Waiting, InHand
  <2>4. /\ QueueInv' /\ Rows' = 1 .. Len(out) + 1 /\ Len(out) \in Nat /\ Rows \subseteq Rows'
        /\ Count(t)' = Count(t) + 1 /\ \A s \in Tasks \ {t} : Count(s)' = Count(s)
    BY <2>1, CountAdded
  <2>5. Len(out) + 1 \in Rows'
    BY <2>4
  <2>6. InHand(t)' /\ round' # Idle
    BY <2>1, <2>2, <2>5 DEF InHand, Idle
  <2>7. RoundTyped'
    BY <2>1, <2>2, <2>5, <2>6 DEF RoundTyped
  <2>8. Counted(t)'
    BY <2>1, <2>3, <2>4, <2>6 DEF Counted
  <2>9. \A s \in Tasks \ {t} : Counted(s)'
    BY <2>1, <2>4 DEF Counted, Waiting, InHand
  <2> QED
    BY <2>4, <2>7, <2>8, <2>9 DEF RoundInv
<1>7. ASSUME NEW t \in Tasks, AfterEnqueue(t) PROVE QueueInv' /\ RoundInv'
  <2>1. /\ QueueInv' /\ Rows' = Rows /\ \A s \in Tasks : Count(s)' = Count(s)
        /\ torn' = torn /\ round' = round \ {t} /\ enqueued' = {}
    BY <1>1, <1>7, Stable DEF AfterEnqueue
  <2>2. PICK i \in Rows : <<t, i>> \in enqueued /\ MarkQueued(t, i)
    BY <1>7 DEF AfterEnqueue
  <2>3. enqueued = {<<t, i>>} /\ t \in round
    BY <2>2 DEF RoundTyped
  <2>4. round \subseteq Tasks
    BY <2>3 DEF RoundTyped, Idle
  <2>5. i \in Nat
    BY QueueFacts
  <2>6. /\ task' \in [Tasks -> [st : TaskStates, tries : Nat, ob : Nat]]
        /\ task'[t].st = "queued" /\ \A s \in Tasks \ {t} : task'[s] = task[s]
    BY <2>2, <2>5 DEF MarkQueued, RoundTyped, TaskStates
  <2>7. Counted(t)'
    BY <2>1, <2>6 DEF Counted, Waiting
  <2>8. \A s \in Tasks \ {t} : Counted(s)'
    BY <2>1, <2>3, <2>6 DEF Counted, Waiting, InHand
  <2>9. RoundTyped'
    BY <2>1, <2>4, <2>6 DEF RoundTyped
  <2> QED
    BY <2>1, <2>7, <2>8, <2>9 DEF RoundInv
<1>8. CASE BeginRound \/ EndRound
  <2>1. /\ QueueInv' /\ Rows' = Rows /\ \A s \in Tasks : Count(s)' = Count(s)
        /\ UNCHANGED <<task, enqueued, torn>>
    BY <1>1, <1>8, Stable DEF BeginRound, EndRound
  <2>2. \A s \in Tasks : Waiting(s)' => Waiting(s)
    BY <1>8, <2>1 DEF BeginRound, EndRound, Waiting, TasksIn, Idle
  <2>3. enqueued = {} /\ (round' = Idle \/ round' \subseteq Tasks)
    BY <1>8 DEF BeginRound, EndRound, TasksIn, RoundTyped, Idle
  <2> QED
    BY <2>1, <2>2, <2>3 DEF RoundInv, RoundTyped, Counted, InHand
<1>9. CASE RoundBreaks
  <2>1. /\ QueueInv' /\ Rows' = Rows /\ \A s \in Tasks : Count(s)' = Count(s)
        /\ task' = task /\ round' = Idle /\ enqueued' = {}
    BY <1>9, Stable DEF RoundBreaks, QueueStays, work
  <2>2. torn' = [t \in Tasks |-> IF InHand(t) THEN torn[t] + 1 ELSE torn[t]]
    BY <1>9 DEF RoundBreaks, InHand
  <2>3. torn' \in [Tasks -> Nat]
    BY <2>2
  <2>4. \A s \in Tasks : Counted(s)'
    <3> SUFFICES ASSUME NEW s \in Tasks PROVE Counted(s)'
      OBVIOUS
    <3>1. Waiting(s)' => Waiting(s)
      BY <2>1 DEF Waiting, Idle
    <3>2. torn'[s] = IF InHand(s) THEN torn[s] + 1 ELSE torn[s]
      BY <2>2
    <3>3. Count(s)' = Count(s) /\ Counted(s) /\ Count(s) \in Nat /\ torn[s] \in Nat
      BY <2>1
    <3>4. CASE InHand(s)
      BY <3>2, <3>3, <3>4 DEF Counted
    <3>5. CASE ~InHand(s)
      BY <3>1, <3>2, <3>3, <3>5 DEF Counted
    <3> QED
      BY <3>4, <3>5
  <2> QED
    BY <2>1, <2>3, <2>4 DEF RoundInv, RoundTyped
<1>10. CASE UNCHANGED outreachVars
  <2>1. /\ QueueInv' /\ Rows' = Rows /\ \A s \in Tasks : Count(s)' = Count(s)
        /\ UNCHANGED <<task, round, enqueued, torn>>
    BY <1>1, <1>10, Stable DEF outreachVars, dispatcher
  <2> QED
    BY <2>1 DEF RoundInv, RoundTyped, Counted, Waiting, InHand
<1> QED
  BY <1>2, <1>3, <1>4, <1>5, <1>6, <1>7, <1>8, <1>9, <1>10 DEF Next, DispatchStep

----------------------------------------------------------------------------
\* OneOwner of OutboundQueue, whatever campaigns fill the queue.
THEOREM RowsHaveOneOwner ==
    ASSUME ReachConstants
    PROVE  Spec => []OneOwner
<1>1. Init => QueueInv /\ RoundInv
  BY RoundInvInit
<1>2. QueueInv /\ RoundInv /\ [Next]_outreachVars => QueueInv' /\ RoundInv'
  BY RoundInvNext
<1>3. QueueInv => OneOwner
  BY OwnedRows
<1> QED
  BY <1>1, <1>2, <1>3, PTL DEF Spec

\* OneRowPerTask of Outreach (dispatch.go:104): every further row of a task is one
\* whose mark was not written.
THEOREM TasksAreEnqueuedOnce ==
    ASSUME ReachConstants
    PROVE  Spec => []OneRowPerTask
<1>1. Init => QueueInv /\ RoundInv
  BY RoundInvInit
<1>2. QueueInv /\ RoundInv /\ [Next]_outreachVars => QueueInv' /\ RoundInv'
  BY RoundInvNext
<1>3. RoundInv => OneRowPerTask
  BY DEF RoundInv, Counted, Count, RowsOf, OneRowPerTask
<1> QED
  BY <1>1, <1>2, <1>3, PTL DEF Spec

(***************************************************************************)
(* The deals and the quotes.                                               *)
(***************************************************************************)
\* A set of naturals that is not empty has a least element.
LEMMA LeastElement ==
    ASSUME NEW S \in SUBSET Nat, S # {}
    PROVE  \E x \in S : \A y \in S : x <= y
<1> DEFINE R == OpToRel(<, Nat)
<1>1. IsWellFoundedOn(R, Nat)
  BY NatLessThanWellFounded, Zenon
<1>2. \A x, y \in Nat : x < y => <<x, y>> \in R
  BY DEF OpToRel
<1> HIDE DEF R
<1>3. PICK x \in S : \A y \in S : <<y, x>> \notin R
  BY <1>1, WFMin
<1>4. \A y \in S : ~(y < x)
  BY <1>2, <1>3
<1> QED
  BY <1>4

\* The highest of the versions up to a bound is one of them.
LEMMA MaxOfVersions ==
    ASSUME NEW n \in Nat, NEW S \in SUBSET (0 .. n), 0 \in S
    PROVE  Max(S) \in S /\ \A y \in S : y <= Max(S)
<1> DEFINE U == {m \in Nat : \A y \in S : y <= m}
<1>1. n \in U
  OBVIOUS
<1>2. PICK m \in U : \A k \in U : m <= k
  BY <1>1, LeastElement
<1>3. m \in S
  <2> SUFFICES ASSUME m \notin S PROVE FALSE
    OBVIOUS
  <2>1. m - 1 \in U
    OBVIOUS
  <2> QED
    BY <2>1, <1>2
<1>4. \E x \in S : \A y \in S : x >= y
  BY <1>3
<1> QED
  BY <1>4 DEF Max

----------------------------------------------------------------------------
DealConstants == Amounts \subseteq Nat /\ LastStage \in Nat

DealType == [stage : Stages, amount : Amounts]
QuoteStates == {"draft", "sent", "accepted", "declined", "void", "superseded", "expired"}
QuoteType == [deal : Nat, ver : Nat, st : QuoteStates, text : Texts, seen : Nat]
NumberType == [kind : {"numbered", "superseded"}, deal : Nat, ver : Nat, seen : Nat]

\* A request that moves a deal: no stage is ever left for a lower one, and while the
\* deal is where the request found it the decision still holds, unless the amount
\* was edited.
MoveOK(r) ==
    /\ r.deal \in DOMAIN deals /\ r.from \in Nat /\ r.to \in Stages /\ r.from < r.to
    /\ r.change = <<>> \/ \E a \in Amounts : r.change = <<a>>
    /\ r.from <= deals[r.deal].stage
    /\ (r.to = Won /\ r.deal \notin edited /\ deals[r.deal].stage = r.from
            => NewAmount(deals[r.deal], r.change) > 0)

\* A request that has numbered its quote: above all that it has seen.
NumberOK(r) ==
    /\ r \in NumberType /\ r.seen <= Len(quotes) /\ r.ver <= r.seen + 1
    /\ \A p \in DOMAIN quotes : p <= r.seen /\ quotes[p].deal = r.deal => quotes[p].ver < r.ver

Moving(r) == r.kind = "move"
Numbered(r) == r.kind \in {"numbered", "superseded"}
Asked(r) == r.kind = "quote" => r.deal \in Nat

MoveInv ==
    /\ deals \in Seq(DealType) /\ edited \subseteq DOMAIN deals
    /\ request = [u \in Users |-> request[u]]
    /\ \A u \in Users : Moving(request[u]) => MoveOK(request[u])
    /\ WonWithAmount

QuoteInv ==
    /\ quotes \in Seq(QuoteType)
    /\ \A q \in DOMAIN quotes : quotes[q].ver <= q
    /\ request = [u \in Users |-> request[u]]
    /\ \A u \in Users : Asked(request[u]) /\ (Numbered(request[u]) => NumberOK(request[u]))
    /\ VersionsDiffer

LEMMA DealsInvInit == DealsInit => MoveInv /\ QuoteInv
<1> SUFFICES ASSUME DealsInit PROVE MoveInv /\ QuoteInv
  OBVIOUS
<1>1. DOMAIN <<>> = {}
  OBVIOUS
<1>2. /\ deals = <<>> /\ quotes = <<>> /\ edited = {} /\ request = [u \in Users |-> NoRequest]
      /\ \A u \in Users : ~Moving(request[u]) /\ ~Numbered(request[u]) /\ Asked(request[u])
  BY DEF DealsInit, NoRequest, Moving, Numbered, Asked
<1>3. MoveInv
  BY <1>1, <1>2 DEF MoveInv, WonWithAmount
<1>4. QuoteInv
  BY <1>1, <1>2 DEF QuoteInv, VersionsDiffer
<1> QED
  BY <1>3, <1>4

\* The requests of all but one stay, and the one of that user is r afterwards.
Replaces(u, r) ==
    /\ request' = [v \in Users |-> request'[v]] /\ request'[u] = r
    /\ \A v \in Users \ {u} : request'[v] = request[v]

LEMMA AskReplaces ==
    ASSUME request = [u \in Users |-> request[u]], NEW u \in Users, NEW r,
           request' = [request EXCEPT ![u] = r]
    PROVE  Replaces(u, r)
  BY DEF Replaces

\* A deal moves forward only.
LEMMA ForwardOnly ==
    ASSUME DealConstants, NEW from \in 1 .. LastStage, NEW to \in Stages, NEW amount,
           MayMove(from, to, amount)
    PROVE  from \in Nat /\ from < to /\ (to = Won => amount > 0)
  BY DEF DealConstants, Stages, Won, Lost, MayMove

\* The moves, but for the moved deal, keep what they rely on.
LEMMA MoveInvNext == DealConstants /\ MoveInv /\ [DealsNext]_dealVars => MoveInv'
<1> SUFFICES ASSUME DealConstants, MoveInv, [DealsNext]_dealVars PROVE MoveInv'
  OBVIOUS
<1>0. /\ deals \in Seq(DealType) /\ edited \subseteq DOMAIN deals
      /\ request = [u \in Users |-> request[u]]
      /\ \A u \in Users : Moving(request[u]) => MoveOK(request[u])
      /\ WonWithAmount
      /\ Len(deals) \in Nat /\ DOMAIN deals = 1 .. Len(deals)
      /\ \A d \in DOMAIN deals : deals[d] \in DealType
  <2>1. deals \in Seq(DealType)
    BY DEF MoveInv
  <2> QED
    BY <2>1, LenProperties, ElementOfSeq DEF MoveInv
<1>s. LastStage \in Nat /\ Won = LastStage + 1 /\ Lost = LastStage + 2 /\ Stages = 1 .. LastStage + 2
      /\ Amounts \subseteq Nat
  BY DEF DealConstants, Won, Lost, Stages
\* Nothing of the deals changes, and whoever moves a deal now did so before, or found it so.
<1>a. ASSUME UNCHANGED <<deals, edited>>, request' = [u \in Users |-> request'[u]],
             \A u \in Users : Moving(request'[u]) => request'[u] = request[u] \/ MoveOK(request'[u])
      PROVE  MoveInv'
  <2>1. \A r : MoveOK(r)' <=> MoveOK(r)
    BY <1>a DEF MoveOK
  <2>2. \A u \in Users : Moving(request'[u]) => MoveOK(request'[u])
    BY <1>0, <1>a
  <2>3. \A u \in Users : (Moving(request[u]) => MoveOK(request[u]))'
    BY <2>2, <1>a DEF MoveOK, Moving
  <2> QED
    BY <1>0, <1>a, <2>3 DEF MoveInv, WonWithAmount
<1>b. \A u \in Users : Done(u) => Replaces(u, NoRequest)
  BY <1>0, AskReplaces DEF Done
<1>c. \A u \in Users : \A r : Ask(u, r) => Replaces(u, r)
  BY <1>0, AskReplaces DEF Ask
<1>d. ~Moving(NoRequest)
  BY DEF Moving, NoRequest
<1>1. ASSUME NEW u \in Users, BeginCreateDeal(u) \/ NumberQuote(u) \/ SupersedeLive(u)
                              \/ InsertQuote(u) \/ GiveUp(u)
      PROVE  MoveInv'
  <2>1. UNCHANGED <<deals, edited>>
    BY <1>1 DEF BeginCreateDeal, NumberQuote, SupersedeLive, InsertQuote, GiveUp
  <2>2. CASE BeginCreateDeal(u)
    <3>1. Replaces(u, [kind |-> "create"])
      BY <1>c, <2>2 DEF BeginCreateDeal
    <3> QED
      BY <1>a, <2>1, <3>1 DEF Replaces, Moving
  <2>3. CASE NumberQuote(u)
    <3>1. PICK ver : Replaces(u, [kind |-> "numbered", deal |-> request[u].deal, ver |-> ver, seen |-> Len(quotes)])
      BY <1>0, <2>3, AskReplaces DEF NumberQuote
    <3> QED
      BY <1>a, <2>1, <3>1 DEF Replaces, Moving
  <2>4. CASE SupersedeLive(u)
    <3> DEFINE r == [request[u] EXCEPT !.kind = "superseded"]
    <3>1. Replaces(u, r)
      BY <1>0, <2>4, AskReplaces DEF SupersedeLive
    <3>2. ~Moving(r)
      BY DEF Moving
    <3> HIDE DEF r
    <3> QED
      BY <1>a, <2>1, <3>1, <3>2 DEF Replaces
  <2>5. CASE InsertQuote(u) \/ GiveUp(u)
    <3>1. Replaces(u, NoRequest)
      BY <1>b, <2>5 DEF InsertQuote, GiveUp
    <3> QED
      BY <1>a, <1>d, <2>1, <3>1 DEF Replaces
  <2> QED
    BY <1>1, <2>2, <2>3, <2>4, <2>5
<1>2. ASSUME NEW u \in Users, InsertDeal(u) PROVE MoveInv'
  <2>1. Replaces(u, NoRequest) /\ edited' = edited
    BY <1>b, <1>2 DEF InsertDeal
  <2>2. CASE UNCHANGED deals
    BY <1>a, <1>d, <2>1, <2>2 DEF Replaces
  <2>3. CASE \E s \in 1 .. LastStage, a \in Amounts : deals' = Append(deals, [stage |-> s, amount |-> a])
    <3>1. PICK s \in 1 .. LastStage, a \in Amounts : deals' = Append(deals, [stage |-> s, amount |-> a])
      BY <2>3
    <3>2. [stage |-> s, amount |-> a] \in DealType /\ s # Won
      BY <1>s DEF DealType
    <3>3. /\ deals' \in Seq(DealType) /\ DOMAIN deals' = 1 .. Len(deals) + 1
          /\ \A d \in DOMAIN deals : deals'[d] = deals[d]
          /\ deals'[Len(deals) + 1].stage = s
      BY <1>0, <3>1, <3>2
    <3>4. DOMAIN deals \subseteq DOMAIN deals'
      BY <1>0, <3>3
    <3>5. \A v \in Users : Moving(request'[v]) => MoveOK(request[v]) /\ request'[v] = request[v]
      BY <1>0, <1>d, <2>1 DEF Replaces
    <3>6. \A v \in Users : (Moving(request[v]) => MoveOK(request[v]))'
      BY <2>1, <3>3, <3>4, <3>5 DEF MoveOK, Moving
    <3>7. WonWithAmount'
      BY <1>0, <2>1, <3>2, <3>3 DEF WonWithAmount
    <3> QED
      BY <1>0, <2>1, <3>3, <3>4, <3>6, <3>7 DEF MoveInv, Replaces
  <2> QED
    BY <1>2, <2>2, <2>3 DEF InsertDeal
<1>3. ASSUME NEW u \in Users, NEW d \in DOMAIN deals, BeginMove(u, d) PROVE MoveInv'
  <2>1. PICK to \in Stages, change \in {<<>>} \cup {<<a>> : a \in Amounts} :
            /\ MayMove(deals[d].stage, to, NewAmount(deals[d], change))
            /\ Ask(u, [kind |-> "move", deal |-> d, from |-> deals[d].stage, to |-> to, change |-> change])
    BY <1>3 DEF BeginMove
  <2> DEFINE r == [kind |-> "move", deal |-> d, from |-> deals[d].stage, to |-> to, change |-> change]
  <2>2. deals[d].stage \in 1 .. LastStage
    <3>1. deals[d].stage \in Stages
      BY <1>0 DEF DealType
    <3>2. deals[d].stage # Won /\ deals[d].stage # Lost
      BY <1>3 DEF BeginMove, IsOpen, Closed
    <3> QED
      BY <1>s, <3>1, <3>2
  <2>3. /\ deals[d].stage \in Nat /\ deals[d].stage < to
        /\ (to = Won => NewAmount(deals[d], change) > 0)
    BY <2>1, <2>2, ForwardOnly
  <2>4. /\ r.deal = d /\ r.from = deals[d].stage /\ r.to = to /\ r.change = change
    OBVIOUS
  <2>5. Replaces(u, r) /\ UNCHANGED <<deals, edited>>
    BY <1>3, <1>c, <2>1 DEF BeginMove
  <2> HIDE DEF r
  <2>6. MoveOK(r)
    BY <2>3, <2>4 DEF MoveOK
  <2> QED
    BY <1>a, <2>5, <2>6 DEF Replaces
<1>4. ASSUME NEW u \in Users, NEW d \in DOMAIN deals, BeginQuote(u, d) PROVE MoveInv'
  <2>1. Replaces(u, [kind |-> "quote", deal |-> d]) /\ UNCHANGED <<deals, edited>>
    BY <1>4, <1>c DEF BeginQuote
  <2> QED
    BY <1>a, <2>1 DEF Replaces, Moving
<1>5. ASSUME NEW u \in Users, FinishMove(u) PROVE MoveInv'
  <2> DEFINE r == request[u]
             d == r.deal
             row == [stage |-> r.to, amount |-> NewAmount(deals[d], r.change)]
  <2>1. Replaces(u, NoRequest) /\ edited' = edited
    BY <1>b, <1>5 DEF FinishMove
  <2>2. MoveOK(r)
    BY <1>0, <1>5 DEF FinishMove, Moving
  <2>3. CASE UNCHANGED deals
    BY <1>a, <1>d, <2>1, <2>3 DEF Replaces
  <2>4. CASE deals[d].stage = r.from /\ deals' = [deals EXCEPT ![d] = row]
    <3>1. d \in DOMAIN deals /\ r.to \in Stages /\ r.from \in Nat /\ r.from < r.to
      BY <2>2 DEF MoveOK
    <3>2. NewAmount(deals[d], r.change) \in Amounts
      <4>1. \A a \in Amounts : <<a>>[1] = a /\ <<a>> # <<>>
        OBVIOUS
      <4>2. deals[d].amount \in Amounts
        BY <1>0, <3>1 DEF DealType
      <4> QED
        BY <2>2, <4>1, <4>2 DEF MoveOK, NewAmount
    <3>3. row \in DealType
      BY <3>1, <3>2 DEF DealType
    <3>4. r.to = Won /\ d \notin edited => row.amount > 0
      BY <2>2, <2>4 DEF MoveOK
    <3>5. row.stage = r.to
      OBVIOUS
    <3> HIDE DEF row
    <3>6. deals' \in Seq(DealType) /\ DOMAIN deals' = DOMAIN deals
      BY <1>0, <2>4, <3>1, <3>3, ExceptSeq
    <3>7. deals'[d] = row /\ \A e \in DOMAIN deals \ {d} : deals'[e] = deals[e]
      BY <2>4, <3>1
    <3>8. \A v \in Users : Moving(request'[v]) => request'[v] = request[v] /\ MoveOK(request[v])
      BY <1>0, <1>d, <2>1 DEF Replaces
    <3>9. \A v \in Users : (Moving(request[v]) => MoveOK(request[v]))'
      <4> SUFFICES ASSUME NEW v \in Users, Moving(request'[v]) PROVE MoveOK(request[v])'
        BY DEF Moving
      <4>1. request'[v] = request[v] /\ MoveOK(request[v])
        BY <3>8
      <4>2. CASE request[v].deal = d
        <5>1. deals'[request[v].deal].stage = r.to /\ request[v].from < r.to
          BY <1>s, <2>4, <3>1, <3>5, <3>7, <4>1, <4>2 DEF MoveOK
        <5> QED
          BY <2>1, <3>6, <4>1, <5>1, <1>s, <3>1 DEF MoveOK
      <4>3. CASE request[v].deal # d
        BY <2>1, <3>6, <3>7, <4>1, <4>3 DEF MoveOK
      <4> QED
        BY <4>2, <4>3
    <3>10. WonWithAmount'
      BY <1>0, <2>1, <3>1, <3>4, <3>5, <3>6, <3>7 DEF WonWithAmount
    <3> QED
      BY <1>0, <2>1, <3>6, <3>9, <3>10 DEF MoveInv, Replaces
  <2> QED
    BY <1>5, <2>3, <2>4 DEF FinishMove
<1>6. ASSUME NEW d \in DOMAIN deals, NEW a \in Amounts, EditDeal(d, a) PROVE MoveInv'
  <2> DEFINE row == [deals[d] EXCEPT !.amount = a]
  <2>1. row \in DealType /\ row.stage = deals[d].stage
    BY <1>0 DEF DealType
  <2>2. /\ deals' = [deals EXCEPT ![d] = row] /\ request' = request /\ edited \subseteq edited'
        /\ edited' \subseteq edited \cup {d} /\ deals[d].stage # Won
        /\ \A u \in Users : Moving(request[u]) /\ request[u].deal = d => d \in edited'
    BY <1>6 DEF EditDeal, MayEdit, IsOpen, Closed, Moving
  <2> HIDE DEF row
  <2>3. deals' \in Seq(DealType) /\ DOMAIN deals' = DOMAIN deals
    BY <1>0, <2>1, <2>2, ExceptSeq
  <2>4. deals'[d] = row /\ \A e \in DOMAIN deals \ {d} : deals'[e] = deals[e]
    BY <2>2
  <2>5. \A v \in Users : (Moving(request[v]) => MoveOK(request[v]))'
    <3> SUFFICES ASSUME NEW v \in Users, Moving(request[v]) PROVE MoveOK(request[v])'
      BY <2>2 DEF Moving
    <3>1. MoveOK(request[v])
      BY <1>0
    <3>2. CASE request[v].deal = d
      BY <2>1, <2>2, <2>3, <2>4, <3>1, <3>2 DEF MoveOK
    <3>3. CASE request[v].deal # d
      BY <2>2, <2>3, <2>4, <3>1, <3>3 DEF MoveOK
    <3> QED
      BY <3>2, <3>3
  <2>6. WonWithAmount'
    BY <1>0, <2>1, <2>2, <2>3, <2>4 DEF WonWithAmount
  <2> QED
    BY <1>0, <2>2, <2>3, <2>5, <2>6 DEF MoveInv
<1>7. ASSUME NEW q \in DOMAIN quotes,
             \/ \E t \in Texts : EditQuote(q, t)
             \/ \E st \in {"sent", "accepted", "declined", "void"} : Decide(q, st)
             \/ SweepExpiredQuotes(q)
      PROVE  MoveInv'
  BY <1>0, <1>7, <1>a DEF EditQuote, Decide, SweepExpiredQuotes
<1>8. CASE UNCHANGED dealVars
  BY <1>0, <1>8, <1>a DEF dealVars
<1> QED
  BY <1>1, <1>2, <1>3, <1>4, <1>5, <1>6, <1>7, <1>8 DEF DealsNext

----------------------------------------------------------------------------
\* The rows that are there keep their deal and their number.
SameNumbers ==
    /\ quotes' \in Seq(QuoteType) /\ Len(quotes') = Len(quotes) /\ DOMAIN quotes' = DOMAIN quotes
    /\ \A q \in DOMAIN quotes :
        /\ quotes'[q].deal = quotes[q].deal /\ quotes'[q].ver = quotes[q].ver
        /\ quotes'[q].seen = quotes[q].seen

\* A quote gets another status, or another text.
LEMMA Relabelled ==
    ASSUME NEW x \in QuoteType, NEW st \in QuoteStates, NEW t \in Texts
    PROVE  /\ [x EXCEPT !.st = st] \in QuoteType /\ [x EXCEPT !.text = t] \in QuoteType
           /\ [x EXCEPT !.st = st].deal = x.deal /\ [x EXCEPT !.text = t].deal = x.deal
           /\ [x EXCEPT !.st = st].ver = x.ver /\ [x EXCEPT !.text = t].ver = x.ver
           /\ [x EXCEPT !.st = st].seen = x.seen /\ [x EXCEPT !.text = t].seen = x.seen
  BY DEF QuoteType

LEMMA QuoteInvNext == DOMAIN deals \subseteq Nat /\ QuoteInv /\ [DealsNext]_dealVars => QuoteInv'
<1> SUFFICES ASSUME DOMAIN deals \subseteq Nat, QuoteInv, [DealsNext]_dealVars PROVE QuoteInv'
  OBVIOUS
<1>0. /\ quotes \in Seq(QuoteType)
      /\ request = [u \in Users |-> request[u]]
      /\ \A u \in Users : Asked(request[u]) /\ (Numbered(request[u]) => NumberOK(request[u]))
      /\ VersionsDiffer /\ \A q \in DOMAIN quotes : quotes[q].ver <= q
      /\ Len(quotes) \in Nat /\ DOMAIN quotes = 1 .. Len(quotes)
      /\ \A q \in DOMAIN quotes : quotes[q] \in QuoteType
  <2>1. quotes \in Seq(QuoteType)
    BY DEF QuoteInv
  <2> QED
    BY <2>1, LenProperties, ElementOfSeq DEF QuoteInv
\* Every row keeps its number, and whoever has one has it already, or rightly.
<1>a. ASSUME SameNumbers, request' = [u \in Users |-> request'[u]],
             \A u \in Users : request'[u] = request[u]
                \/ (Asked(request'[u]) /\ (Numbered(request'[u]) => NumberOK(request'[u])))
      PROVE  QuoteInv'
  <2>1. \A r : NumberOK(r)' <=> NumberOK(r)
    BY <1>a DEF NumberOK, SameNumbers
  <2>2. \A u \in Users : Asked(request'[u]) /\ (Numbered(request'[u]) => NumberOK(request'[u]))
    BY <1>0, <1>a
  <2>3. \A u \in Users : (Asked(request[u]) /\ (Numbered(request[u]) => NumberOK(request[u])))'
    BY <2>2, <1>a DEF Asked, NumberOK, Numbered, SameNumbers
  <2>4. VersionsDiffer'
    BY <1>0, <1>a DEF VersionsDiffer, SameNumbers
  <2> QED
    BY <1>0, <1>a, <2>3, <2>4 DEF QuoteInv, SameNumbers
<1>b. UNCHANGED quotes => SameNumbers
  BY <1>0 DEF SameNumbers
<1>c. ~Numbered(NoRequest) /\ Asked(NoRequest)
  BY DEF Numbered, Asked, NoRequest
<1>d. \A u \in Users : Done(u) => Replaces(u, NoRequest)
  BY <1>0, AskReplaces DEF Done
<1>e. \A u \in Users : \A r : Ask(u, r) => Replaces(u, r)
  BY <1>0, AskReplaces DEF Ask
<1>1. ASSUME NEW u \in Users, BeginCreateDeal(u) PROVE QuoteInv'
  <2>1. Replaces(u, [kind |-> "create"]) /\ UNCHANGED quotes
    BY <1>1, <1>e DEF BeginCreateDeal
  <2> QED
    BY <1>a, <1>b, <2>1 DEF Replaces, Numbered, Asked
<1>2. ASSUME NEW u \in Users, InsertDeal(u) \/ FinishMove(u) \/ GiveUp(u) PROVE QuoteInv'
  <2>1. Replaces(u, NoRequest) /\ UNCHANGED quotes
    BY <1>2, <1>d DEF InsertDeal, FinishMove, GiveUp
  <2> QED
    BY <1>a, <1>b, <1>c, <2>1 DEF Replaces
<1>3. ASSUME NEW u \in Users, NEW d \in DOMAIN deals, BeginMove(u, d) \/ BeginQuote(u, d)
      PROVE  QuoteInv'
  <2>1. PICK r : Replaces(u, r) /\ UNCHANGED quotes /\ ~Numbered(r) /\ Asked(r)
    <3>1. CASE BeginMove(u, d)
      <4>1. PICK to \in Stages, change \in {<<>>} \cup {<<a>> : a \in Amounts} :
                Ask(u, [kind |-> "move", deal |-> d, from |-> deals[d].stage, to |-> to, change |-> change])
        BY <3>1 DEF BeginMove
      <4> QED
        BY <1>e, <3>1, <4>1 DEF BeginMove, Numbered, Asked
    <3>2. CASE BeginQuote(u, d)
      BY <1>e, <3>2 DEF BeginQuote, Numbered, Asked
    <3> QED
      BY <1>3, <3>1, <3>2
  <2> QED
    BY <1>a, <1>b, <2>1 DEF Replaces
<1>4. ASSUME NEW u \in Users, NumberQuote(u) PROVE QuoteInv'
  <2> DEFINE S == Versions(request[u].deal) \cup {0}
             r == [kind |-> "numbered", deal |-> request[u].deal, ver |-> Max(S) + 1, seen |-> Len(quotes)]
  <2>1. Replaces(u, r) /\ UNCHANGED quotes
    BY <1>0, <1>4, AskReplaces DEF NumberQuote
  <2>2. S \in SUBSET (0 .. Len(quotes)) /\ 0 \in S
    BY <1>0 DEF Versions, QuotesOf, QuoteType
  <2> HIDE DEF S
  <2>3. Max(S) \in 0 .. Len(quotes) /\ \A y \in S : y <= Max(S)
    BY <1>0, <2>2, MaxOfVersions
  <2>4. request[u].deal \in Nat
    BY <1>0, <1>4 DEF NumberQuote, Asked
  <2>5. \A p \in DOMAIN quotes : quotes[p].deal = request[u].deal => quotes[p].ver < Max(S) + 1
    <3>1. \A p \in DOMAIN quotes : quotes[p].deal = request[u].deal => quotes[p].ver \in S
      BY DEF S, Versions, QuotesOf
    <3>2. \A p \in DOMAIN quotes : quotes[p].ver \in Nat
      BY <1>0 DEF QuoteType
    <3> QED
      BY <2>3, <3>1, <3>2
  <2>6. r \in NumberType /\ r.seen = Len(quotes) /\ r.ver = Max(S) + 1 /\ r.deal = request[u].deal
    BY <1>0, <2>3, <2>4 DEF NumberType
  <2> HIDE DEF r
  <2>7. NumberOK(r) /\ Asked(r)
    BY <1>0, <2>3, <2>4, <2>5, <2>6 DEF NumberOK, Asked
  <2> QED
    BY <1>a, <1>b, <2>1, <2>7 DEF Replaces
<1>5. ASSUME NEW u \in Users, SupersedeLive(u) PROVE QuoteInv'
  <2> DEFINE r == [request[u] EXCEPT !.kind = "superseded"]
  <2>1. Replaces(u, r)
    BY <1>0, <1>5, AskReplaces DEF SupersedeLive
  <2>2. NumberOK(request[u])
    BY <1>0, <1>5 DEF SupersedeLive, Numbered
  <2>3. r \in NumberType /\ r.deal = request[u].deal /\ r.ver = request[u].ver /\ r.seen = request[u].seen
    BY <2>2 DEF NumberOK, NumberType
  <2> HIDE DEF r
  <2>4. NumberOK(r) /\ Asked(r)
    BY <2>2, <2>3 DEF NumberOK, NumberType, Asked
  <2>5. /\ quotes' = [q \in 1 .. Len(quotes) |-> quotes'[q]]
        /\ \A q \in DOMAIN quotes : quotes'[q] = quotes[q] \/ quotes'[q] = [quotes[q] EXCEPT !.st = "superseded"]
    BY <1>0, <1>5 DEF SupersedeLive
  <2>6. \A q \in DOMAIN quotes :
            /\ quotes'[q] \in QuoteType
            /\ quotes'[q].deal = quotes[q].deal /\ quotes'[q].ver = quotes[q].ver
            /\ quotes'[q].seen = quotes[q].seen
    BY <1>0, <2>5 DEF QuoteType, QuoteStates
  <2>7. quotes' \in Seq(QuoteType) /\ Len(quotes') = Len(quotes)
    <3>1. quotes' \in [1 .. Len(quotes) -> QuoteType]
      BY <1>0, <2>5, <2>6
    <3> QED
      BY <1>0, <3>1
  <2>8. SameNumbers
    BY <1>0, <2>6, <2>7 DEF SameNumbers
  <2> QED
    BY <1>a, <2>1, <2>4, <2>8 DEF Replaces
<1>6. ASSUME NEW u \in Users, InsertQuote(u) PROVE QuoteInv'
  <2> DEFINE r == request[u]
  <2>1. Replaces(u, NoRequest)
    BY <1>6, <1>d DEF InsertQuote
  <2>2. NumberOK(r)
    BY <1>0, <1>6 DEF InsertQuote, Numbered
  <2> HIDE DEF r
  <2>3. CASE UNCHANGED quotes
    BY <1>a, <1>b, <1>c, <2>1, <2>3 DEF Replaces
  <2>4. CASE \E t \in Texts : quotes' = Append(quotes,
                 [deal |-> r.deal, ver |-> r.ver, st |-> "draft", text |-> t, seen |-> r.seen])
    <3>1. PICK t \in Texts : quotes' = Append(quotes,
                 [deal |-> r.deal, ver |-> r.ver, st |-> "draft", text |-> t, seen |-> r.seen])
      BY <2>4
    <3> DEFINE x == [deal |-> r.deal, ver |-> r.ver, st |-> "draft", text |-> t, seen |-> r.seen]
               n == Len(quotes)
    <3>2. x \in QuoteType /\ x.deal = r.deal /\ x.ver = r.ver /\ x.seen = r.seen
      BY <2>2 DEF NumberOK, NumberType, QuoteType, QuoteStates
    <3>3. quotes' = Append(quotes, x)
      BY <3>1
    <3> HIDE DEF x
    <3>4. /\ quotes' \in Seq(QuoteType) /\ Len(quotes') = n + 1 /\ DOMAIN quotes' = 1 .. n + 1
          /\ quotes'[n + 1] = x /\ \A q \in DOMAIN quotes : quotes'[q] = quotes[q]
      BY <1>0, <3>2, <3>3
    <3>5. r.seen \in Nat /\ r.ver \in Nat /\ r.seen <= n /\ r.ver <= r.seen + 1
          /\ \A p \in DOMAIN quotes : p <= r.seen /\ quotes[p].deal = r.deal => quotes[p].ver < r.ver
      BY <2>2 DEF NumberOK, NumberType
    <3>6. \A q \in 1 .. n + 1 : quotes'[q].ver <= q
      BY <1>0, <3>2, <3>4, <3>5
    <3>7. \A v \in Users : (Asked(request[v]) /\ (Numbered(request[v]) => NumberOK(request[v])))'
      <4>0. \A v \in Users : Asked(request[v])'
        BY <1>0, <1>c, <2>1 DEF Replaces, Asked
      <4> SUFFICES ASSUME NEW v \in Users, Numbered(request'[v]) PROVE NumberOK(request[v])'
        BY <4>0 DEF Numbered
      <4>1. request'[v] = request[v] /\ NumberOK(request[v])
        BY <1>0, <1>c, <2>1 DEF Replaces
      <4>2. request[v].seen \in Nat
        BY <4>1 DEF NumberOK, NumberType
      <4> QED
        BY <1>0, <3>4, <4>1, <4>2 DEF NumberOK
    <3>8. VersionsDiffer'
      <4> SUFFICES ASSUME NEW p \in DOMAIN quotes', NEW q \in DOMAIN quotes', p < q,
                          quotes'[p].deal = quotes'[q].deal, quotes'[p].ver = quotes'[q].ver
                   PROVE  quotes'[q].seen < p
        BY DEF VersionsDiffer
      <4>1. CASE q \in DOMAIN quotes
        BY <1>0, <3>4, <4>1 DEF VersionsDiffer
      <4>2. CASE q = n + 1
        BY <1>0, <3>2, <3>4, <3>5, <4>2
      <4> QED
        BY <1>0, <3>4, <4>1, <4>2
    <3> QED
      BY <2>1, <3>4, <3>6, <3>7, <3>8 DEF QuoteInv, Replaces
  <2> QED
    BY <1>6, <2>3, <2>4 DEF InsertQuote, r
<1>7. ASSUME NEW q \in DOMAIN quotes,
             \/ \E t \in Texts : EditQuote(q, t)
             \/ \E st \in {"sent", "accepted", "declined", "void"} : Decide(q, st)
             \/ SweepExpiredQuotes(q)
      PROVE  QuoteInv'
  <2>1. UNCHANGED request
    BY <1>7 DEF EditQuote, Decide, SweepExpiredQuotes
  <2>2. PICK x \in QuoteType :
            /\ quotes' = [quotes EXCEPT ![q] = x]
            /\ x.deal = quotes[q].deal /\ x.ver = quotes[q].ver /\ x.seen = quotes[q].seen
    <3>1. quotes[q] \in QuoteType /\ quotes[q].text \in Texts
      BY <1>0 DEF QuoteType
    <3>2. CASE \E t \in Texts : EditQuote(q, t)
      <4>1. PICK t \in Texts : quotes' = [quotes EXCEPT ![q] = [quotes[q] EXCEPT !.text = t]]
        BY <3>2 DEF EditQuote
      <4> QED
        BY <3>1, <4>1, Relabelled DEF QuoteStates
    <3>3. CASE (\E st \in {"sent", "accepted", "declined", "void"} : Decide(q, st)) \/ SweepExpiredQuotes(q)
      <4>1. PICK st \in QuoteStates : quotes' = [quotes EXCEPT ![q] = [quotes[q] EXCEPT !.st = st]]
        BY <3>3 DEF Decide, SweepExpiredQuotes, QuoteStates
      <4> QED
        BY <3>1, <4>1, Relabelled
    <3> QED
      BY <1>7, <3>2, <3>3
  <2>3. SameNumbers
    BY <1>0, <2>2, ExceptSeq DEF SameNumbers
  <2> QED
    BY <1>0, <1>a, <2>1, <2>3
<1>8. ASSUME NEW d \in DOMAIN deals, NEW a \in Amounts, EditDeal(d, a) PROVE QuoteInv'
  BY <1>0, <1>8, <1>a, <1>b DEF EditDeal
<1>9. CASE UNCHANGED dealVars
  BY <1>0, <1>9, <1>a, <1>b DEF dealVars
<1> QED
  BY <1>1, <1>2, <1>3, <1>4, <1>5, <1>6, <1>7, <1>8, <1>9 DEF DealsNext

----------------------------------------------------------------------------
\* WonWithAmount of Deals (policy.go:176).
THEOREM WonDealsHaveAnAmount ==
    ASSUME DealConstants
    PROVE  DealsSpec => []WonWithAmount
<1>1. DealsInit => MoveInv
  BY DealsInvInit
<1>2. MoveInv /\ [DealsNext]_dealVars => MoveInv'
  BY MoveInvNext
<1>3. MoveInv => WonWithAmount
  BY DEF MoveInv
<1> QED
  BY <1>1, <1>2, <1>3, PTL DEF DealsSpec

\* VersionsDiffer of Deals (quote.go:81), for any number of quotes: no version is
\* given twice to requests that see each other's rows.
THEOREM QuotesAreToldApart ==
    ASSUME DealConstants
    PROVE  DealsSpec => []VersionsDiffer
<1>1. DealsInit => MoveInv /\ QuoteInv
  BY DealsInvInit
<1>2. MoveInv /\ QuoteInv /\ [DealsNext]_dealVars => MoveInv' /\ QuoteInv'
  <2>1. MoveInv => DOMAIN deals \subseteq Nat
    BY LenProperties DEF MoveInv
  <2> QED
    BY <2>1, MoveInvNext, QuoteInvNext
<1>3. QuoteInv => VersionsDiffer
  BY DEF QuoteInv
<1> QED
  BY <1>1, <1>2, <1>3, PTL DEF DealsSpec

=============================================================================
