---------------------------- MODULE TokenLedger ----------------------------
(***************************************************************************)
(* The tokens of one tenant: usage is recorded in the memory of each       *)
(* process, flushed as debt rows (usage_flush_retry) and settled against   *)
(* the three buckets of the tenant (internal/billing/usage_sink.go,        *)
(* token_billing.go), while top-ups, monthly packages, the monthly reset   *)
(* and the referral reward and its recovery (referral.go) write the same   *)
(* buckets.                                                                *)
(*                                                                         *)
(* Billing is enforced.  A flusher is the background goroutine of a        *)
(* process, or the main goroutine during shutdown.  Settling a row is two  *)
(* row locks, one after the other, and a commit; each is an action.  The   *)
(* shadow balance is left out: only a log line reads it.                   *)
(***************************************************************************)
EXTENDS Integers, Sequences, FiniteSets, Functions

CONSTANTS
    Procs,
    Stoppable,   \* the processes that may get a SIGTERM
    Sizes,       \* the tokens one call may use
    MaxBuf,      \* UsageSink.maxBuf
    Quota,       \* monthly_token_quota
    FreeStart,   \* the trial tokens in the free bucket
    Bonus,       \* referral_paid_bonus_tokens
    MaxTries,    \* the fast attempts of settleIDs: 3
    \* bounds of a run: calls; top-ups, expiries, months and rewards; faults
    MaxCalls, MaxEvents, MaxFaults

ASSUME ProcsAssumption   == IsFiniteSet(Procs) /\ Stoppable \subseteq Procs
ASSUME TokensAssumption  == Sizes \subseteq Nat \ {0}   \* SinkRecordUsage ignores the others
ASSUME BucketsAssumption == Quota \in Nat /\ FreeStart \in Nat /\ Bonus \in Nat
ASSUME BufferAssumption  == MaxBuf \in Nat \ {0}

VARIABLES
    \* the processes
    up, buf,
    \* the flushers: place, batch swapped out, rows to settle, attempt, rows
    \* locked with their tokens, buckets read under the lock
    pc, hand, todo, tries, mine, seen,
    \* the database: the rows and their next id, the buckets, whether the month
    \* is not reset yet, referral_paid_rewarded of the invited tenant
    rows, nextId, bk, due, gate,
    sweeper,     \* who holds sink:retry:sweep
    sums         \* history: tokens by what became of them, and the bounds

process == <<up, buf>>
flusher == <<pc, hand, todo, tries, mine, seen>>
table   == <<rows, nextId>>
vars    == <<process, flusher, table, bk, due, gate, sweeper, sums>>

Flushers == (Procs \X {"run"}) \cup (Stoppable \X {"main"})
Nobody == <<>>
Dead == <<"dead">>   \* it died with the lock
Zero == [free |-> 0, live |-> FALSE, used |-> 0, bal |-> 0]
SumNames == {"calls", "recorded", "twice", "debt", "charged", "dropped", "lost", "stopped",
             "monthly", "balance", "topped", "clawed", "months", "events", "faults"}

Lesser(m, n) == IF m < n THEN m ELSE n
\* The tokens in a buffer, or in some rows.
Total(s) == SumFunction(s)
Count(changes) == sums' = [c \in SumNames |->
    IF c \in DOMAIN changes THEN sums[c] + changes[c] ELSE sums[c]]
Fault == sums.faults < MaxFaults
\* The rows with a row of n tokens; none is written for nothing.
WithRow(rs, n) ==
    IF n > 0 THEN [i \in DOMAIN rs \cup {nextId} |-> IF i = nextId THEN n ELSE rs[i]] ELSE rs

Init ==
    /\ up = [p \in Procs |-> "up"] /\ buf = [p \in Procs |-> <<>>]
    /\ pc = [f \in Flushers |-> IF f[2] = "run" THEN "idle" ELSE "off"]
    /\ hand = [f \in Flushers |-> <<>>]
    /\ todo = [f \in Flushers |-> {}] /\ mine = [f \in Flushers |-> <<>>]
    /\ tries = [f \in Flushers |-> 0] /\ seen = [f \in Flushers |-> Zero]
    /\ rows = <<>> /\ nextId = 1
    /\ bk = [free |-> FreeStart, live |-> TRUE, used |-> 0, bal |-> 0]
    /\ due = FALSE /\ gate = FALSE /\ sweeper = Nobody
    /\ sums = [c \in SumNames |-> 0]

(***************************************************************************)
(* Recording and flushing.                                                 *)
(***************************************************************************)

\* Record: a full buffer drops its oldest entry.
Record(p, n) ==
    /\ up[p] = "up" /\ sums.calls < MaxCalls
    /\ IF Len(buf[p]) >= MaxBuf
       THEN /\ buf' = [buf EXCEPT ![p] = Append(Tail(@), n)]
            /\ Count([calls |-> 1, recorded |-> n, dropped |-> Head(buf[p])])
       ELSE /\ buf' = [buf EXCEPT ![p] = Append(@, n)]
            /\ Count([calls |-> 1, recorded |-> n])
    /\ UNCHANGED <<up, flusher, table, bk, due, gate, sweeper>>

\* flush, up to the insert: the buffer is swapped out.  On an empty buffer it
\* returns at once.
BeginFlush(f) ==
    LET p == f[1] IN
    /\ pc[f] \in {"idle", "final"}
    /\ \/ /\ buf[p] # <<>>
          /\ hand' = [hand EXCEPT ![f] = buf[p]]
          /\ buf' = [buf EXCEPT ![p] = <<>>]
          /\ pc' = [pc EXCEPT ![f] = "insert"]
       \/ /\ buf[p] = <<>> /\ pc[f] = "final"
          /\ pc' = [pc EXCEPT ![f] = "done"]
          /\ UNCHANGED <<hand, buf>>
    /\ UNCHANGED <<up, todo, tries, mine, seen, table, bk, due, gate, sweeper, sums>>

\* The main goroutine flushes once; the background one goes on.
Resting(f) == IF f[2] = "main" THEN "done" ELSE "idle"

\* Writing the debt row ahead of the deduction.  The insert may fail, or fail
\* after it has committed: either way the batch goes back into the buffer.
Insert(f) ==
    LET p == f[1]
        AddRow == rows' = WithRow(rows, Total(hand[f])) /\ nextId' = nextId + 1
        PutBack == /\ buf' = [buf EXCEPT ![p] = hand[f] \o @]
                   /\ pc' = [pc EXCEPT ![f] = Resting(f)]
                   /\ UNCHANGED <<todo, tries>>
    IN  /\ pc[f] = "insert"
        /\ hand' = [hand EXCEPT ![f] = <<>>]
        /\ \/ /\ AddRow
              /\ todo' = [todo EXCEPT ![f] = {nextId}]
              /\ tries' = [tries EXCEPT ![f] = 1]
              /\ pc' = [pc EXCEPT ![f] = "settle"]
              /\ UNCHANGED <<buf, sums>>
           \/ /\ Fault /\ PutBack /\ Count([faults |-> 1]) /\ UNCHANGED table
           \/ /\ Fault /\ PutBack /\ AddRow
              /\ Count([faults |-> 1, twice |-> Total(hand[f])])
        /\ UNCHANGED <<up, mine, seen, bk, due, gate, sweeper>>

(***************************************************************************)
(* Settling rows: settleIDs, sweepRetryRowsAt, settleRetryRows.            *)
(***************************************************************************)

\* Mutant: the lock of the sweep stays behind.
MutReleaseSweep(f) == UNCHANGED sweeper
ReleaseSweep(f) == sweeper' = IF sweeper = f THEN Nobody ELSE sweeper

\* An attempt is over with the rows left still to settle.
EndAttempt(f, left) ==
    /\ mine' = [mine EXCEPT ![f] = <<>>]
    /\ seen' = [seen EXCEPT ![f] = Zero]
    /\ IF left # {} /\ tries[f] < MaxTries
       THEN /\ pc' = [pc EXCEPT ![f] = "settle"]
            /\ todo' = [todo EXCEPT ![f] = left]
            /\ tries' = [tries EXCEPT ![f] = @ + 1]
            /\ UNCHANGED sweeper
       ELSE /\ pc' = [pc EXCEPT ![f] = Resting(f)]
            /\ todo' = [todo EXCEPT ![f] = {}]
            /\ tries' = [tries EXCEPT ![f] = 0]
            /\ ReleaseSweep(f)

\* The minute sweep, and the one at the start of a process: one attempt at all
\* rows, which may have become 30 seconds old by then.
BeginSweep(f) ==
    /\ pc[f] = "idle" /\ DOMAIN rows # {}
    /\ sweeper = Nobody /\ sweeper' = f
    /\ todo' = [todo EXCEPT ![f] = DOMAIN rows]
    /\ tries' = [tries EXCEPT ![f] = MaxTries]
    /\ pc' = [pc EXCEPT ![f] = "settle"]
    /\ UNCHANGED <<process, hand, mine, seen, table, bk, due, gate, sums>>

SweepLockExpires ==
    /\ sweeper = Dead /\ sweeper' = Nobody
    /\ UNCHANGED <<process, flusher, table, bk, due, gate, sums>>

\* Mutant: a plain SELECT: rows another transaction holds are taken as well.
MutLockable(f) == todo[f] \cap DOMAIN rows
\* FOR UPDATE SKIP LOCKED.
Lockable(f) == (todo[f] \cap DOMAIN rows) \ UNION {DOMAIN mine[g] : g \in Flushers}

LockRows(f) ==
    /\ pc[f] = "settle"
    /\ \/ /\ Lockable(f) # {}
          /\ mine' = [mine EXCEPT ![f] = Restrict(rows, Lockable(f))]
          /\ pc' = [pc EXCEPT ![f] = "tenant"]
          /\ UNCHANGED <<todo, tries, seen, sweeper>>
       \/ Lockable(f) = {} /\ EndAttempt(f, todo[f])
    /\ UNCHANGED <<process, hand, table, bk, due, gate, sums>>

\* Mutant: deductTokensInTx reads the tenant without FOR UPDATE.
MutTenantFree == TRUE
\* Nobody holds the row of the tenant between reading it and writing it back.
TenantFree == \A f \in Flushers : pc[f] # "deduct"

LockTenant(f) ==
    /\ pc[f] = "tenant" /\ TenantFree
    /\ seen' = [seen EXCEPT ![f] = bk]
    /\ pc' = [pc EXCEPT ![f] = "deduct"]
    /\ UNCHANGED <<process, hand, todo, tries, mine, table, bk, due, gate, sweeper, sums>>

\* deductTokensInTx: free tokens first, then the month's, then the balance.
FromFree(t, n) == Lesser(IF t.live THEN t.free ELSE 0, n)
FromMonthly(t, n) == Lesser(Quota - t.used, n - FromFree(t, n))
FromBalance(t, n) == Lesser(t.bal, n - FromFree(t, n) - FromMonthly(t, n))
Taken(t, n) == FromFree(t, n) + FromMonthly(t, n) + FromBalance(t, n)
Deducted(t, n) ==
    [free |-> (IF t.live THEN t.free ELSE 0) - FromFree(t, n), live |-> t.live,
     used |-> t.used + FromMonthly(t, n), bal |-> t.bal - FromBalance(t, n)]

\* The locked rows are deleted and deducted in one transaction, and what the
\* buckets do not cover becomes a row again.  It rolls back when they are empty.
Settle(f) ==
    LET n == Total(mine[f])
        t == seen[f]
    IN  /\ pc[f] = "deduct"
        /\ \/ /\ Taken(t, n) > 0
              /\ bk' = Deducted(t, n)
              /\ rows' = WithRow(Restrict(rows, DOMAIN rows \ DOMAIN mine[f]), n - Taken(t, n))
              /\ nextId' = nextId + 1
              /\ Count([charged |-> Taken(t, n), monthly |-> FromMonthly(t, n),
                        balance |-> FromBalance(t, n)])
              /\ EndAttempt(f, todo[f] \ DOMAIN mine[f])
           \/ /\ Taken(t, n) = 0
              /\ EndAttempt(f, todo[f])
              /\ UNCHANGED <<table, bk, sums>>
        /\ UNCHANGED <<process, hand, due, gate>>

\* The transaction fails: before the rows are marked settled, or at its commit.
SettleFails(f) ==
    /\ pc[f] \in {"tenant", "deduct"}
    /\ Fault /\ Count([faults |-> 1])
    /\ \E left \in {todo[f], todo[f] \ DOMAIN mine[f]} : EndAttempt(f, left)
    /\ UNCHANGED <<process, hand, table, bk, due, gate>>

(***************************************************************************)
(* The other writers of the buckets.  Each waits for the row.              *)
(***************************************************************************)

Event == sums.events < MaxEvents
WriteBuckets(new, changes) ==
    TenantFree /\ bk' = new /\ Count(changes) /\ UNCHANGED <<process, flusher, sweeper>>

\* grantPackage of a token pack.
TopUp ==
    /\ Event
    /\ WriteBuckets([bk EXCEPT !.bal = @ + 1], [events |-> 1, topped |-> 1])
    /\ UNCHANGED <<table, due, gate>>

\* grantPackage of a free package.
GrantFree ==
    /\ Event
    /\ WriteBuckets([free |-> bk.free + 1, live |-> TRUE, used |-> bk.used, bal |-> bk.bal],
                    [events |-> 1])
    /\ UNCHANGED <<table, due, gate>>

\* grantPackage of a monthly package of the same quota: what was used is set back
\* unless the term before it is still running.
GrantMonthly ==
    /\ Event
    /\ \/ WriteBuckets(bk, [events |-> 1])
       \/ WriteBuckets([bk EXCEPT !.used = 0], [events |-> 1, months |-> 1])
    /\ UNCHANGED <<table, due, gate>>

FreeTokensExpire ==
    /\ bk.live /\ Event
    /\ WriteBuckets([bk EXCEPT !.live = FALSE], [events |-> 1])
    /\ UNCHANGED <<table, due, gate>>

NewMonth ==
    /\ Event /\ ~due
    /\ due' = TRUE /\ Count([events |-> 1, months |-> 1])
    /\ UNCHANGED <<process, flusher, table, bk, gate, sweeper>>

\* ResetAllTenantsMonthlyUsageIfDue: one conditional UPDATE.
MonthlyReset ==
    /\ due /\ due' = FALSE
    /\ WriteBuckets([bk EXCEPT !.used = 0], <<>>)
    /\ UNCHANGED <<table, gate>>

\* RewardPaidReferral, in the transaction that grants the invited tenant's order.
Reward ==
    /\ Event /\ ~gate /\ gate' = TRUE
    /\ WriteBuckets([bk EXCEPT !.bal = @ + Bonus], [events |-> 1, topped |-> Bonus])
    /\ UNCHANGED <<table, due>>

\* ClawbackPaidReferralReward, in the transaction that refunds it: what the
\* balance does not cover becomes a debt row.
Clawback ==
    LET collected == Lesser(bk.bal, Bonus) IN
    /\ gate /\ gate' = FALSE
    /\ WriteBuckets([bk EXCEPT !.bal = @ - collected],
                    [clawed |-> collected, debt |-> Bonus - collected])
    /\ rows' = WithRow(rows, Bonus - collected) /\ nextId' = nextId + 1
    /\ UNCHANGED due

(***************************************************************************)
(* Death, restart and shutdown.                                            *)
(***************************************************************************)

InMemory(p) ==
    Total(buf[p]) + SumFunction([f \in {g \in Flushers : g[1] = p} |-> Total(hand[f])])

\* The goroutines of p are gone; open transactions roll back.
Gone(p, where) ==
    /\ buf' = [buf EXCEPT ![p] = <<>>]
    /\ pc' = [f \in Flushers |-> IF f[1] # p THEN pc[f] ELSE IF f[2] = "run" THEN where ELSE "off"]
    /\ hand' = [f \in Flushers |-> IF f[1] = p THEN <<>> ELSE hand[f]]
    /\ todo' = [f \in Flushers |-> IF f[1] = p THEN {} ELSE todo[f]]
    /\ tries' = [f \in Flushers |-> IF f[1] = p THEN 0 ELSE tries[f]]
    /\ mine' = [f \in Flushers |-> IF f[1] = p THEN <<>> ELSE mine[f]]
    /\ seen' = [f \in Flushers |-> IF f[1] = p THEN Zero ELSE seen[f]]
    /\ sweeper' = IF sweeper \in {p} \X {"run", "main"} THEN Dead ELSE sweeper
    /\ UNCHANGED <<table, bk, due, gate>>

\* Killed, and started again.
Crash(p) ==
    /\ up[p] = "up" /\ Fault
    /\ Gone(p, "idle")
    /\ Count([faults |-> 1, lost |-> InMemory(p)])
    /\ UNCHANGED up

\* UsageSink.Stop closes the channel of the background goroutine and flushes.
Stop(p) ==
    /\ p \in Stoppable /\ up[p] = "up"
    /\ up' = [up EXCEPT ![p] = "stopping"]
    /\ pc' = [pc EXCEPT ![<<p, "main">>] = "final"]
    /\ UNCHANGED <<buf, hand, todo, tries, mine, seen, table, bk, due, gate, sweeper, sums>>

\* After its own flush the main goroutine closes the database and returns.
Exit(p) ==
    /\ up[p] = "stopping" /\ pc[<<p, "main">>] = "done"
    /\ up' = [up EXCEPT ![p] = "down"]
    /\ Gone(p, "off")
    /\ Count([stopped |-> InMemory(p)])

FlusherStep(f) == BeginFlush(f) \/ Insert(f) \/ LockRows(f) \/ LockTenant(f) \/ Settle(f)

Next ==
    \/ \E p \in Procs, n \in Sizes : Record(p, n)
    \/ \E f \in Flushers : FlusherStep(f) \/ SettleFails(f)
    \/ \E p \in Procs : BeginSweep(<<p, "run">>)
    \/ SweepLockExpires
    \/ TopUp \/ GrantFree \/ GrantMonthly \/ FreeTokensExpire \/ NewMonth \/ MonthlyReset \/ Reward \/ Clawback
    \/ \E p \in Procs : Crash(p) \/ Stop(p) \/ Exit(p)

\* The tickers fire, a flusher goes on while it can, keys expire.
Fairness ==
    /\ \A f \in Flushers : WF_vars(FlusherStep(f))
    /\ \A p \in Procs : WF_vars(BeginSweep(<<p, "run">>))
    /\ WF_vars(SweepLockExpires)

Spec == Init /\ [][Next]_vars
FairSpec == Spec /\ Fairness

----------------------------------------------------------------------------
\* Every token recorded, and every token of a reward to recover, is in a
\* buffer, in a row, or charged exactly once; only an overflow, a crash, a
\* shutdown and an insert that reported an error after its commit are excepted,
\* each by the tokens it concerns (the promise at usage_sink.go:18).
Conserved ==
    sums.recorded + sums.twice + sums.debt =
        SumFunction([p \in Procs |-> InMemory(p)]) + Total(rows)
        + sums.charged + sums.dropped + sums.lost + sums.stopped

\* The balance is what was put in less what was recovered and charged, whoever
\* wrote at the same time, and a month, or a term bought after the last one had
\* ended, gives its quota once.
BucketsAddUp ==
    /\ bk.bal = sums.topped - sums.clawed - sums.balance
    /\ sums.monthly <= Quota * (1 + sums.months)

Available == (IF bk.live THEN bk.free ELSE 0) + (Quota - bk.used) + bk.bal

\* Rows are worked off for as long as there are tokens to charge.
DebtIsWorkedOff == []<>(DOMAIN rows = {} \/ Available = 0)
=============================================================================
