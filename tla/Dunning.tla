------------------------------ MODULE Dunning ------------------------------
(***************************************************************************)
(* The life of one tenant's subscription: expiry (package_service.go),     *)
(* the dunning sequence and its suspension (dunning.go), the payments that *)
(* end both (MarkOrderPaid, GrantPackage) and the status changes of the    *)
(* platform's administrators (api/super.go).                               *)
(*                                                                         *)
(* The sweep and the expiry check exclude each other by a lock; payments   *)
(* and administrators take no lock.  Time is counted in days since the end *)
(* of the term; no day passes during a sweep.  A moment that is compared   *)
(* with the audit trail is the number of bans recorded so far, plus one.   *)
(***************************************************************************)
EXTENDS Naturals, FiniteSets

CONSTANTS
    Steps,      \* dunning_steps: the days of the reminders
    Grace,      \* dunning_suspend_after_days; 0: remind and never suspend
    \* bounds of a run: days counted after the end of a term; terms; payments;
    \* acts of the administrators; failures
    MaxDays, MaxTerms, MaxPays, MaxActs, MaxFails

VARIABLES
    tenant,    \* status, term (expired_at), whether expired_at is past
    day,
    row,       \* billing_dunning: status, stage, due_at, suspended_at (0: null)
    bans,      \* the audit rows of suspensions by hand
    sweep,     \* the sweep: place, copy of the row, moment of its start, term
               \* and days of the listed tenant, whether it is to be suspended
    payer,     \* the handler of a payment: place, package, copy of the row
    admin,     \* "audit" between the change of status and its audit row
    banned,    \* history: the tenant is suspended by hand
    untold,    \* history: the audit row of that ban could not be written
    overlap,   \* history: a ban is not in the trail that the payer has looked at
    unread,    \* history: the payer could not read the trail, and goes on without
    pays, acts, fails

dunningTally == <<pays, acts, fails>>
dunningVars == <<tenant, day, row, bans, sweep, payer, admin, banned, untold, overlap, unread, dunningTally>>

Null == [st |-> "none", stage |-> 0, due |-> 0, by |-> 0]
SweepIdle == [pc |-> "idle", seen |-> Null, mark |-> 0, term |-> 0, past |-> 0, suspend |-> FALSE]
PayerIdle == [pc |-> "idle", pkg |-> "none", seen |-> Null]
InProgress(r) == r.st \in {"running", "exhausted"}

DunningInit ==
    /\ tenant = [st |-> "active", term |-> 1, late |-> FALSE]
    /\ day = 0 /\ row = Null /\ bans = 0
    /\ sweep = SweepIdle /\ payer = PayerIdle /\ admin = "idle"
    /\ banned = FALSE /\ untold = FALSE /\ overlap = FALSE /\ unread = FALSE
    /\ pays = 0 /\ acts = 0 /\ fails = 0

HistoryKept == UNCHANGED <<banned, untold, overlap, unread>>

(***************************************************************************)
(* Time, and ExpireCheck.                                                  *)
(***************************************************************************)
TermEnds ==
    /\ sweep.pc = "idle" /\ ~tenant.late
    /\ tenant' = [tenant EXCEPT !.late = TRUE]
    /\ UNCHANGED <<day, row, bans, sweep, payer, admin, dunningTally>> /\ HistoryKept

DayPasses ==
    /\ sweep.pc = "idle" /\ tenant.late /\ day < MaxDays /\ day' = day + 1
    /\ UNCHANGED <<tenant, row, bans, sweep, payer, admin, dunningTally>> /\ HistoryKept

ExpireCheck ==
    /\ sweep.pc = "idle" /\ tenant.late /\ tenant.st = "active"
    /\ tenant' = [tenant EXCEPT !.st = "expired"]
    /\ UNCHANGED <<day, row, bans, sweep, payer, admin, dunningTally>> /\ HistoryKept

(***************************************************************************)
(* sweepDunning.                                                           *)
(***************************************************************************)
SweepFrame == UNCHANGED <<day, bans, payer, admin, dunningTally>> /\ HistoryKept
SweepTo(place) == sweep' = [sweep EXCEPT !.pc = place]
EndSweep == sweep' = SweepIdle

\* Mutant: an exhausted sequence is left out of the reconciliation.
MutReconciled(r) == r.st = "running"
Reconciled(r) == InProgress(r)

BeginSweep ==
    /\ sweep.pc = "idle"
    /\ Reconciled(row) \/ tenant.late
    /\ sweep' = [SweepIdle EXCEPT !.pc = IF Reconciled(row) THEN "judge" ELSE "list",
                                  !.seen = row, !.mark = bans + 1]
    /\ UNCHANGED <<tenant, row>> /\ SweepFrame

\* reconcileRecoveredDunning.  Its way back from suspended to expired is left
\* out: a tenant that is suspended with suspended_at set is still owing, two
\* lines before it is looked at.
StillOwed ==
    \/ tenant.st = "expired" /\ tenant.late
    \/ tenant.st = "suspended" /\ sweep.seen.by # 0

Judge ==
    /\ sweep.pc = "judge"
    /\ SweepTo(IF StillOwed THEN "list" ELSE IF sweep.seen.by # 0 THEN "clear" ELSE "resolve")
    /\ UNCHANGED <<tenant, row>> /\ SweepFrame

Clear ==
    /\ sweep.pc = "clear" /\ row' = [row EXCEPT !.by = 0] /\ SweepTo("resolve")
    /\ UNCHANGED tenant /\ SweepFrame

Resolve ==
    /\ sweep.pc = "resolve" /\ row' = [row EXCEPT !.st = "resolved"] /\ SweepTo("list")
    /\ UNCHANGED tenant /\ SweepFrame

ListExpired ==
    /\ sweep.pc = "list"
    /\ IF tenant.st = "expired" /\ tenant.late
       THEN sweep' = [sweep EXCEPT !.pc = "load", !.seen = Null, !.term = tenant.term, !.past = day]
       ELSE EndSweep
    /\ UNCHANGED <<tenant, row>> /\ SweepFrame

\* loadOrCreateDunning, and planDunning on the row it returns.
Reopen == row.st # "running" \/ row.due # sweep.term
Loaded == IF Reopen THEN [st |-> "running", stage |-> 0, due |-> sweep.term, by |-> 0] ELSE row
Target == Cardinality({s \in Steps : s <= sweep.past})

GraceOver == Grace > 0 /\ sweep.past >= Grace

PlanStep ==
    IF Loaded.by # 0 \/ (~GraceOver /\ Target <= Loaded.stage) THEN EndSweep
    ELSE sweep' = [sweep EXCEPT !.suspend = GraceOver,
                                !.pc = IF GraceOver THEN "suspend" ELSE "state"]

Load ==
    /\ sweep.pc = "load" /\ row' = Loaded /\ PlanStep
    /\ UNCHANGED tenant /\ SweepFrame

\* suspendTenantByDunning: only a tenant that is expired now; then suspended_at.
Suspend ==
    /\ sweep.pc = "suspend"
    /\ \/ /\ tenant.st = "expired" /\ tenant' = [tenant EXCEPT !.st = "suspended"]
          /\ SweepTo("stamp")
       \/ /\ tenant.st # "expired" /\ SweepTo("state") /\ UNCHANGED tenant
    /\ UNCHANGED row /\ SweepFrame

Stamp ==
    /\ sweep.pc = "stamp" /\ row' = [row EXCEPT !.by = sweep.mark] /\ SweepTo("state")
    /\ UNCHANGED tenant /\ SweepFrame

\* The state of the sequence, written whether or not the tenant was suspended.
SaveState ==
    /\ sweep.pc = "state"
    /\ row' = [row EXCEPT !.stage = IF sweep.suspend THEN Cardinality(Steps) ELSE Target,
                          !.due = sweep.term,
                          !.st = IF sweep.suspend THEN "exhausted" ELSE @]
    /\ EndSweep
    /\ UNCHANGED tenant /\ SweepFrame

Fail == fails < MaxFails /\ fails' = fails + 1 /\ UNCHANGED <<pays, acts>>

\* A write of the sweep fails, and the sweep goes on without it, or its process dies.
SweepFails ==
    /\ sweep.pc # "idle" /\ Fail
    /\ \/ EndSweep
       \/ sweep.pc = "clear" /\ SweepTo("resolve")
       \/ sweep.pc = "resolve" /\ SweepTo("list")
       \/ sweep.pc = "load" /\ PlanStep
       \/ sweep.pc \in {"suspend", "stamp"} /\ SweepTo("state")
    /\ UNCHANGED <<tenant, day, row, bans, payer, admin>> /\ HistoryKept

(***************************************************************************)
(* A payment: MarkOrderPaid, DunningOnPaid, and the grant.                 *)
(***************************************************************************)
PayFrame == UNCHANGED <<day, bans, sweep, admin>>
PayTo(place) == payer' = [payer EXCEPT !.pc = place]

Pay(pkg) ==
    /\ payer.pc = "idle" /\ pays < MaxPays /\ pays' = pays + 1
    /\ payer' = [pc |-> IF InProgress(row) THEN "check" ELSE "grant", pkg |-> pkg, seen |-> row]
    /\ UNCHANGED <<tenant, row, acts, fails>> /\ HistoryKept /\ PayFrame

\* Mutant: suspended_at alone tells whose suspension it is.
MutBannedAfter(at) == FALSE
\* manualSuspendAfter, when the trail can be read.
BannedAfter(at) == bans >= at

CheckStatus ==
    /\ payer.pc = "check"
    /\ PayTo(IF tenant.st = "suspended" /\ payer.seen.by # 0 THEN "trail" ELSE "close")
    /\ UNCHANGED <<tenant, row, dunningTally>> /\ HistoryKept /\ PayFrame

\* The look at the trail is history's concern whether or not it succeeds.
LooksAtTrail ==
    /\ payer.pc = "trail" /\ overlap' = (admin = "audit" \/ untold)
    /\ UNCHANGED <<tenant, row, banned, untold>> /\ PayFrame

CheckTrail ==
    /\ PayTo(IF BannedAfter(payer.seen.by) THEN "close" ELSE "lift")
    /\ LooksAtTrail /\ UNCHANGED <<unread, dunningTally>>

\* The error of the count is dropped: no rows counted is no ban.
TrailUnreadable == PayTo("lift") /\ unread' = TRUE /\ LooksAtTrail /\ Fail

Lift ==
    /\ payer.pc = "lift" /\ PayTo("forget")
    /\ tenant' = IF tenant.st = "suspended" THEN [tenant EXCEPT !.st = "active"] ELSE tenant
    /\ banned' = FALSE /\ untold' = FALSE
    /\ UNCHANGED <<row, overlap, unread, dunningTally>> /\ PayFrame

LookIsOver == overlap' = FALSE /\ unread' = FALSE

CloseSequence ==
    /\ payer.pc \in {"close", "forget"} /\ PayTo("grant")
    /\ row' = [row EXCEPT !.st = "resolved", !.by = IF payer.pc = "forget" THEN 0 ELSE @]
    /\ LookIsOver
    /\ UNCHANGED <<tenant, banned, untold, dunningTally>> /\ PayFrame

\* A monthly package makes the tenant active, whoever suspended it, and starts a
\* term; a token pack leaves the status alone.
Grant ==
    /\ payer.pc = "grant" /\ payer' = PayerIdle
    /\ \/ /\ payer.pkg = "month" /\ tenant.term < MaxTerms
          /\ tenant' = [st |-> "active", term |-> tenant.term + 1, late |-> FALSE]
          /\ day' = 0 /\ banned' = FALSE /\ untold' = FALSE
       \/ payer.pkg = "pack" /\ UNCHANGED <<tenant, day, banned, untold>>
    /\ UNCHANGED <<row, bans, sweep, admin, overlap, unread, dunningTally>>

\* The tenant is not read, or the lift is not written: the sequence is closed all
\* the same.
PayerSkips ==
    /\ payer.pc \in {"check", "lift"} /\ PayTo("close") /\ Fail
    /\ UNCHANGED <<tenant, row>> /\ HistoryKept /\ PayFrame

\* The sequence is not read or not closed, or the handler dies; the grant is made
\* up later.
PayerFails ==
    /\ payer.pc \notin {"idle", "grant"} /\ PayTo("grant") /\ Fail /\ LookIsOver
    /\ UNCHANGED <<tenant, row, banned, untold>> /\ PayFrame

(***************************************************************************)
(* The administrators: SuperTenantStatus, ResetDunning.                    *)
(***************************************************************************)
Act == admin = "idle" /\ acts < MaxActs /\ acts' = acts + 1 /\ UNCHANGED <<pays, fails>>

SetStatus(st) ==
    /\ Act /\ tenant' = [tenant EXCEPT !.st = st]
    /\ banned' = (st = "suspended") /\ untold' = FALSE
    /\ admin' = IF st = "suspended" THEN "audit" ELSE "idle"
    /\ overlap' = (overlap \/ (st = "suspended" /\ payer.pc = "lift"))
    /\ UNCHANGED <<day, row, bans, sweep, payer, unread>>

WriteAudit ==
    /\ admin = "audit" /\ admin' = "idle" /\ bans' = bans + 1
    /\ UNCHANGED <<tenant, day, row, sweep, payer, dunningTally>> /\ HistoryKept

\* The error of the insert is dropped: the ban stays without a row.
AuditLost ==
    /\ admin = "audit" /\ admin' = "idle" /\ untold' = banned /\ Fail
    /\ UNCHANGED <<tenant, day, row, bans, sweep, payer, banned, overlap, unread>>

ResetDunning ==
    /\ Act /\ InProgress(row) /\ row' = [row EXCEPT !.st = "resolved"]
    /\ UNCHANGED <<tenant, day, bans, sweep, payer, admin>> /\ HistoryKept

SweepStep ==
    BeginSweep \/ Judge \/ Clear \/ Resolve \/ ListExpired \/ Load \/ Suspend \/ Stamp \/ SaveState

DunningNext ==
    \/ TermEnds \/ DayPasses \/ ExpireCheck
    \/ SweepStep \/ SweepFails
    \/ \E pkg \in {"month", "pack"} : Pay(pkg)
    \/ CheckStatus \/ CheckTrail \/ TrailUnreadable \/ Lift \/ CloseSequence \/ Grant
    \/ PayerSkips \/ PayerFails
    \/ \E st \in {"active", "expired", "suspended"} : SetStatus(st)
    \/ WriteAudit \/ AuditLost \/ ResetDunning

\* The sweep is called every hour and goes on.
DunningSpec == DunningInit /\ [][DunningNext]_dunningVars
DunningFairSpec == DunningSpec /\ WF_dunningVars(SweepStep)

----------------------------------------------------------------------------
DunningTypeOK ==
    /\ tenant.st \in {"active", "expired", "suspended"} /\ tenant.term \in 1 .. MaxTerms
    /\ day \in 0 .. MaxDays /\ (day > 0 => tenant.late)
    /\ row.st \in {"none", "running", "exhausted", "resolved"}
    /\ row.stage \in 0 .. Cardinality(Steps) /\ row.due \in 0 .. tenant.term
    /\ row.by \in 0 .. bans + 1 /\ bans <= acts
    /\ sweep.pc \in {"idle", "judge", "clear", "resolve", "list", "load", "suspend", "stamp", "state"}
    /\ payer.pc \in {"idle", "check", "trail", "lift", "close", "forget", "grant"}

\* A suspension by hand ends by an administrator or by the grant of a monthly
\* package (package_service.go:107), and by nothing else: neither the sweep nor the
\* expiry ends it, and the sequence that closes on a payment lifts its own
\* suspension only ("the sequence does not decide for the customer", dunning.go:19).
\* Its lift errs when the ban or its audit row came after the look at the trail,
\* when the row was never written, or when the trail could not be read.
LiftsOnlyItsOwn ==
    [][banned /\ tenant'.st # "suspended" =>
         \/ acts' # acts
         \/ payer.pc = "grant" /\ payer.pkg = "month"
         \/ payer.pc = "lift" /\ (overlap \/ unread)]_dunningVars

\* The sequence of a tenant that owes nothing is closed in the end, and does not
\* stay in the queue of the administrators (dunning.go:412).
SettledIsClosed ==
    []<>~(tenant.st = "active" /\ ~tenant.late /\ InProgress(row))
=============================================================================
