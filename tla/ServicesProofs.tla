--------------------------- MODULE ServicesProofs ---------------------------
(***************************************************************************)
(* What holds of Dunning for any steps of the sequence and any days of     *)
(* grace, and for any number of terms, payments, acts and failures; the    *)
(* types of the services of a tenant; and that a behaviour of MCServices   *)
(* is one of each service, so that what is proved of a service holds of    *)
(* the composition.                                                        *)
(***************************************************************************)
EXTENDS MCServices, SalesProofs, EventBusProofs, ConversationProofs

(***************************************************************************)
(* The subscription of a tenant.                                           *)
(***************************************************************************)
RowShape(r) == r = [st |-> r.st, stage |-> r.stage, due |-> r.due, by |-> r.by]
SweepShape(s) ==
    s = [pc |-> s.pc, seen |-> s.seen, mark |-> s.mark, term |-> s.term, past |-> s.past,
         suspend |-> s.suspend]
PayerShape(p) == p = [pc |-> p.pc, pkg |-> p.pkg, seen |-> p.seen]
TenantShape(t) == t = [st |-> t.st, term |-> t.term, late |-> t.late]

\* A moment is not in the future, and a ban that stands was recorded at or after
\* it, unless its audit row is still to be written, or was lost.
Moment(at) == at \in Nat /\ at <= bans + 1
BanFollows(at) == banned /\ ~untold => admin = "audit" \/ bans >= at

Shapes ==
    /\ TenantShape(tenant) /\ RowShape(row) /\ SweepShape(sweep) /\ PayerShape(payer)
    /\ bans \in Nat /\ acts \in Nat
    /\ banned \in BOOLEAN /\ untold \in BOOLEAN /\ overlap \in BOOLEAN /\ unread \in BOOLEAN

Moments == Moment(row.by) /\ Moment(sweep.mark) /\ Moment(payer.seen.by)

\* Every suspended_at that a payment may compare with the trail: the row's, the one
\* the sweep is about to write, the one in the payment's copy.
Bans ==
    /\ banned => tenant.st = "suspended"
    /\ BanFollows(row.by)
    /\ sweep.pc = "stamp" => BanFollows(sweep.mark)
    /\ BanFollows(payer.seen.by)

LiftKnows == payer.pc = "lift" => ~banned \/ overlap \/ unread

DunningInv == Shapes /\ Moments /\ Bans /\ LiftKnows

----------------------------------------------------------------------------
\* A record that is written out has its shape.
LEMMA WrittenSweep ==
    ASSUME NEW p, NEW s, NEW m, NEW t, NEW d, NEW u
    PROVE  SweepShape([pc |-> p, seen |-> s, mark |-> m, term |-> t, past |-> d, suspend |-> u])
BY DEF SweepShape

LEMMA WrittenPayer ==
    ASSUME NEW p, NEW k, NEW s PROVE PayerShape([pc |-> p, pkg |-> k, seen |-> s])
BY DEF PayerShape

LEMMA WrittenRow ==
    ASSUME NEW s, NEW g, NEW d, NEW b
    PROVE  RowShape([st |-> s, stage |-> g, due |-> d, by |-> b])
BY DEF RowShape

\* The records of the parties at rest.
LEMMA AtRest ==
    /\ SweepShape(SweepIdle) /\ SweepIdle.pc = "idle" /\ SweepIdle.mark = 0
    /\ PayerShape(PayerIdle) /\ PayerIdle.pc = "idle" /\ PayerIdle.seen.by = 0
    /\ RowShape(Null) /\ Null.by = 0
<1>1. SweepShape(SweepIdle) /\ PayerShape(PayerIdle) /\ RowShape(Null)
  BY WrittenSweep, WrittenPayer, WrittenRow DEF SweepIdle, PayerIdle, Null
<1> QED
  BY <1>1 DEF SweepIdle, PayerIdle, Null

LEMMA InitHolds == ASSUME DunningInit PROVE DunningInv
<1>1. TenantShape(tenant) /\ row = Null /\ sweep = SweepIdle /\ payer = PayerIdle
  BY DEF DunningInit, TenantShape
<1>2. bans = 0 /\ acts = 0 /\ banned = FALSE /\ untold = FALSE /\ overlap = FALSE /\ unread = FALSE
  BY DEF DunningInit
<1> QED
  <2>1. Shapes
    BY <1>1, <1>2, AtRest DEF Shapes
  <2>2. Moments
    BY <1>1, <1>2, AtRest DEF Moments, Moment
  <2>3. Bans
    BY <1>1, <1>2, AtRest DEF Bans, BanFollows
  <2>4. LiftKnows
    BY <1>1, AtRest DEF LiftKnows
  <2> QED
    BY <2>1, <2>2, <2>3, <2>4 DEF DunningInv

\* Time and the expiry check touch the tenant and the day only.
LEMMA TimeSteps ==
    ASSUME DunningInv, TermEnds \/ DayPasses \/ ExpireCheck
    PROVE  DunningInv'
BY DEF TermEnds, DayPasses, ExpireCheck, HistoryKept, dunningTally, DunningInv, Shapes, Moments, Bans, LiftKnows, Moment,
       BanFollows, TenantShape

\* The sweep, up to the load of the row: suspended_at stays or is cleared, and a
\* moment is taken only when the sweep begins, far from the stamp.
LEMMA SweepLooks ==
    ASSUME DunningInv, BeginSweep \/ Judge \/ Clear \/ Resolve \/ ListExpired
    PROVE  DunningInv'
<1> USE DEF DunningInv, Shapes, Moments, Bans, LiftKnows, Moment, BanFollows, TenantShape,
            PayerShape, SweepFrame, HistoryKept, dunningTally
<1>1. CASE BeginSweep
  <2>1. PICK p \in {"judge", "list"} :
          sweep' = [SweepIdle EXCEPT !.pc = p, !.seen = row, !.mark = bans + 1]
    BY <1>1 DEF BeginSweep
  <2>2. SweepShape(sweep') /\ sweep'.pc # "stamp" /\ sweep'.mark = bans + 1
    BY <2>1 DEF SweepIdle, SweepShape
  <2> QED
    BY <1>1, <2>2 DEF BeginSweep
<1>2. CASE Judge
  BY <1>2 DEF Judge, SweepTo, SweepShape, RowShape
<1>3. CASE Clear
  BY <1>3 DEF Clear, SweepTo, SweepShape, RowShape
<1>4. CASE Resolve
  BY <1>4 DEF Resolve, SweepTo, SweepShape, RowShape
<1>5. CASE ListExpired
  <2>1. SweepShape(sweep') /\ sweep'.pc # "stamp" /\ sweep'.mark \in {0, sweep.mark}
    <3>1. CASE EndSweep
      BY <3>1, AtRest DEF EndSweep
    <3>2. CASE sweep' = [sweep EXCEPT !.pc = "load", !.seen = Null, !.term = tenant.term, !.past = day]
      BY <3>2 DEF SweepShape
    <3> QED
      BY <1>5, <3>1, <3>2 DEF ListExpired
  <2> QED
    BY <1>5, <2>1 DEF ListExpired
<1> QED
  BY <1>1, <1>2, <1>3, <1>4, <1>5

\* The plan keeps the moment of the sweep, or ends it, and does not stamp.
LEMMA PlanKeeps ==
    ASSUME SweepShape(sweep), Moment(sweep.mark), bans \in Nat, PlanStep, UNCHANGED bans
    PROVE  SweepShape(sweep') /\ Moment(sweep.mark)' /\ sweep'.pc # "stamp"
<1>1. CASE EndSweep
  BY <1>1, AtRest DEF EndSweep, Moment
<1>2. CASE sweep' = [sweep EXCEPT !.suspend = GraceOver,
                                   !.pc = IF GraceOver THEN "suspend" ELSE "state"]
  BY <1>2 DEF SweepShape, Moment
<1> QED
  BY <1>1, <1>2 DEF PlanStep

LEMMA LoadStep == ASSUME DunningInv, Load PROVE DunningInv'
<1>1. SweepShape(sweep') /\ Moment(sweep.mark)' /\ sweep'.pc # "stamp"
  BY PlanKeeps DEF Load, SweepFrame, DunningInv, Shapes, Moments
<1>2. RowShape(row') /\ (row'.by = row.by \/ row'.by = 0)
  BY DEF Load, Loaded, RowShape, DunningInv, Shapes
<1> QED
  BY <1>1, <1>2 DEF Load, SweepFrame, HistoryKept, dunningTally, DunningInv, Shapes, Moments, Bans, LiftKnows, Moment,
     BanFollows, TenantShape, PayerShape

\* The sweep suspends an expired tenant, which nobody has banned, and stamps the
\* row with the moment at which it began.
LEMMA SweepSuspends ==
    ASSUME DunningInv, Suspend \/ Stamp \/ SaveState
    PROVE  DunningInv'
<1> USE DEF DunningInv, Shapes, Moments, Bans, LiftKnows, Moment, BanFollows, TenantShape,
            PayerShape, SweepFrame, HistoryKept, dunningTally
<1>1. CASE Suspend
  BY <1>1 DEF Suspend, SweepTo, SweepShape, RowShape
<1>2. CASE Stamp
  BY <1>2 DEF Stamp, SweepTo, SweepShape, RowShape
<1>3. CASE SaveState
  <2>1. RowShape(row') /\ row'.by = row.by
    BY <1>3 DEF SaveState, RowShape
  <2> QED
    BY <1>3, <2>1, AtRest DEF SaveState, EndSweep
<1> QED
  BY <1>1, <1>2, <1>3

LEMMA SweepFailure == ASSUME DunningInv, SweepFails PROVE DunningInv'
<1>1. UNCHANGED <<tenant, row, bans, payer, admin, banned, untold, overlap, unread, acts>>
  BY DEF SweepFails, Fail, HistoryKept
<1>2. SweepShape(sweep') /\ Moment(sweep.mark)' /\ sweep'.pc # "stamp"
  <2>1. CASE sweep.pc = "load" /\ PlanStep
    BY <2>1, <1>1, PlanKeeps DEF DunningInv, Shapes, Moments
  <2>2. CASE EndSweep
    BY <2>2, <1>1 DEF EndSweep, SweepIdle, SweepShape, Moment, DunningInv, Shapes
  <2>3. CASE SweepTo("resolve") \/ SweepTo("list") \/ SweepTo("state")
    BY <2>3, <1>1 DEF SweepTo, SweepShape, Moment, DunningInv, Shapes, Moments
  <2> QED
    BY <2>1, <2>2, <2>3 DEF SweepFails
<1> QED
  BY <1>1, <1>2 DEF DunningInv, Shapes, Moments, Bans, LiftKnows, Moment, BanFollows

\* A payment copies the row, and lifts when the trail it reads has no ban after the
\* suspension, or cannot be read: a ban that stands then is one whose audit row is
\* to come or is lost, or it is not known.
LEMMA PaymentSteps ==
    ASSUME DunningInv,
           \/ \E pkg \in {"month", "pack"} : Pay(pkg)
           \/ CheckStatus \/ CheckTrail \/ TrailUnreadable \/ Lift \/ CloseSequence \/ Grant
           \/ PayerSkips \/ PayerFails
    PROVE  DunningInv'
<1> USE DEF DunningInv, Shapes, Moments, Bans, LiftKnows, Moment, BanFollows, PayFrame,
            HistoryKept, dunningTally, LookIsOver
<1>1. ASSUME NEW pkg \in {"month", "pack"}, Pay(pkg) PROVE DunningInv'
  BY <1>1 DEF Pay, PayerShape
<1>2. CASE CheckStatus
  BY <1>2 DEF CheckStatus, PayTo, PayerShape
<1>3. CASE CheckTrail
  BY <1>3 DEF CheckTrail, LooksAtTrail, BannedAfter, PayTo, PayerShape
<1>4. CASE Lift
  BY <1>4 DEF Lift, PayTo, PayerShape, TenantShape
<1>5. CASE CloseSequence
  <2>1. RowShape(row') /\ row'.by \in {0, row.by}
    BY <1>5 DEF CloseSequence, RowShape
  <2>2. PayerShape(payer') /\ payer'.pc = "grant" /\ payer'.seen = payer.seen
    BY <1>5 DEF CloseSequence, PayTo, PayerShape
  <2> QED
    <3>1. Shapes'
      BY <1>5, <2>1, <2>2 DEF CloseSequence
    <3>2. Moments'
      BY <1>5, <2>1, <2>2 DEF CloseSequence
    <3>3. Bans'
      BY <1>5, <2>1, <2>2 DEF CloseSequence
    <3>4. LiftKnows'
      BY <2>2
    <3> QED
      BY <3>1, <3>2, <3>3, <3>4
<1>6. CASE Grant
  <2>1. TenantShape(tenant') /\ (banned' = FALSE \/ UNCHANGED <<tenant, banned>>)
    BY <1>6 DEF Grant, TenantShape
  <2> QED
    <3>1. Shapes'
      BY <1>6, <2>1, AtRest DEF Grant
    <3>2. Moments'
      BY <1>6, <2>1, AtRest DEF Grant
    <3>3. Bans'
      BY <1>6, <2>1, AtRest DEF Grant
    <3>4. LiftKnows'
      BY <1>6, <2>1, AtRest DEF Grant
    <3> QED
      BY <3>1, <3>2, <3>3, <3>4
<1>7. CASE PayerFails
  BY <1>7 DEF PayerFails, PayTo, PayerShape, Fail
<1>8. CASE TrailUnreadable
  BY <1>8 DEF TrailUnreadable, LooksAtTrail, PayTo, PayerShape, Fail
<1>9. CASE PayerSkips
  BY <1>9 DEF PayerSkips, PayTo, PayerShape, Fail
<1> QED
  BY <1>1, <1>2, <1>3, <1>4, <1>5, <1>6, <1>7, <1>8, <1>9

\* A ban is followed by its audit row, the next moment of the trail, or by its loss.
LEMMA AdministratorSteps ==
    ASSUME DunningInv,
           \/ \E st \in {"active", "expired", "suspended"} : SetStatus(st)
           \/ WriteAudit \/ AuditLost \/ ResetDunning
    PROVE  DunningInv'
<1> USE DEF DunningInv, Shapes, Moments, Bans, LiftKnows, Moment, BanFollows, HistoryKept,
            dunningTally, Act
<1>1. ASSUME NEW st \in {"active", "expired", "suspended"}, SetStatus(st) PROVE DunningInv'
  <2>1. TenantShape(tenant') /\ tenant'.st = st
    BY <1>1 DEF SetStatus, TenantShape
  <2>2. /\ UNCHANGED <<row, bans, sweep, payer, unread>> /\ acts' = acts + 1
        /\ banned' = (st = "suspended") /\ untold' = FALSE /\ (banned' => admin' = "audit")
        /\ overlap' = (overlap \/ (st = "suspended" /\ payer.pc = "lift"))
    BY <1>1 DEF SetStatus
  <2>3. Shapes'
    <3>1. banned' \in BOOLEAN /\ untold' \in BOOLEAN /\ overlap' \in BOOLEAN /\ unread' \in BOOLEAN
      BY <2>2, Zenon
    <3>2. acts' \in Nat
      BY <2>2
    <3> QED
      BY <2>1, <2>2, <3>1, <3>2
  <2>4. Moments' /\ Bans' /\ LiftKnows'
    BY <2>1, <2>2
  <2> QED
    BY <2>3, <2>4
<1>2. CASE WriteAudit
  BY <1>2 DEF WriteAudit
<1>3. CASE ResetDunning
  BY <1>3 DEF ResetDunning, RowShape
<1>4. CASE AuditLost
  BY <1>4 DEF AuditLost, Fail
<1> QED
  BY <1>1, <1>2, <1>3, <1>4

LEMMA StepKeeps == ASSUME DunningInv, [DunningNext]_dunningVars PROVE DunningInv'
<1>1. CASE UNCHANGED dunningVars
  BY <1>1 DEF dunningVars, dunningTally, DunningInv, Shapes, Moments, Bans, LiftKnows, Moment,
     BanFollows
<1>2. CASE DunningNext
  BY <1>2, TimeSteps, SweepLooks, LoadStep, SweepSuspends, SweepFailure, PaymentSteps,
     AdministratorSteps
     DEF DunningNext, SweepStep
<1> QED
  BY <1>1, <1>2

\* Nobody but an administrator and a payment changes the status of a tenant that is
\* suspended, and a payment in two places: its lift, and the grant of a month.
LEMMA WhoEndsSuspension ==
    ASSUME DunningInv, [DunningNext]_dunningVars, tenant.st = "suspended", tenant'.st # "suspended"
    PROVE  acts' # acts \/ (payer.pc = "grant" /\ payer.pkg = "month") \/ Lift
<1>1. CASE UNCHANGED dunningVars
  BY <1>1 DEF dunningVars
<1>2. CASE TermEnds \/ DayPasses \/ ExpireCheck
  BY <1>2 DEF TermEnds, DayPasses, ExpireCheck, DunningInv, Shapes, TenantShape
<1>3. CASE SweepStep \/ SweepFails
  BY <1>3 DEF SweepStep, BeginSweep, Judge, Clear, Resolve, ListExpired, Load, Suspend, Stamp,
     SaveState, SweepFails
<1>4. CASE \/ \E pkg \in {"month", "pack"} : Pay(pkg)
           \/ CheckStatus \/ CheckTrail \/ TrailUnreadable \/ CloseSequence \/ PayerSkips \/ PayerFails
  BY <1>4 DEF Pay, CheckStatus, CheckTrail, TrailUnreadable, LooksAtTrail, CloseSequence,
     PayerSkips, PayerFails
<1>5. CASE Grant
  BY <1>5 DEF Grant
<1>6. CASE \E st \in {"active", "expired", "suspended"} : SetStatus(st)
  BY <1>6 DEF SetStatus, Act, DunningInv, Shapes
<1>7. CASE WriteAudit \/ AuditLost \/ ResetDunning
  BY <1>7 DEF WriteAudit, AuditLost, ResetDunning
<1> QED
  BY <1>1, <1>2, <1>3, <1>4, <1>5, <1>6, <1>7 DEF DunningNext

\* A suspension by hand ends by an administrator, by the grant of a monthly package
\* (package_service.go:107) or by the lift of a payment, and by nothing else; and
\* that lift ends one only if the ban, or its audit row, came after the look at the
\* trail, the row was never written, or the trail could not be read
\* (dunning.go:379, 401).
THEOREM PaymentsLeaveBans == DunningSpec => LiftsOnlyItsOwn
<1>1. DunningInv /\ [DunningNext]_dunningVars =>
          [banned /\ tenant'.st # "suspended" =>
             \/ acts' # acts
             \/ payer.pc = "grant" /\ payer.pkg = "month"
             \/ payer.pc = "lift" /\ (overlap \/ unread)]_dunningVars
  <2> SUFFICES ASSUME DunningInv, [DunningNext]_dunningVars, banned, tenant'.st # "suspended"
               PROVE  \/ acts' # acts
                      \/ payer.pc = "grant" /\ payer.pkg = "month"
                      \/ payer.pc = "lift" /\ (overlap \/ unread)
    OBVIOUS
  <2>1. tenant.st = "suspended" /\ (payer.pc = "lift" => overlap \/ unread)
    BY DEF DunningInv, Bans, LiftKnows
  <2> QED
    BY <2>1, WhoEndsSuspension DEF Lift
<1> QED
  BY <1>1, InitHolds, StepKeeps, PTL DEF DunningSpec, LiftsOnlyItsOwn

----------------------------------------------------------------------------
\* Its types.  A sweep carries a term that has begun, and every audit row of a ban,
\* the one still to be written included, is of an act of an administrator.
DunningConstants ==
    /\ Grace \in Nat /\ MaxDays \in Nat /\ MaxTerms \in Nat \ {0} /\ IsFiniteSet(Steps)

ActsAndTerms ==
    /\ acts \in Nat /\ admin \in {"idle", "audit"}
    /\ bans <= acts /\ (admin = "audit" => bans < acts)
    /\ sweep.term \in 0 .. tenant.term

DunningTypes == DunningInv /\ DunningTypeOK /\ ActsAndTerms

LEMMA DunningTypesInit == ASSUME DunningConstants, DunningInit PROVE DunningTypes
<1>1. Cardinality(Steps) \in Nat
  BY FS_CardinalityType DEF DunningConstants
<1>2. DunningInv
  BY InitHolds
<1> QED
  BY <1>1, <1>2 DEF DunningConstants, DunningInit, DunningTypes, DunningTypeOK, ActsAndTerms,
     SweepIdle, PayerIdle, Null

\* The days of the reminders that are due are some of the days.
LEMMA TargetType ==
    ASSUME DunningConstants
    PROVE  Cardinality(Steps) \in Nat /\ Target \in 0 .. Cardinality(Steps)
<1>1. {s \in Steps : s <= sweep.past} \subseteq Steps /\ IsFiniteSet(Steps)
  BY DEF DunningConstants
<1> QED
  BY <1>1, FS_Subset, FS_CardinalityType DEF Target

LEMMA DunningTypesNext ==
    ASSUME DunningConstants, DunningTypes, [DunningNext]_dunningVars PROVE DunningTypes'
<1> DEFINE RowTypes ==
             /\ row.st \in {"none", "running", "exhausted", "resolved"}
             /\ row.stage \in 0 .. Cardinality(Steps) /\ row.due \in 0 .. tenant.term
           TenantTypes ==
             /\ tenant.st \in {"active", "expired", "suspended"} /\ tenant.term \in 1 .. MaxTerms
             /\ day \in 0 .. MaxDays /\ (day > 0 => tenant.late)
           SweepTypes ==
             /\ sweep.pc \in {"idle", "judge", "clear", "resolve", "list", "load", "suspend",
                              "stamp", "state"}
             /\ sweep.term \in 0 .. tenant.term
           PayerTypes ==
             payer.pc \in {"idle", "check", "trail", "lift", "close", "forget", "grant"}
           TrailTypes ==
             /\ acts \in Nat /\ admin \in {"idle", "audit"} /\ bans \in Nat
             /\ bans <= acts /\ (admin = "audit" => bans < acts)
<1>1. DunningInv /\ DunningInv' /\ Shapes /\ Cardinality(Steps) \in Nat
  BY StepKeeps, TargetType DEF DunningTypes, DunningInv
<1>2. RowTypes /\ TenantTypes /\ SweepTypes /\ PayerTypes /\ TrailTypes
  BY <1>1 DEF DunningTypes, DunningTypeOK, ActsAndTerms, Shapes
<1>3. RowTypes' /\ TenantTypes' /\ SweepTypes' /\ PayerTypes' /\ TrailTypes' => DunningTypes'
  <2>1. row'.by \in 0 .. bans' + 1
    BY <1>1 DEF DunningInv, Shapes, Moments, Moment
  <2> QED
    BY <1>1, <2>1 DEF DunningTypes, DunningTypeOK, ActsAndTerms
<1>4. CASE TermEnds \/ DayPasses \/ ExpireCheck
  BY <1>1, <1>2, <1>3, <1>4
     DEF TermEnds, DayPasses, ExpireCheck, dunningTally, Shapes, TenantShape, DunningConstants
<1>5. CASE SweepStep \/ SweepFails
  <2>1. UNCHANGED <<day, bans, payer, admin, acts>> /\ tenant'.term = tenant.term
        /\ tenant'.late = tenant.late /\ tenant'.st \in {tenant.st, "suspended"}
    BY <1>1, <1>5
       DEF SweepStep, SweepFails, Fail, BeginSweep, Judge, Clear, Resolve, ListExpired, Load,
           Suspend, Stamp, SaveState, SweepFrame, dunningTally, Shapes, TenantShape
  <2>2. TenantTypes' /\ PayerTypes' /\ TrailTypes'
    BY <1>2, <2>1
  <2>3. ASSUME NEW p \in {"clear", "list", "resolve", "suspend", "stamp", "state"}, SweepTo(p)
        PROVE  SweepTypes'
    <3>1. sweep'.pc = p /\ sweep'.term = sweep.term
      BY <1>1, <2>3 DEF SweepTo, Shapes, SweepShape
    <3> QED
      BY <1>2, <2>1, <3>1
  <2>4. ASSUME EndSweep PROVE SweepTypes'
    BY <1>2, <2>1, <2>4 DEF EndSweep, SweepIdle
  <2>5. ASSUME PlanStep PROVE SweepTypes'
    <3>1. CASE sweep' = [sweep EXCEPT !.suspend = GraceOver,
                                      !.pc = IF GraceOver THEN "suspend" ELSE "state"]
      BY <1>1, <1>2, <2>1, <3>1 DEF Shapes, SweepShape
    <3> QED
      BY <2>4, <2>5, <3>1 DEF PlanStep
  <2>6. SweepTypes'
    <3>1. CASE BeginSweep
      <4>1. PICK p \in {"judge", "list"} :
              sweep' = [SweepIdle EXCEPT !.pc = p, !.seen = row, !.mark = bans + 1]
        BY <3>1 DEF BeginSweep
      <4> QED
        BY <1>2, <2>1, <4>1 DEF SweepIdle
    <3>2. CASE ListExpired
      <4>1. CASE sweep' = [sweep EXCEPT !.pc = "load", !.seen = Null, !.term = tenant.term, !.past = day]
        BY <1>1, <1>2, <2>1, <4>1 DEF Shapes, SweepShape
      <4> QED
        BY <2>4, <3>2, <4>1 DEF ListExpired
    <3> HIDE DEF SweepTypes
    <3>3. CASE SweepFails
      BY <2>3, <2>4, <2>5, <3>3 DEF SweepFails
    <3>4. CASE Judge
      <4>1. PICK p \in {"list", "clear", "resolve"} : SweepTo(p)
        <5>1. \E p : p \in {"list", "clear", "resolve"} /\ SweepTo(p)
          BY <3>4 DEF Judge
        <5> QED
          BY <5>1
      <4> QED
        BY <2>3, <4>1
    <3>5. CASE Clear \/ Resolve \/ Load \/ Suspend \/ Stamp \/ SaveState
      BY <2>3, <2>4, <2>5, <3>5 DEF Clear, Resolve, Load, Suspend, Stamp, SaveState
    <3> QED
      BY <1>5, <3>1, <3>2, <3>3, <3>4, <3>5 DEF SweepStep
  <2>7. RowTypes'
    <3>1. CASE Clear \/ Resolve \/ Stamp
      BY <1>1, <1>2, <2>1, <3>1 DEF Clear, Resolve, Stamp, Shapes, RowShape
    <3>2. CASE Load
      BY <1>1, <1>2, <2>1, <3>2 DEF Load, Loaded
    <3>3. CASE SaveState
      <4>1. Target \in 0 .. Cardinality(Steps)
        BY TargetType
      <4> QED
        BY <1>1, <1>2, <2>1, <3>3, <4>1 DEF SaveState, Shapes, RowShape
    <3>4. CASE UNCHANGED row
      BY <1>2, <2>1, <3>4
    <3> QED
      BY <1>5, <3>1, <3>2, <3>3, <3>4
         DEF SweepStep, SweepFails, BeginSweep, Judge, ListExpired, Suspend
  <2> QED
    BY <1>3, <2>2, <2>6, <2>7
<1>6. CASE \/ \E pkg \in {"month", "pack"} : Pay(pkg)
           \/ CheckStatus \/ CheckTrail \/ TrailUnreadable \/ Lift \/ CloseSequence
           \/ PayerSkips \/ PayerFails
  <2>1. UNCHANGED <<day, bans, sweep, admin, acts>> /\ tenant'.term = tenant.term
        /\ tenant'.late = tenant.late /\ tenant'.st \in {tenant.st, "active"}
    BY <1>1, <1>6
       DEF Pay, CheckStatus, CheckTrail, TrailUnreadable, LooksAtTrail, Lift, CloseSequence,
           PayerSkips, PayerFails, Fail, PayFrame, dunningTally, Shapes, TenantShape
  <2>2. PayerTypes'
    BY <1>1, <1>6
       DEF Pay, CheckStatus, CheckTrail, TrailUnreadable, LooksAtTrail, Lift, CloseSequence,
           PayerSkips, PayerFails, PayTo, Shapes, PayerShape
  <2>3. RowTypes'
    BY <1>1, <1>2, <1>6, <2>1
       DEF Pay, CheckStatus, CheckTrail, TrailUnreadable, LooksAtTrail, Lift, CloseSequence,
           PayerSkips, PayerFails, Shapes, RowShape
  <2> QED
    BY <1>2, <1>3, <2>1, <2>2, <2>3
<1>7. CASE Grant
  <2>1. UNCHANGED <<row, bans, sweep, admin, acts>> /\ payer'.pc = "idle"
    BY <1>7, AtRest DEF Grant, dunningTally
  <2>2. TenantTypes' /\ tenant'.term \in {tenant.term, tenant.term + 1}
    BY <1>2, <1>7 DEF Grant, DunningConstants
  <2> QED
    BY <1>2, <1>3, <2>1, <2>2
<1>8. CASE \E st \in {"active", "expired", "suspended"} : SetStatus(st)
  BY <1>1, <1>2, <1>3, <1>8 DEF SetStatus, Act, Shapes, TenantShape
<1>9. CASE WriteAudit
  BY <1>1, <1>2, <1>3, <1>9 DEF WriteAudit, dunningTally
<1>10. CASE ResetDunning
  BY <1>1, <1>2, <1>3, <1>10 DEF ResetDunning, Act, Shapes, RowShape
<1>11. CASE UNCHANGED dunningVars
  BY <1>2, <1>3, <1>11 DEF dunningVars, dunningTally
<1>12. CASE AuditLost
  BY <1>1, <1>2, <1>3, <1>12 DEF AuditLost, Fail
<1> QED
  BY <1>4, <1>5, <1>6, <1>7, <1>8, <1>9, <1>10, <1>11, <1>12 DEF DunningNext

(***************************************************************************)
(* The flow.                                                               *)
(***************************************************************************)
\* The graph leads from nodes to nodes and the walk begins at one of them.
FlowConstants ==
    /\ StartNode \in Nodes /\ \A n \in Nodes : Leads[n] \in Seq(Nodes)
    /\ MaxSteps \in Nat /\ MaxWalks \in Nat

Walking == {w \in Walkers : walker[w].pc # "idle"}
WalkPlaces == {"idle", "walk", "get", "init", "complete", "advance", "reget", "again"}
WalkerType == [pc : WalkPlaces, node : Nodes, st : {"none", "running", "completed"},
               steps : 0 .. MaxSteps, ver : Nat]
MachineType == [node : Nodes, st : {"none", "running", "completed"}, ver : Nat, old : BOOLEAN]

\* The version of the machine is that of a walk that is over: every walk under way
\* has still one to give.
FlowInv ==
    /\ inst \in [node : Nodes, st : {"none", "running", "completed"}]
    /\ machine \in MachineType
    /\ walker \in [Walkers -> WalkerType]
    /\ patrol \in {"idle", "join", "close", "notice"}
    /\ walks \in 0 .. MaxWalks
    /\ IsFiniteSet(Walking) /\ machine.ver + Cardinality(Walking) <= walks

LEMMA FlowInvTypes == ASSUME FlowConstants, FlowInv PROVE FlowTypeOK
<1>1. Cardinality(Walking) \in Nat
  BY FS_CardinalityType DEF FlowInv
<1>2. machine.ver \in 0 .. MaxWalks + 1
  BY <1>1 DEF FlowInv, FlowConstants, MachineType
<1> QED
  BY <1>2 DEF FlowInv, FlowTypeOK, MachineType, WalkerType, WalkPlaces

LEMMA FlowInvInit == ASSUME FlowConstants, FlowInit PROVE FlowInv
<1>1. Resting \in WalkerType /\ Resting.pc = "idle"
  BY DEF FlowConstants, Resting, WalkerType, WalkPlaces
<1>2. Walking = {}
  BY <1>1 DEF FlowInit, Walking
<1>3. IsFiniteSet(Walking) /\ Cardinality(Walking) = 0
  BY <1>2, FS_EmptySet
<1> QED
  BY <1>1, <1>3 DEF FlowConstants, FlowInit, FlowInv, MachineType

\* Where a walk goes next is a node.
LEMMA FollowingType ==
    ASSUME FlowConstants, NEW n \in Nodes PROVE Following(n) \subseteq Nodes
<1>1. Leads[n] \in Seq(Nodes)
  BY DEF FlowConstants
<1>2. Range(Leads[n]) \subseteq Nodes
  BY <1>1, LenProperties, ElementOfSeq DEF Range
<1>3. Leads[n] # <<>> => Head(Leads[n]) \in Nodes
  BY <1>1
<1> QED
  BY <1>2, <1>3 DEF Following

\* A walk begins, goes on or is over: the walkers that are on their way.
LEMMA WalkBegins ==
    ASSUME FlowInv, NEW w \in Walkers, NEW q \in WalkerType, walker[w].pc = "idle", q.pc # "idle",
           walker' = [walker EXCEPT ![w] = q]
    PROVE  /\ walker' \in [Walkers -> WalkerType]
           /\ IsFiniteSet(Walking') /\ Cardinality(Walking') = Cardinality(Walking) + 1
<1>1. Walking' = Walking \cup {w} /\ w \notin Walking
  BY DEF FlowInv, Walking
<1> QED
  BY <1>1, FS_AddElement DEF FlowInv

LEMMA WalkGoesOn ==
    ASSUME FlowInv, NEW w \in Walkers, NEW q \in WalkerType, walker[w].pc # "idle", q.pc # "idle",
           walker' = [walker EXCEPT ![w] = q]
    PROVE  walker' \in [Walkers -> WalkerType] /\ Walking' = Walking
  BY DEF FlowInv, Walking

LEMMA WalkEnds ==
    ASSUME FlowConstants, FlowInv, NEW w \in Walkers, walker[w].pc # "idle", Rest(w)
    PROVE  /\ walker' \in [Walkers -> WalkerType]
           /\ IsFiniteSet(Walking') /\ Cardinality(Walking') + 1 = Cardinality(Walking)
<1>1. Resting \in WalkerType /\ Resting.pc = "idle"
  BY DEF FlowConstants, Resting, WalkerType, WalkPlaces
<1>2. Walking' = Walking \ {w} /\ w \in Walking
  BY <1>1 DEF FlowInv, Walking, Rest
<1>3. Cardinality(Walking) \in Nat /\ IsFiniteSet(Walking)
  BY FS_CardinalityType DEF FlowInv
<1>4. IsFiniteSet(Walking') /\ Cardinality(Walking') = Cardinality(Walking) - 1
  BY <1>2, <1>3, FS_RemoveElement
<1> QED
  BY <1>1, <1>3, <1>4 DEF FlowInv, Rest

LEMMA FlowInvNext == ASSUME FlowConstants, FlowInv, [FlowNext]_flowVars PROVE FlowInv'
<1> DEFINE n == Cardinality(Walking)
           Stay == UNCHANGED <<inst, machine, patrol, walks>>
<1>0. /\ inst \in [node : Nodes, st : {"none", "running", "completed"}] /\ machine \in MachineType
      /\ walker \in [Walkers -> WalkerType] /\ patrol \in {"idle", "join", "close", "notice"}
      /\ walks \in 0 .. MaxWalks /\ MaxWalks \in Nat /\ IsFiniteSet(Walking)
      /\ n \in Nat /\ machine.ver \in Nat /\ machine.ver + n <= walks
      /\ \A w \in Walkers : walker[w] \in WalkerType
  BY FS_CardinalityType DEF FlowInv, FlowConstants, MachineType
<1>1. ASSUME NEW w \in Walkers, StartFlow(w) \/ AdvanceFlow(w) PROVE FlowInv'
  <2>1. PICK i \in [node : Nodes, st : {"none", "running", "completed"}] :
          inst' = i /\ Walk(w, i)
    BY <1>0, <1>1 DEF StartFlow, AdvanceFlow
  <2> DEFINE q == [Resting EXCEPT !.pc = "walk", !.node = i.node, !.st = i.st]
  <2>2. q \in WalkerType /\ q.pc # "idle"
    <3>1. Resting \in WalkerType
      BY DEF FlowConstants, Resting, WalkerType, WalkPlaces
    <3>2. i.node \in Nodes /\ i.st \in {"none", "running", "completed"}
      OBVIOUS
    <3> QED
      BY <3>1, <3>2 DEF WalkerType, WalkPlaces
  <2>3. walker' = [walker EXCEPT ![w] = q] /\ walker[w].pc = "idle"
    BY <2>1 DEF Walk, WalkerAt
  <2> HIDE DEF q
  <2>4. /\ walker' \in [Walkers -> WalkerType]
        /\ IsFiniteSet(Walking') /\ Cardinality(Walking') = n + 1
    BY <2>2, <2>3, WalkBegins
  <2>5. walks' = walks + 1 /\ walks < MaxWalks /\ UNCHANGED <<machine, patrol>>
    BY <2>1 DEF Walk
  <2> QED
    BY <1>0, <2>1, <2>4, <2>5 DEF FlowInv
<1>2. ASSUME NEW w \in Walkers, NEW q \in WalkerType, walker[w].pc # "idle", q.pc # "idle",
             walker' = [walker EXCEPT ![w] = q], UNCHANGED <<machine, patrol, walks>>,
             inst' \in [node : Nodes, st : {"none", "running", "completed"}]
      PROVE  FlowInv'
  <2>1. walker' \in [Walkers -> WalkerType] /\ Walking' = Walking
    BY <1>2, WalkGoesOn
  <2> QED
    BY <1>0, <1>2, <2>1 DEF FlowInv
<1>3. ASSUME NEW w \in Walkers, walker[w].pc # "idle", Rest(w), UNCHANGED <<inst, patrol, walks>>,
             machine' \in MachineType, machine'.ver \in {machine.ver, machine.ver + 1, 1}
      PROVE  FlowInv'
  <2>1. /\ walker' \in [Walkers -> WalkerType]
        /\ IsFiniteSet(Walking') /\ Cardinality(Walking') + 1 = n
    BY <1>3, WalkEnds
  <2>2. Cardinality(Walking') \in Nat
    BY <2>1, FS_CardinalityType
  <2> QED
    BY <1>0, <1>3, <2>1, <2>2 DEF FlowInv
<1>4. ASSUME NEW w \in Walkers, ExecuteNode(w) PROVE FlowInv'
  <2>1. PICK m \in Following(walker[w].node) :
          walker' = [walker EXCEPT ![w].node = m, ![w].steps = @ + 1]
    BY <1>4 DEF ExecuteNode
  <2> DEFINE q == [walker[w] EXCEPT !.node = m, !.steps = @ + 1]
  <2>2. walker[w].node \in Nodes /\ walker[w].steps \in 0 .. MaxSteps /\ walker[w].steps < MaxSteps
        /\ walker[w].pc = "walk"
    BY <1>0, <1>4 DEF WalkerType, ExecuteNode, WalkerAt
  <2>3. m \in Nodes
    BY <2>1, <2>2, FollowingType
  <2>4. q \in WalkerType /\ q.pc # "idle"
    <3>1. walker[w].steps + 1 \in 0 .. MaxSteps
      BY <2>2 DEF FlowConstants
    <3>2. [walker[w] EXCEPT !.node = m, !.steps = walker[w].steps + 1] \in WalkerType
      BY <1>0, <2>3, <3>1 DEF WalkerType
    <3> QED
      BY <1>0, <2>2, <3>2 DEF WalkerType
  <2>5. walker' = [walker EXCEPT ![w] = q]
    BY <1>0, <2>1
  <2> HIDE DEF q
  <2> QED
    BY <1>0, <1>2, <1>4, <2>2, <2>4, <2>5 DEF ExecuteNode
<1>5. ASSUME NEW w \in Walkers, Save(w) PROVE FlowInv'
  <2> DEFINE st == IF Completes(w) THEN "completed" ELSE walker[w].st
             q == [walker[w] EXCEPT !.pc = "get", !.st = st]
  <2>1. walker' = [walker EXCEPT ![w].pc = "get", ![w].st = st] /\ walker[w].pc = "walk"
        /\ (inst' = [node |-> walker[w].node, st |-> st] \/ inst' = inst)
        /\ UNCHANGED <<machine, patrol, walks>>
    BY <1>5 DEF Save, WalkerAt
  <2>2. st \in {"none", "running", "completed"} /\ walker[w].node \in Nodes
    BY <1>0 DEF WalkerType
  <2> HIDE DEF st
  <2>3. q \in WalkerType /\ q.pc # "idle"
    BY <1>0, <2>2 DEF WalkerType, WalkPlaces
  <2>4. walker' = [walker EXCEPT ![w] = q]
    BY <1>0, <2>1
  <2> HIDE DEF q
  <2> QED
    <3>1. inst' \in [node : Nodes, st : {"none", "running", "completed"}]
      BY <1>0, <2>1, <2>2
    <3>2. walker[w].pc # "idle"
      BY <2>1
    <3> QED
      BY <1>2, <2>1, <2>3, <2>4, <3>1, <3>2
<1>6. ASSUME NEW w \in Walkers, GetMachine(w) \/ GetAgain(w) PROVE FlowInv'
  <2> DEFINE p == IF GetAgain(w) THEN "again" ELSE
                  IF machine.st = "none" THEN "init"
                  ELSE IF walker[w].st = "completed" THEN "complete" ELSE "advance"
             q == [walker[w] EXCEPT !.ver = machine.ver, !.pc = p]
  <2>1. walker' = [walker EXCEPT ![w].ver = machine.ver, ![w].pc = p]
    BY <1>0, <1>6 DEF GetMachine, GetAgain
  <2>p. p \in WalkPlaces \ {"idle"}
    BY DEF WalkPlaces
  <2> HIDE DEF p
  <2>2. q \in WalkerType /\ q.pc # "idle"
    BY <1>0, <2>p DEF WalkerType
  <2>3. walker' = [walker EXCEPT ![w] = q]
    BY <1>0, <2>1
  <2> HIDE DEF q
  <2> QED
    BY <1>0, <1>2, <1>6, <2>2, <2>3 DEF GetMachine, GetAgain, MachineStays, WalkerAt
<1>7. ASSUME NEW w \in Walkers, InitMachine(w) \/ CompleteMachine(w) \/ WalkBreaks(w)
      PROVE  FlowInv'
  <2>1. walker[w].pc # "idle" /\ Rest(w) /\ UNCHANGED <<inst, patrol, walks>>
    BY <1>7 DEF InitMachine, CompleteMachine, WalkBreaks, WalkerAt
  <2>2. machine' \in MachineType /\ machine'.ver \in {machine.ver, 1}
    <3>1. walker[w].node \in Nodes
      BY <1>0 DEF WalkerType
    <3>2. CASE machine' = [node |-> walker[w].node, st |-> "running", ver |-> 1, old |-> FALSE]
      BY <3>1, <3>2 DEF MachineType
    <3>3. CASE CompleteMachine(w)
      BY <1>0, <3>3 DEF CompleteMachine, MachineType
    <3> QED
      BY <1>0, <1>7, <3>2, <3>3 DEF InitMachine, WalkBreaks
  <2> QED
    BY <1>3, <2>1, <2>2
<1>8. ASSUME NEW w \in Walkers, AdvanceMachine(w) PROVE FlowInv'
  <2>1. walker[w].pc \in {"advance", "again"} /\ UNCHANGED <<inst, patrol, walks>>
    BY <1>8 DEF AdvanceMachine
  <2>2. CASE Rest(w)
    <3>1. machine' \in MachineType /\ machine'.ver \in {machine.ver, machine.ver + 1}
      <4>1. walker[w].node \in Nodes
        BY <1>0 DEF WalkerType
      <4>2. CASE machine' = [machine EXCEPT !.node = walker[w].node, !.ver = @ + 1, !.old = FALSE]
        <5>1. machine.ver + 1 \in Nat
          BY <1>0
        <5>2. machine' \in MachineType
          BY <1>0, <4>1, <4>2, <5>1 DEF MachineType
        <5>3. machine'.ver = machine.ver + 1
          BY <1>0, <4>2 DEF MachineType
        <5> QED
          BY <5>2, <5>3
      <4>3. CASE machine' = machine
        BY <1>0, <4>3
      <4> QED
        BY <1>8, <4>2, <4>3 DEF AdvanceMachine
    <3> QED
      BY <1>3, <2>1, <2>2, <3>1
  <2>3. CASE WalkTo(w, "reget") /\ UNCHANGED machine
    <3> DEFINE q == [walker[w] EXCEPT !.pc = "reget"]
    <3>1. q \in WalkerType /\ q.pc # "idle"
      BY <1>0 DEF WalkerType, WalkPlaces
    <3>2. walker' = [walker EXCEPT ![w] = q]
      BY <1>0, <2>3 DEF WalkTo
    <3> HIDE DEF q
    <3> QED
      BY <1>0, <1>2, <2>1, <2>3, <3>1, <3>2
  <2> QED
    BY <1>8, <2>2, <2>3 DEF AdvanceMachine
<1>9. ASSUME UNCHANGED <<inst, walker, walks>>, patrol' \in {"idle", "join", "close", "notice"},
             machine' \in MachineType, machine'.ver = machine.ver
      PROVE  FlowInv'
  <2>1. Walking' = Walking
    BY <1>9 DEF Walking
  <2> QED
    BY <1>0, <1>9, <2>1 DEF FlowInv
<1>10. CASE Heartbeat \/ HeartbeatAges
  <2>1. machine' \in MachineType /\ machine'.ver = machine.ver
    BY <1>0, <1>10 DEF Heartbeat, HeartbeatAges, MachineType
  <2> QED
    BY <1>0, <1>9, <1>10, <2>1 DEF Heartbeat, HeartbeatAges
<1>11. CASE PatrolStep \/ SweepBreaks
  <2>1. machine' \in MachineType /\ machine'.ver = machine.ver
    BY <1>0, <1>11
       DEF PatrolStep, SweepScan, SweepJoin, SweepClose, SweepNotice, SweepBreaks, MachineType
  <2>2. UNCHANGED <<inst, walker, walks>> /\ patrol' \in {"idle", "join", "close", "notice"}
    BY <1>11
       DEF PatrolStep, SweepScan, SweepJoin, SweepClose, SweepNotice, SweepBreaks, PatrolTo,
           PatrolFrame
  <2> QED
    BY <1>9, <2>1, <2>2
<1>12. CASE UNCHANGED flowVars
  BY <1>0, <1>9, <1>12 DEF flowVars
<1> QED
  BY <1>1, <1>4, <1>5, <1>6, <1>7, <1>8, <1>10, <1>11, <1>12 DEF FlowNext

(***************************************************************************)
(* The outbound queue and the outreach tasks.                              *)
(***************************************************************************)
OutreachConstants == ReachConstants /\ MaxRetries \in Nat

OutRow == [msg : Messages, status : {"pending", "sending", "sent", "failed"}, retries : 0 .. MaxRetries]

\* A worker with an answer has the row it is about.
BatchTyped ==
    /\ batch = [w \in Workers |-> batch[w]] /\ answer = [w \in Workers |-> answer[w]]
    /\ \A w \in Workers :
        /\ DOMAIN batch[w] \subseteq Rows /\ \A i \in DOMAIN batch[w] : batch[w][i] \in 0 .. MaxRetries
        /\ answer[w] \in Answers
        /\ answer[w] # "none" => DOMAIN batch[w] # {}
SetsTyped == aged \subseteq Rows /\ accepted \subseteq Rows /\ overrun \subseteq Rows
OutTyped == out \in Seq(OutRow) /\ SetsTyped /\ BatchTyped

LEMMA OutTypedInit == OutboundInit => OutTyped
<1> SUFFICES ASSUME OutboundInit PROVE OutTyped
  OBVIOUS
<1>1. out = <<>> /\ Rows = {} /\ DOMAIN <<>> = {}
  BY DEF OutboundInit, Rows
<1>2. out \in Seq(OutRow)
  BY <1>1
<1> QED
  BY <1>1, <1>2 DEF OutboundInit, OutTyped, SetsTyped, BatchTyped, Answers

LEMMA OutTypedFacts ==
    ASSUME OutTyped
    PROVE  /\ Len(out) \in Nat /\ Rows = 1 .. Len(out) /\ \A i \in Rows : out[i] \in OutRow
           /\ SetsTyped /\ BatchTyped
  BY LenProperties, ElementOfSeq DEF OutTyped, Rows

\* A new row leaves the old ones where they are.
LEMMA OutTypedAddRow ==
    ASSUME OutreachConstants, OutTyped, NEW t \in Tasks, AddRow(t),
           UNCHANGED <<aged, work, accepted, overrun>>
    PROVE  OutTyped' /\ Rows \subseteq Rows' /\ Len(out) \in Nat /\ Len(out') = Len(out) + 1
           /\ Rows' = 1 .. Len(out) + 1
<1> DEFINE r == [msg |-> t, status |-> "pending", retries |-> 0]
<1>1. r \in OutRow /\ out' = Append(out, r)
  BY DEF AddRow, OutRow, OutreachConstants, Tasks
<1> HIDE DEF r
<1>2. out' \in Seq(OutRow) /\ Len(out') = Len(out) + 1 /\ Rows' = 1 .. Len(out) + 1
  BY <1>1, LenProperties DEF OutTyped, Rows
<1>3. Rows \subseteq Rows' /\ Len(out) \in Nat
  BY <1>2, OutTypedFacts
<1>4. UNCHANGED <<aged, batch, answer, accepted, overrun>>
  BY DEF work
<1>5. SetsTyped' /\ BatchTyped'
  BY <1>3, <1>4, OutTypedFacts DEF SetsTyped, BatchTyped
<1> QED
  BY <1>2, <1>3, <1>5 DEF OutTyped

\* A step of the queue rewrites rows and adds none.
LEMMA OutTypedNext ==
    ASSUME OutreachConstants, OutTyped, [OutboundNext]_outboundVars
    PROVE  OutTyped' /\ Rows' = Rows /\ Len(out') = Len(out)
<1> DEFINE Fine == OutTyped' /\ Rows' = Rows /\ Len(out') = Len(out)
           n == Len(out)
<1>0. /\ out \in Seq(OutRow) /\ n \in Nat /\ Rows = 1 .. n /\ \A i \in Rows : out[i] \in OutRow
      /\ aged \subseteq Rows /\ accepted \subseteq Rows /\ overrun \subseteq Rows
      /\ batch = [w \in Workers |-> batch[w]] /\ answer = [w \in Workers |-> answer[w]]
      /\ \A w \in Workers : DOMAIN batch[w] \subseteq Rows
      /\ \A w \in Workers : \A i \in DOMAIN batch[w] : batch[w][i] \in 0 .. MaxRetries
      /\ \A w \in Workers : answer[w] \in Answers
      /\ \A w \in Workers : answer[w] # "none" => DOMAIN batch[w] # {}
      /\ MaxRetries \in Nat
  BY OutTypedFacts DEF OutTyped, SetsTyped, BatchTyped, OutreachConstants
<1>1. ASSUME NEW w \in Workers, NEW rows \in SUBSET Rows, Claim(w, rows) PROVE Fine
  <2> DEFINE new(i) == [out[i] EXCEPT !.status =
                 IF i \in rows THEN "sending" ELSE IF i \in Revived THEN "pending" ELSE @]
             copies == [i \in rows |-> out[i].retries]
  <2>1. out' = [i \in Rows |-> new(i)] /\ rows # {} /\ aged' \subseteq aged
        /\ batch' = [batch EXCEPT ![w] = copies] /\ UNCHANGED <<answer, accepted, overrun>>
    BY <1>1 DEF Claim, Marked
  <2>2. \A i \in Rows : new(i) \in OutRow /\ out[i].retries \in 0 .. MaxRetries
    BY <1>0 DEF OutRow
  <2>3. DOMAIN copies = rows /\ \A i \in rows : copies[i] \in 0 .. MaxRetries
    BY <2>2
  <2> HIDE DEF new, copies
  <2>4. out' \in Seq(OutRow) /\ Len(out') = n
    BY <1>0, <2>1, <2>2, AllRewritten
  <2>5. Rows' = Rows
    BY <1>0, <2>4, LenProperties DEF Rows
  <2>6. BatchTyped'
    BY <1>0, <2>1, <2>3, <2>5 DEF BatchTyped
  <2> QED
    BY <1>0, <2>1, <2>4, <2>5, <2>6 DEF OutTyped, SetsTyped
<1>2. ASSUME NEW w \in Workers, NEW i \in Rows, Send(w, i) PROVE Fine
  <2>1. UNCHANGED <<out, aged, batch, overrun>> /\ accepted' \subseteq accepted \cup {i}
        /\ i \in DOMAIN batch[w]
    BY <1>2 DEF Send, First, Holds
  <2>2. PICK a \in Answers : answer' = [answer EXCEPT ![w] = a]
    BY <1>2 DEF Send, Answers
  <2>3. Rows' = Rows
    BY <2>1 DEF Rows
  <2>4. BatchTyped'
    BY <1>0, <2>1, <2>2, <2>3 DEF BatchTyped
  <2> QED
    BY <1>0, <2>1, <2>3, <2>4 DEF OutTyped, SetsTyped
<1>3. ASSUME NEW w \in Workers, NEW i \in Rows, Write(w, i) PROVE Fine
  <2>1. UNCHANGED <<accepted, overrun>> /\ answer' = [answer EXCEPT ![w] = "none"]
        /\ batch' = [batch EXCEPT ![w] = Restrict(batch[w], DOMAIN batch[w] \ {i})]
        /\ aged' \subseteq aged
    BY <1>0, <1>3 DEF Write
  <2>2. out' \in Seq(OutRow) /\ Len(out') = n
    <3>1. CASE out' = [out EXCEPT ![i] = Result(out[i], answer[w], batch[w][i])]
      <4>1. batch[w][i] \in 0 .. MaxRetries /\ answer[w] \in {"sent", "fatal", "error"}
        BY <1>0, <1>3 DEF Write, First, Holds, Answers
      <4>2. batch[w][i] + 1 \in Nat
            /\ (~Exhausted(batch[w][i]) => batch[w][i] + 1 \in 0 .. MaxRetries)
        BY <1>0, <4>1 DEF Exhausted
      <4>3. Result(out[i], answer[w], batch[w][i]) \in OutRow
        <5>1. /\ [out[i] EXCEPT !.status = "sent"] \in OutRow
              /\ [out[i] EXCEPT !.status = "failed"] \in OutRow
              /\ \A k \in 0 .. MaxRetries : [out[i] EXCEPT !.status = "pending", !.retries = k] \in OutRow
          BY <1>0 DEF OutRow
        <5> QED
          BY <4>1, <4>2, <5>1 DEF Result
      <4> QED
        BY <1>0, <3>1, <4>3, OneRewritten
    <3> QED
      BY <1>0, <1>3, <3>1 DEF Write
  <2>3. Rows' = Rows
    BY <1>0, <2>2, LenProperties DEF Rows
  <2>4. DOMAIN Restrict(batch[w], DOMAIN batch[w] \ {i}) = DOMAIN batch[w] \ {i}
        /\ \A k \in DOMAIN batch[w] \ {i} :
               Restrict(batch[w], DOMAIN batch[w] \ {i})[k] = batch[w][k]
    BY DEF Restrict
  <2>5. BatchTyped'
    BY <1>0, <2>1, <2>3, <2>4 DEF BatchTyped, Answers
  <2> QED
    BY <1>0, <2>1, <2>2, <2>3, <2>5 DEF OutTyped, SetsTyped
<1>4. ASSUME NEW w \in Workers, WorkerDies(w) PROVE Fine
  <2>1. UNCHANGED <<out, aged, accepted, overrun>> /\ answer' = [answer EXCEPT ![w] = "none"]
        /\ batch' = [batch EXCEPT ![w] = <<>>] /\ DOMAIN <<>> = {}
    BY <1>4 DEF WorkerDies
  <2>2. Rows' = Rows
    BY <2>1 DEF Rows
  <2>3. BatchTyped'
    BY <1>0, <2>1, <2>2 DEF BatchTyped, Answers
  <2> QED
    BY <1>0, <2>1, <2>2, <2>3 DEF OutTyped, SetsTyped
<1>5. ASSUME NEW i \in Rows, Age(i) PROVE Fine
  <2>1. UNCHANGED <<out, work, accepted>> /\ aged' = aged \cup {i} /\ overrun' \subseteq overrun \cup {i}
    BY <1>5 DEF Age
  <2>2. Rows' = Rows /\ BatchTyped'
    BY <1>0, <2>1 DEF Rows, BatchTyped, work
  <2> QED
    BY <1>0, <2>1, <2>2 DEF OutTyped, SetsTyped
<1>6. ASSUME NEW i \in Rows, RetryDeadLetter(i) PROVE Fine
  <2>1. out' = [out EXCEPT ![i] = [out[i] EXCEPT !.status = "pending", !.retries = 0]]
        /\ UNCHANGED <<aged, work, accepted, overrun>>
    BY <1>0, <1>6 DEF RetryDeadLetter
  <2>2. [out[i] EXCEPT !.status = "pending", !.retries = 0] \in OutRow
    <3>1. 0 \in 0 .. MaxRetries /\ out[i] \in OutRow
      BY <1>0
    <3> QED
      BY <3>1 DEF OutRow
  <2>3. out' \in Seq(OutRow) /\ Len(out') = n
    BY <1>0, <2>1, <2>2, OneRewritten
  <2>4. Rows' = Rows
    BY <1>0, <2>3, LenProperties DEF Rows
  <2>5. BatchTyped'
    BY <1>0, <2>1, <2>4 DEF BatchTyped, work
  <2> QED
    BY <1>0, <2>1, <2>3, <2>4, <2>5 DEF OutTyped, SetsTyped
<1>7. CASE UNCHANGED outboundVars
  <2>1. UNCHANGED <<out, aged, batch, answer, accepted, overrun>>
    BY <1>7 DEF outboundVars
  <2> QED
    BY <2>1, <1>0 DEF OutTyped, SetsTyped, BatchTyped, Rows
<1> QED
  BY <1>1, <1>2, <1>3, <1>4, <1>5, <1>6, <1>7 DEF OutboundNext

\* The row that a task names is there.
ReachTyped == OutTyped /\ QueueInv /\ RoundInv /\ \A t \in Tasks : task[t].ob \in 0 .. Len(out)

LEMMA ReachTypedInit == ASSUME OutreachConstants, Init PROVE ReachTyped
<1>1. QueueInv /\ RoundInv
  BY RoundInvInit DEF OutreachConstants
<1>2. OutTyped /\ Len(out) \in Nat /\ \A t \in Tasks : task[t].ob = 0
  BY OutTypedInit, OutTypedFacts DEF Init
<1> QED
  BY <1>1, <1>2 DEF ReachTyped

LEMMA ReachTypedNext == ASSUME OutreachConstants, ReachTyped, [Next]_outreachVars PROVE ReachTyped'
<1>1. QueueInv' /\ RoundInv'
  BY RoundInvNext DEF OutreachConstants, ReachTyped
<1>2. OutTyped' /\ Len(out) \in Nat /\ Len(out') \in Nat /\ Len(out) <= Len(out')
  <2>1. OutTyped /\ Len(out) \in Nat
    BY OutTypedFacts DEF ReachTyped
  <2>2. CASE [OutboundNext]_outboundVars
    BY <2>1, <2>2, OutTypedNext
  <2>3. ASSUME NEW t \in Tasks, AddRow(t), UNCHANGED <<aged, work, accepted, overrun>>
        PROVE  OutTyped' /\ Len(out') = Len(out) + 1
    BY <2>1, <2>3, OutTypedAddRow
  <2>4. ASSUME UNCHANGED <<out, aged, work, accepted, overrun>>
        PROVE  OutTyped' /\ Len(out') = Len(out)
    BY <2>1, <2>4 DEF OutTyped, SetsTyped, BatchTyped, Rows, work
  <2>5. CASE \E t \in Tasks : TryLater(t) \/ Enqueue(t)
    BY <2>1, <2>2, <2>3, <2>5 DEF TryLater, Enqueue
  <2>6. CASE RoundBreaks
    BY <2>1, <2>4, <2>6 DEF RoundBreaks, QueueStays
  <2>7. CASE \E t \in Tasks : CreateTask(t) \/ Cancel(t) \/ Skip(t) \/ AfterEnqueue(t) \/ Sync(t)
    BY <2>1, <2>2, <2>7 DEF CreateTask, Cancel, Skip, AfterEnqueue, Sync
  <2> QED
    BY <2>1, <2>2, <2>5, <2>6, <2>7
       DEF Next, QueueStep, DispatchStep, BeginRound, EndRound, outreachVars
<1>3. \A t \in Tasks : task'[t].ob \in 0 .. Len(out')
  <2>1. /\ task \in [Tasks -> [st : TaskStates, tries : Nat, ob : Nat]]
        /\ \A t \in Tasks : task[t].ob \in 0 .. Len(out)
    BY DEF ReachTyped, RoundInv, RoundTyped
  <2>2. ASSUME NEW t \in Tasks, AfterEnqueue(t) PROVE \A s \in Tasks : task'[s].ob \in 0 .. Len(out')
    <3>1. PICK i \in Rows : task' = [task EXCEPT ![t] = [st |-> "queued", tries |-> task[t].tries + 1, ob |-> i]]
      BY <2>1, <2>2 DEF AfterEnqueue, MarkQueued
    <3>2. i \in 0 .. Len(out')
      BY <1>2, OutTypedFacts DEF ReachTyped
    <3> QED
      BY <1>2, <2>1, <3>1, <3>2
  <2>3. ASSUME NEW t \in Tasks, CreateTask(t) \/ Cancel(t) \/ Skip(t) \/ TryLater(t) \/ Enqueue(t) \/ Sync(t)
        PROVE  \A s \in Tasks : task'[s].ob = task[s].ob
    <3>1. CASE CreateTask(t)
      BY <2>1, <3>1 DEF CreateTask
    <3>2. CASE Cancel(t)
      BY <2>1, <3>2 DEF Cancel
    <3>3. CASE Skip(t)
      BY <2>1, <3>3 DEF Skip
    <3>4. CASE TryLater(t)
      BY <2>1, <3>4 DEF TryLater
    <3>5. CASE Enqueue(t)
      BY <2>1, <3>5 DEF Enqueue
    <3>6. CASE Sync(t)
      BY <2>1, <3>6 DEF Sync
    <3> QED
      BY <2>3, <3>1, <3>2, <3>3, <3>4, <3>5, <3>6
  <2>4. CASE UNCHANGED task
    BY <1>2, <2>1, <2>4
  <2> QED
    BY <1>2, <2>1, <2>2, <2>3, <2>4
       DEF Next, QueueStep, DispatchStep, BeginRound, EndRound, RoundBreaks, outreachVars
<1> QED
  BY <1>1, <1>2, <1>3 DEF ReachTyped

LEMMA ReachTypes == ASSUME OutreachConstants, ReachTyped PROVE TypeOK
<1>1. OutboundTypeOK
  <2>1. \A w \in Workers : answer[w] # "none" => batch[w] # <<>>
    BY DEF ReachTyped, OutTyped, BatchTyped
  <2> QED
    BY <2>1 DEF ReachTyped, OutTyped, SetsTyped, BatchTyped, OutRow, OutboundTypeOK, Answers
<1>2. enqueued \subseteq Tasks \X Rows /\ Cardinality(enqueued) <= 1
  <2>1. CASE enqueued = {}
    BY <2>1, FS_EmptySet
  <2>2. CASE enqueued # {}
    <3>1. PICK t \in round, i \in Rows : enqueued = {<<t, i>>}
      BY <2>2 DEF ReachTyped, RoundInv, RoundTyped
    <3>2. t \in Tasks
      BY <2>2, <3>1 DEF ReachTyped, RoundInv, RoundTyped
    <3>3. Cardinality(enqueued) = 1
      BY <3>1, FS_Singleton
    <3>4. enqueued \subseteq Tasks \X Rows
      BY <3>1, <3>2
    <3> QED
      BY <3>3, <3>4
  <2> QED
    BY <2>1, <2>2
<1> QED
  BY <1>1, <1>2 DEF ReachTyped, RoundInv, RoundTyped, TypeOK, TaskStates

(***************************************************************************)
(* The deals and their quotes.                                             *)
(***************************************************************************)
RequestKinds == {"none", "create", "move", "quote", "numbered", "superseded"}

\* A request about a quote, and every quote, names a deal that is there.
QuoteOK(x, q) == x.deal \in DOMAIN deals /\ x.ver # 0 /\ x.seen < q
RequestOK(r) ==
    /\ r.kind \in RequestKinds
    /\ r.kind \in {"quote", "numbered", "superseded"} => r.deal \in DOMAIN deals
    /\ Numbered(r) => r.ver # 0
DealRefs ==
    /\ \A q \in DOMAIN quotes : QuoteOK(quotes[q], q)
    /\ \A u \in Users : RequestOK(request[u])
DealsTyped == MoveInv /\ QuoteInv /\ DealRefs

LEMMA DealsTypedInit == ASSUME DealsInit PROVE DealsTyped
<1>1. MoveInv /\ QuoteInv
  BY DealsInvInit
<1>2. quotes = <<>> /\ DOMAIN <<>> = {} /\ \A u \in Users : request[u] = NoRequest
  BY DEF DealsInit
<1>3. RequestOK(NoRequest)
  BY DEF RequestOK, NoRequest, RequestKinds, Numbered
<1> QED
  BY <1>1, <1>2, <1>3 DEF DealsTyped, DealRefs

LEMMA DealsTypes == ASSUME DealsTyped PROVE DealsTypeOK
<1>1. \A q \in DOMAIN quotes : quotes[q] \in QuoteType
  BY LenProperties, ElementOfSeq DEF DealsTyped, QuoteInv
<1> QED
  BY <1>1 DEF DealsTyped, DealRefs, QuoteOK, RequestOK, RequestKinds, MoveInv, DealsTypeOK,
     DealType, QuoteType

\* Deals are added, never removed.
LEMMA DealsStay ==
    ASSUME MoveInv, [DealsNext]_dealVars PROVE DOMAIN deals \subseteq DOMAIN deals'
<1>1. deals \in Seq(DealType) /\ Len(deals) \in Nat /\ DOMAIN deals = 1 .. Len(deals)
  BY LenProperties DEF MoveInv
<1>2. CASE \E x : deals' = Append(deals, x)
  BY <1>1, <1>2
<1>3. CASE \E d, x : deals' = [deals EXCEPT ![d] = x]
  BY <1>1, <1>3
<1>4. ASSUME NEW u \in Users, InsertDeal(u) PROVE DOMAIN deals \subseteq DOMAIN deals'
  BY <1>2, <1>4 DEF InsertDeal
<1>5. ASSUME NEW u \in Users, FinishMove(u) PROVE DOMAIN deals \subseteq DOMAIN deals'
  BY <1>3, <1>5 DEF FinishMove
<1>6. ASSUME NEW d \in DOMAIN deals, NEW a \in Amounts, EditDeal(d, a)
      PROVE  DOMAIN deals \subseteq DOMAIN deals'
  BY <1>3, <1>6 DEF EditDeal
<1>7. CASE UNCHANGED deals
  BY <1>7
<1> QED
  BY <1>4, <1>5, <1>6, <1>7
     DEF DealsNext, BeginCreateDeal, GiveUp, NumberQuote, SupersedeLive, InsertQuote, BeginMove,
         BeginQuote, EditQuote, Decide, SweepExpiredQuotes, dealVars

LEMMA DealsTypedNext ==
    ASSUME DealConstants, DealsTyped, [DealsNext]_dealVars PROVE DealsTyped'
<1>1. MoveInv' /\ QuoteInv'
  <2>1. DOMAIN deals \subseteq Nat
    BY LenProperties DEF DealsTyped, MoveInv
  <2> QED
    BY <2>1, MoveInvNext, QuoteInvNext DEF DealsTyped
<1>0. /\ quotes \in Seq(QuoteType) /\ Len(quotes) \in Nat /\ DOMAIN quotes = 1 .. Len(quotes)
      /\ \A q \in DOMAIN quotes : quotes[q] \in QuoteType /\ QuoteOK(quotes[q], q)
      /\ \A q \in DOMAIN quotes : quotes[q].ver <= q
      /\ request = [u \in Users |-> request[u]]
      /\ \A u \in Users : RequestOK(request[u])
      /\ \A u \in Users : Numbered(request[u]) => NumberOK(request[u])
  <2>1. quotes \in Seq(QuoteType)
    BY DEF DealsTyped, QuoteInv
  <2> QED
    BY <2>1, LenProperties, ElementOfSeq DEF DealsTyped, QuoteInv, DealRefs
<1>2. DOMAIN deals \subseteq DOMAIN deals'
  BY DealsStay DEF DealsTyped
<1>3. \A r : RequestOK(r) => RequestOK(r)'
  BY <1>2 DEF RequestOK, Numbered
\* What is left to show: the quotes, and the request of one user.
<1>a. ASSUME DOMAIN quotes' = DOMAIN quotes,
             \A q \in DOMAIN quotes :
                /\ quotes'[q].deal = quotes[q].deal /\ quotes'[q].ver = quotes[q].ver
                /\ quotes'[q].seen = quotes[q].seen
      PROVE  \A q \in DOMAIN quotes' : QuoteOK(quotes[q], q)'
  BY <1>0, <1>2, <1>a DEF QuoteOK
<1>b. ASSUME NEW u \in Users, NEW r, Replaces(u, r), RequestOK(r)
      PROVE  \A v \in Users : RequestOK(request[v])'
  <2>1. \A v \in Users : RequestOK(request'[v])
    BY <1>0, <1>b DEF Replaces
  <2> QED
    BY <1>2, <2>1 DEF RequestOK, Numbered
<1>c. ASSUME \A q \in DOMAIN quotes' : QuoteOK(quotes[q], q)', \A v \in Users : RequestOK(request[v])'
      PROVE  DealsTyped'
  BY <1>1, <1>c DEF DealsTyped, DealRefs
<1>d. ASSUME UNCHANGED quotes, NEW u \in Users, NEW r, Replaces(u, r), RequestOK(r) PROVE DealsTyped'
  BY <1>a, <1>b, <1>c, <1>d
<1>e. RequestOK(NoRequest) /\ \A u \in Users : Done(u) => Replaces(u, NoRequest)
  BY <1>0, AskReplaces DEF RequestOK, NoRequest, RequestKinds, Numbered, Done
<1>f. \A u \in Users : \A r : Ask(u, r) => Replaces(u, r)
  BY <1>0, AskReplaces DEF Ask
<1>4. ASSUME NEW u \in Users, BeginCreateDeal(u) PROVE DealsTyped'
  <2>1. RequestOK([kind |-> "create"])
    BY DEF RequestOK, RequestKinds, Numbered
  <2> QED
    BY <1>4, <1>d, <1>f, <2>1 DEF BeginCreateDeal
<1>5. ASSUME NEW u \in Users, InsertDeal(u) \/ FinishMove(u) \/ GiveUp(u) PROVE DealsTyped'
  BY <1>5, <1>d, <1>e DEF InsertDeal, FinishMove, GiveUp
<1>6. ASSUME NEW u \in Users, NEW d \in DOMAIN deals, BeginMove(u, d) PROVE DealsTyped'
  <2>1. PICK to \in Stages, change \in {<<>>} \cup {<<a>> : a \in Amounts} :
            Ask(u, [kind |-> "move", deal |-> d, from |-> deals[d].stage, to |-> to, change |-> change])
    BY <1>6 DEF BeginMove
  <2>2. RequestOK([kind |-> "move", deal |-> d, from |-> deals[d].stage, to |-> to, change |-> change])
    BY DEF RequestOK, RequestKinds, Numbered
  <2> QED
    BY <1>6, <1>d, <1>f, <2>1, <2>2 DEF BeginMove
<1>7. ASSUME NEW u \in Users, NEW d \in DOMAIN deals, BeginQuote(u, d) PROVE DealsTyped'
  <2>1. RequestOK([kind |-> "quote", deal |-> d])
    BY DEF RequestOK, RequestKinds, Numbered
  <2> QED
    BY <1>7, <1>d, <1>f, <2>1 DEF BeginQuote
<1>8. ASSUME NEW u \in Users, NumberQuote(u) PROVE DealsTyped'
  <2> DEFINE S == Versions(request[u].deal) \cup {0}
             r == [kind |-> "numbered", deal |-> request[u].deal, ver |-> Max(S) + 1, seen |-> Len(quotes)]
  <2>1. Replaces(u, r) /\ UNCHANGED quotes
    BY <1>0, <1>8, AskReplaces DEF NumberQuote
  <2>2. S \in SUBSET (0 .. Len(quotes)) /\ 0 \in S
    BY <1>0 DEF Versions, QuotesOf, QuoteType
  <2> HIDE DEF S
  <2>3. Max(S) + 1 # 0
    BY <1>0, <2>2, MaxOfVersions
  <2>4. request[u].deal \in DOMAIN deals
    BY <1>0, <1>8 DEF NumberQuote, RequestOK
  <2>5. RequestOK(r)
    BY <2>3, <2>4 DEF RequestOK, RequestKinds, Numbered
  <2> HIDE DEF r
  <2> QED
    BY <1>d, <2>1, <2>5
<1>9. ASSUME NEW u \in Users, SupersedeLive(u) PROVE DealsTyped'
  <2> DEFINE r == [request[u] EXCEPT !.kind = "superseded"]
  <2>1. Replaces(u, r) /\ request[u].kind = "numbered"
    BY <1>0, <1>9, AskReplaces DEF SupersedeLive
  <2>2. request[u] \in NumberType
    BY <1>0, <2>1 DEF NumberOK, Numbered
  <2>3. r.kind = "superseded" /\ r.deal = request[u].deal /\ r.ver = request[u].ver
    BY <2>2 DEF NumberType
  <2> HIDE DEF r
  <2>4. RequestOK(r)
    BY <1>0, <2>1, <2>3 DEF RequestOK, RequestKinds, Numbered
  <2>5. DOMAIN quotes' = DOMAIN quotes
        /\ \A q \in DOMAIN quotes : quotes'[q] = quotes[q] \/ quotes'[q] = [quotes[q] EXCEPT !.st = "superseded"]
    BY <1>0, <1>9 DEF SupersedeLive
  <2>6. \A q \in DOMAIN quotes :
            /\ quotes'[q].deal = quotes[q].deal /\ quotes'[q].ver = quotes[q].ver
            /\ quotes'[q].seen = quotes[q].seen
    BY <1>0, <2>5 DEF QuoteType
  <2> QED
    BY <1>a, <1>b, <1>c, <2>1, <2>4, <2>5, <2>6
<1>10. ASSUME NEW u \in Users, InsertQuote(u) PROVE DealsTyped'
  <2> DEFINE r == request[u]
             n == Len(quotes)
  <2>1. Replaces(u, NoRequest) /\ r.kind = "superseded"
    BY <1>10, <1>e DEF InsertQuote
  <2>2. NumberOK(r) /\ RequestOK(r)
    BY <1>0, <2>1 DEF Numbered
  <2> HIDE DEF r
  <2>3. CASE UNCHANGED quotes
    BY <1>d, <1>e, <2>1, <2>3
  <2>4. ASSUME NEW t \in Texts,
               quotes' = Append(quotes, [deal |-> r.deal, ver |-> r.ver, st |-> "draft", text |-> t, seen |-> r.seen])
        PROVE  DealsTyped'
    <3> DEFINE x == [deal |-> r.deal, ver |-> r.ver, st |-> "draft", text |-> t, seen |-> r.seen]
    <3>1. x.deal = r.deal /\ x.ver = r.ver /\ x.seen = r.seen /\ quotes' = Append(quotes, x)
      BY <2>4
    <3> HIDE DEF x
    <3>2. DOMAIN quotes' = 1 .. n + 1 /\ quotes'[n + 1] = x /\ \A q \in DOMAIN quotes : quotes'[q] = quotes[q]
      BY <1>0, <3>1
    <3>3. r.deal \in DOMAIN deals /\ r.ver # 0 /\ r.seen \in Nat /\ r.seen <= n
      BY <2>1, <2>2 DEF NumberOK, NumberType, RequestOK, Numbered
    <3>4. \A q \in DOMAIN quotes' : QuoteOK(quotes[q], q)'
      <4> SUFFICES ASSUME NEW q \in DOMAIN quotes' PROVE QuoteOK(quotes[q], q)'
        OBVIOUS
      <4>1. CASE q \in DOMAIN quotes
        BY <1>0, <1>2, <3>2, <4>1 DEF QuoteOK
      <4>2. CASE q = n + 1
        BY <1>0, <1>2, <3>1, <3>2, <3>3, <4>2 DEF QuoteOK
      <4> QED
        BY <1>0, <3>2, <4>1, <4>2
    <3> QED
      BY <1>b, <1>c, <1>e, <2>1, <3>4
  <2> QED
    BY <1>10, <2>3, <2>4 DEF InsertQuote, r
<1>11. ASSUME NEW q \in DOMAIN quotes,
              \/ \E t \in Texts : EditQuote(q, t)
              \/ \E st \in {"sent", "accepted", "declined", "void"} : Decide(q, st)
              \/ SweepExpiredQuotes(q)
       PROVE  DealsTyped'
  <2>1. PICK x \in QuoteType :
            /\ quotes' = [quotes EXCEPT ![q] = x]
            /\ x.deal = quotes[q].deal /\ x.ver = quotes[q].ver /\ x.seen = quotes[q].seen
    <3>1. quotes[q] \in QuoteType /\ quotes[q].text \in Texts
      BY <1>0 DEF QuoteType
    <3>2. CASE \E t \in Texts : EditQuote(q, t)
      <4>1. PICK t \in Texts : quotes' = [quotes EXCEPT ![q] = [quotes[q] EXCEPT !.text = t]]
        BY <3>2 DEF EditQuote
      <4> QED
        BY <3>1, <4>1, Relabelled DEF QuoteStates
    <3>3. CASE (\E st \in {"sent", "accepted", "declined", "void"} : Decide(q, st)) \/ SweepExpiredQuotes(q)
      <4>1. PICK st \in QuoteStates : quotes' = [quotes EXCEPT ![q] = [quotes[q] EXCEPT !.st = st]]
        BY <3>3 DEF Decide, SweepExpiredQuotes, QuoteStates
      <4> QED
        BY <3>1, <4>1, Relabelled
    <3> QED
      BY <1>11, <3>2, <3>3
  <2>2. DOMAIN quotes' = DOMAIN quotes
        /\ \A p \in DOMAIN quotes : quotes'[p] = IF p = q THEN x ELSE quotes[p]
    BY <1>0, <2>1
  <2>3. UNCHANGED request
    BY <1>11 DEF EditQuote, Decide, SweepExpiredQuotes
  <2>4. \A v \in Users : RequestOK(request[v])'
    BY <1>0, <1>2, <2>3 DEF RequestOK, Numbered
  <2> QED
    BY <1>a, <1>c, <2>1, <2>2, <2>4
<1>12. CASE UNCHANGED <<quotes, request>>
  <2>1. \A v \in Users : RequestOK(request[v])'
    BY <1>0, <1>2, <1>12 DEF RequestOK, Numbered
  <2> QED
    BY <1>a, <1>c, <1>12, <2>1
<1> QED
  BY <1>4, <1>5, <1>6, <1>7, <1>8, <1>9, <1>10, <1>11, <1>12 DEF DealsNext, EditDeal, dealVars

(***************************************************************************)
(* The bus.                                                                *)
(***************************************************************************)
BusTypedInv == BusInv /\ committed <= LastEvent + 1 /\ \A c \in Consumers : position[c] <= LastEvent + 1

LEMMA BusTypes == ASSUME BusConstants, BusTypedInv PROVE BusTypeOK
  BY DEF BusConstants, BusTypedInv, BusInv, BusTyped, BusTypeOK, JobType, Places

\* No consumer is ahead of what was published, and no commit of what was fetched.
LEMMA BusTypedNext == ASSUME BusConstants, BusTypedInv, [BusNext]_busVars PROVE BusTypedInv'
<1>1. BusInv /\ BusInv'
  BY BusInvNext DEF BusTypedInv
<1>0. /\ published \in 0 .. LastEvent /\ committed \in Nat /\ LastEvent \in Nat
      /\ position \in [Consumers -> Nat \ {0}]
      /\ \A c \in Consumers : job[c].ev \in Events <=> ~At(c, "fetch")
      /\ committed <= LastEvent + 1 /\ \A c \in Consumers : position[c] <= LastEvent + 1
  BY <1>1 DEF BusConstants, BusInv, BusTyped, BusTypedInv
<1>2. committed' <= LastEvent + 1
  <2>1. ASSUME NEW c \in Consumers, Commit(c) PROVE committed' <= LastEvent + 1
    <3>1. job[c].ev \in Events
      BY <1>0, <2>1 DEF Commit, At
    <3> QED
      BY <1>0, <2>1, <3>1 DEF Commit, Events
  <2>2. CASE UNCHANGED committed
    BY <1>0, <2>2
  <2> QED
    BY <2>1, <2>2
       DEF BusNext, Publish, Fetch, Ensure, Ingest, MarkIngested, StartWelcome, RoundEnds, MarkInbox,
           RecordOutcome, Rebalance, Crash, BrokerStays, busVars
<1>3. \A c \in Consumers : position'[c] <= LastEvent + 1
  <2>1. ASSUME NEW c \in Consumers, Fetch(c) \/ Rebalance(c) \/ Crash(c)
        PROVE  \A d \in Consumers : position'[d] <= LastEvent + 1
    BY <1>0, <2>1 DEF Fetch, Rebalance, Crash
  <2>2. CASE UNCHANGED position
    BY <1>0, <2>2
  <2> QED
    BY <2>1, <2>2
       DEF BusNext, Publish, Ensure, Ingest, MarkIngested, StartWelcome, RoundEnds, MarkInbox,
           RecordOutcome, Commit, BrokerStays, busVars
<1> QED
  BY <1>1, <1>2, <1>3 DEF BusTypedInv

(***************************************************************************)
(* The composition.                                                        *)
(***************************************************************************)
ServicesConstants ==
    /\ OutreachConstants /\ DealConstants /\ DunningConstants
    /\ BusConstants /\ ChatConstants /\ FlowConstants

\* Whichever service runs, to each of the six a step is one of its own or nothing.
LEMMA EachServiceSteps ==
    ASSUME [ServicesNext]_services
    PROVE  /\ [Next]_outreachVars /\ [DealsNext]_dealVars /\ [DunningNext]_dunningVars
           /\ [BusNext]_busVars /\ [ChatNext]_chatVars /\ [FlowNext]_flowVars
<1>1. CASE ServicesNext
  BY <1>1 DEF ServicesNext, InOutreach, InDeals, InDunning, InBus, InChat, InFlow
<1>2. CASE UNCHANGED services
  BY <1>2 DEF services
<1> QED
  BY <1>1, <1>2

\* A behaviour of the services is one of each, so whatever is proved of one, and
\* whatever the run finds true of it, is about the service alone.
THEOREM EachServiceRuns ==
    ServicesSpec => Spec /\ DealsSpec /\ DunningSpec /\ BusSpec /\ ChatSpec /\ FlowSpec
<1>1. ServicesInit => Init /\ DealsInit /\ DunningInit /\ BusInit /\ ChatInit /\ FlowInit
  BY DEF ServicesInit
<1>2. [ServicesNext]_services =>
          /\ [Next]_outreachVars /\ [DealsNext]_dealVars /\ [DunningNext]_dunningVars
          /\ [BusNext]_busVars /\ [ChatNext]_chatVars /\ [FlowNext]_flowVars
  BY EachServiceSteps
<1> QED
  BY <1>1, <1>2, PTL
     DEF ServicesSpec, Spec, DealsSpec, DunningSpec, BusSpec, ChatSpec, FlowSpec

\* The variables of the six services keep their types, for any sets and limits: an
\* answer is about a row in hand, a task and a quote name rows that are there, every
\* audit row follows an act, no offset is ahead of the events, and the version of
\* a machine is at most the number of walks that are over.
THEOREM ServicesTyped == ASSUME ServicesConstants PROVE ServicesSpec => []ServicesTypeOK
<1>1. Spec => []TypeOK
  <2>1. Init => ReachTyped
    BY ReachTypedInit DEF ServicesConstants
  <2>2. ReachTyped /\ [Next]_outreachVars => ReachTyped'
    BY ReachTypedNext DEF ServicesConstants
  <2>3. ReachTyped => TypeOK
    BY ReachTypes DEF ServicesConstants
  <2> QED
    BY <2>1, <2>2, <2>3, PTL DEF Spec
<1>2. DealsSpec => []DealsTypeOK
  <2>1. DealsInit => DealsTyped
    BY DealsTypedInit
  <2>2. DealsTyped /\ [DealsNext]_dealVars => DealsTyped'
    BY DealsTypedNext DEF ServicesConstants
  <2>3. DealsTyped => DealsTypeOK
    BY DealsTypes
  <2> QED
    BY <2>1, <2>2, <2>3, PTL DEF DealsSpec
<1>3. DunningSpec => []DunningTypeOK
  <2>1. DunningInit => DunningTypes
    BY DunningTypesInit DEF ServicesConstants
  <2>2. DunningTypes /\ [DunningNext]_dunningVars => DunningTypes'
    BY DunningTypesNext DEF ServicesConstants
  <2>3. DunningTypes => DunningTypeOK
    BY DEF DunningTypes
  <2> QED
    BY <2>1, <2>2, <2>3, PTL DEF DunningSpec
<1>4. BusSpec => []BusTypeOK
  <2>1. BusInit => BusTypedInv
    BY BusInvInit DEF ServicesConstants, BusConstants, BusInit, BusTypedInv
  <2>2. BusTypedInv /\ [BusNext]_busVars => BusTypedInv'
    BY BusTypedNext DEF ServicesConstants
  <2>3. BusTypedInv => BusTypeOK
    BY BusTypes DEF ServicesConstants
  <2> QED
    BY <2>1, <2>2, <2>3, PTL DEF BusSpec
<1>5. ChatSpec => []ChatTypeOK
  BY ChatTyped DEF ServicesConstants
<1>6. FlowSpec => []FlowTypeOK
  <2>1. FlowInit => FlowInv
    BY FlowInvInit DEF ServicesConstants
  <2>2. FlowInv /\ [FlowNext]_flowVars => FlowInv'
    BY FlowInvNext DEF ServicesConstants
  <2>3. FlowInv => FlowTypeOK
    BY FlowInvTypes DEF ServicesConstants
  <2> QED
    BY <2>1, <2>2, <2>3, PTL DEF FlowSpec
<1>7. TypeOK /\ DealsTypeOK /\ DunningTypeOK /\ BusTypeOK /\ ChatTypeOK /\ FlowTypeOK => ServicesTypeOK
  BY DEF ServicesTypeOK
<1> QED
  BY <1>1, <1>2, <1>3, <1>4, <1>5, <1>6, <1>7, EachServiceRuns, PTL

\* The other safety properties of the services hold of the composition.
COROLLARY ServicesSafe ==
    ASSUME ServicesConstants
    PROVE  ServicesSpec =>
             /\ [](OneOwner /\ OneRowPerTask /\ WonWithAmount /\ VersionsDiffer)
             /\ [](EventsAccounted /\ NotTalkedOver)
             /\ LiftsOnlyItsOwn /\ StaysClaimed
<1>1. (Spec => []OneOwner) /\ (Spec => []OneRowPerTask)
  BY RowsHaveOneOwner, TasksAreEnqueuedOnce DEF ServicesConstants, OutreachConstants
<1>2. (DealsSpec => []WonWithAmount) /\ (DealsSpec => []VersionsDiffer)
  BY WonDealsHaveAnAmount, QuotesAreToldApart DEF ServicesConstants
<1>3. (BusSpec => []EventsAccounted) /\ (DunningSpec => LiftsOnlyItsOwn)
  BY NoEventVanishes, PaymentsLeaveBans DEF ServicesConstants
<1>4. (ChatSpec => []NotTalkedOver) /\ (ChatSpec => StaysClaimed)
  BY NobodyTalksOver, ClaimedStaysClaimed DEF ServicesConstants
<1> QED
  BY <1>1, <1>2, <1>3, <1>4, EachServiceRuns, PTL

=============================================================================
