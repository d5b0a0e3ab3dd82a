--------------------------- MODULE EventBusProofs ---------------------------
(***************************************************************************)
(* What holds of EventBus for any number of consumers, events, rounds of   *)
(* the handlers and faults.                                                *)
(***************************************************************************)
EXTENDS EventBus, TLAPS

BusConstants == LastEvent \in Nat

Places == {"fetch", "ensure", "cdp", "mark", "flow", "round", "done", "failed",
           "consumed", "dead_letter", "commit"}
JobType == [pc : Places, ev : Nat, round : Nat, errs : BOOLEAN]

BusTyped ==
    /\ published \in 0 .. LastEvent /\ committed \in Nat \ {0}
    /\ owner \in Consumers /\ position \in [Consumers -> Nat \ {0}]
    /\ inbox \in [Events -> {"none", "pending", "failed", "done"}]
    /\ ledger \in [Events -> {"sent", "consumed", "dead_letter"}]
    /\ taken \in [Events -> SUBSET Handlers]
    /\ job \in [Consumers -> JobType]
    /\ \A c \in Consumers : job[c].ev \in Events <=> ~At(c, "fetch")

\* The handler after the ingestion has had the event, or somebody who marked the
\* ingestion, or found the mark, is about to call it.
Started(e) ==
    \/ "flow" \in taken[e] \/ e \in leaps \/ e \in unwelcomed
    \/ \E c \in Consumers : At(c, "flow") /\ job[c].ev = e /\ ~job[c].errs
Served(e) == "cdp" \in taken[e] /\ Started(e)

\* Once it holds it holds for ever.
Sure(e) == Served(e) \/ ledger[e] = "dead_letter" \/ e \in leaps

\* How far a consumer is tells what has become of its event.
JobOK(q) ==
    /\ q.pc \in {"ensure", "cdp", "mark"} => ~q.errs
    /\ q.pc = "mark" => "cdp" \in taken[q.ev]
    /\ q.pc = "flow" /\ ~q.errs => "cdp" \in taken[q.ev]
    /\ q.pc = "round" => ("flow" \in taken[q.ev] \/ q.ev \in unwelcomed) /\ (~q.errs => "cdp" \in taken[q.ev])
    /\ q.pc \in {"done", "consumed"} => Served(q.ev)
    /\ q.pc = "commit" => Sure(q.ev)

\* The owner has handed no event over but those it has been through.
OwnerOK ==
    /\ job[owner].ev < position[owner] \/ At(owner, "fetch")
    /\ \A e \in Events : e < position[owner] => Sure(e) \/ (job[owner].ev = e /\ ~At(owner, "fetch"))

BusInv ==
    /\ BusTyped
    /\ \A e \in Events : inbox[e] = "done" => Served(e)
    /\ \A e \in Events : e < committed => Sure(e)
    /\ \A c \in Consumers : JobOK(job[c])
    /\ OwnerOK

LEMMA BusInvInit == BusConstants /\ BusInit => BusInv
<1> SUFFICES ASSUME BusConstants, BusInit PROVE BusInv
  OBVIOUS
<1>1. NoJob \in JobType /\ NoJob.pc = "fetch" /\ NoJob.ev = 0
  BY DEF NoJob, JobType, Places
<1>2. \A c \in Consumers : job[c] = NoJob
  BY DEF BusInit
<1>3. BusTyped
  BY <1>1, <1>2 DEF BusConstants, BusInit, BusTyped, Events, At
<1>4. \A c \in Consumers : JobOK(job[c])
  BY <1>1, <1>2 DEF JobOK
<1>5. OwnerOK
  BY <1>1, <1>2 DEF BusInit, OwnerOK, Events, At
<1> QED
  BY <1>3, <1>4, <1>5 DEF BusInit, BusInv, Events

\* Only the consumer c moves, only its event e is touched, nothing that was reached
\* is undone, and whoever was about to call the second handler still is, or has.
Moves(c) ==
    /\ \A d \in Consumers \ {c} : job'[d] = job[d]
    /\ \A e \in Events : taken[e] \subseteq taken'[e]
    /\ leaps \subseteq leaps' /\ unwelcomed \subseteq unwelcomed'
    /\ \A e \in Events : ledger[e] = "dead_letter" => ledger'[e] = "dead_letter"
    /\ At(c, "flow") /\ ~job[c].errs =>
          "flow" \in taken'[job[c].ev] \/ job[c].ev \in leaps' \/ job[c].ev \in unwelcomed'

LEMMA SureStays ==
    ASSUME BusTyped, NEW c \in Consumers, Moves(c), NEW e \in Events
    PROVE  (Served(e) => Served(e)') /\ (Sure(e) => Sure(e)')
<1>1. ASSUME Started(e) PROVE Started(e)'
  <2>1. CASE "flow" \in taken[e] \/ e \in leaps \/ e \in unwelcomed
    BY <2>1 DEF Moves, Started
  <2>2. ASSUME NEW d \in Consumers, At(d, "flow"), job[d].ev = e, ~job[d].errs PROVE Started(e)'
    <3>1. CASE d = c
      BY <2>2, <3>1 DEF Moves, Started
    <3>2. CASE d # c
      <4>1. job'[d] = job[d]
        BY <3>2 DEF Moves
      <4> QED
        BY <2>2, <4>1 DEF Started, At
    <3> QED
      BY <3>1, <3>2
  <2> QED
    BY <1>1, <2>1, <2>2 DEF Started
<1>2. Served(e) => Served(e)'
  BY <1>1 DEF Served, Moves
<1> QED
  BY <1>2 DEF Sure, Moves

\* What is left to show of a step of one consumer.
LEMMA OneMoves ==
    ASSUME BusInv, NEW c \in Consumers, Moves(c), BusTyped', JobOK(job[c])',
           \A e \in Events : inbox'[e] = "done" => inbox[e] = "done" \/ Served(e)',
           \A e \in Events : e < committed' => e < committed \/ Sure(e)',
           OwnerOK'
    PROVE  BusInv'
<1>1. \A e \in Events : (Served(e) => Served(e)') /\ (Sure(e) => Sure(e)')
  BY SureStays DEF BusInv
<1>2. \A e \in Events : inbox'[e] = "done" => Served(e)'
  BY <1>1 DEF BusInv
<1>3. \A e \in Events : e < committed' => Sure(e)'
  BY <1>1 DEF BusInv
<1>4. ASSUME NEW d \in Consumers, d # c PROVE JobOK(job[d])'
  <2>1. PICK q \in JobType : q = job[d] /\ q = job'[d]
    BY <1>4 DEF BusInv, BusTyped, Moves
  <2>2. JobOK(q) /\ (q.ev \in Events \/ q.pc = "fetch")
    BY <2>1 DEF BusInv, BusTyped, At
  <2>3. JobOK(q)'
    <3>1. CASE q.pc = "fetch"
      BY <3>1 DEF JobOK
    <3>2. CASE q.ev \in Events
      <4>1. taken[q.ev] \subseteq taken'[q.ev] /\ unwelcomed \subseteq unwelcomed' /\ (Served(q.ev) => Served(q.ev)') /\ (Sure(q.ev) => Sure(q.ev)')
        BY <1>1, <3>2 DEF Moves
      <4> QED
        BY <2>2, <4>1 DEF JobOK
    <3> QED
      BY <2>2, <3>1, <3>2
  <2> QED
    BY <2>1, <2>3 DEF JobOK
<1> QED
  BY <1>2, <1>3, <1>4 DEF BusInv

\* A step on the event at hand.
LEMMA InsideJob ==
    ASSUME BusInv, NEW c \in Consumers, Moves(c), BrokerStays, BusTyped',
           ~At(c, "fetch"), job'[c].ev = job[c].ev, job'[c].pc # "fetch", JobOK(job[c])',
           \A e \in Events : inbox'[e] = "done" => inbox[e] = "done" \/ Served(e)'
    PROVE  BusInv'
<1>1. UNCHANGED <<committed, owner, position>>
  BY DEF BrokerStays
<1>2. \A e \in Events : Sure(e) => Sure(e)'
  BY SureStays DEF BusInv
<1>3. owner \in Consumers /\ owner # c => job'[owner] = job[owner]
  BY DEF Moves
<1>4. owner \in Consumers
  BY DEF BusInv, BusTyped
<1>5. OwnerOK'
  BY <1>1, <1>2, <1>3, <1>4 DEF BusInv, OwnerOK, At
<1> QED
  BY <1>1, <1>5, OneMoves

\* The types of a step that only touches one job and one event.
LEMMA InsideTyped ==
    ASSUME BusTyped, NEW c \in Consumers, BrokerStays, NEW q \in JobType,
           ~At(c, "fetch"), q.ev = job[c].ev, q.pc # "fetch",
           job' = [job EXCEPT ![c] = q],
           inbox' \in [Events -> {"none", "pending", "failed", "done"}],
           ledger' \in [Events -> {"sent", "consumed", "dead_letter"}],
           taken' \in [Events -> SUBSET Handlers]
    PROVE  BusTyped' /\ job'[c] = q /\ \A d \in Consumers \ {c} : job'[d] = job[d]
<1>1. job'[c] = q /\ \A d \in Consumers \ {c} : job'[d] = job[d]
  BY DEF BusTyped
<1>2. job' \in [Consumers -> JobType]
  BY DEF BusTyped
<1>3. \A d \in Consumers : job'[d].ev \in Events <=> job'[d].pc # "fetch"
  BY <1>1 DEF BusTyped, At
<1>4. \A d \in Consumers : (job[d].ev \in Events <=> ~At(d, "fetch"))'
  BY <1>3 DEF Events, At
<1> QED
  BY <1>1, <1>2, <1>4 DEF BusTyped, BrokerStays, Events

\* A job goes on to another place, with an error, or in another round.
LEMMA JobGoes ==
    \A q \in JobType, place \in Places : \E r \in JobType :
        r.pc = place /\ r.ev = q.ev /\ r.errs = q.errs /\ r = [q EXCEPT !.pc = place]
<1> SUFFICES ASSUME NEW q \in JobType, NEW place \in Places
             PROVE  /\ [q EXCEPT !.pc = place] \in JobType
                    /\ [q EXCEPT !.pc = place].pc = place /\ [q EXCEPT !.pc = place].ev = q.ev
                    /\ [q EXCEPT !.pc = place].errs = q.errs
  OBVIOUS
<1> QED
  BY DEF JobType

LEMMA JobFails ==
    \A q \in JobType, place \in Places : \E r \in JobType :
        r.pc = place /\ r.ev = q.ev /\ r.errs = TRUE /\ r = [q EXCEPT !.pc = place, !.errs = TRUE]
<1> SUFFICES ASSUME NEW q \in JobType, NEW place \in Places
             PROVE  /\ [q EXCEPT !.pc = place, !.errs = TRUE] \in JobType
                    /\ [q EXCEPT !.pc = place, !.errs = TRUE].pc = place
                    /\ [q EXCEPT !.pc = place, !.errs = TRUE].ev = q.ev
                    /\ [q EXCEPT !.pc = place, !.errs = TRUE].errs = TRUE
  OBVIOUS
<1> QED
  BY DEF JobType

Again(q, n) == [q EXCEPT !.pc = "cdp", !.errs = FALSE, !.round = n]
LEMMA JobAgain ==
    \A q \in JobType, n \in Nat :
        /\ Again(q, n) \in JobType
        /\ Again(q, n).pc = "cdp" /\ Again(q, n).ev = q.ev /\ ~Again(q, n).errs
<1> SUFFICES ASSUME NEW q \in JobType, NEW n \in Nat
             PROVE  /\ Again(q, n) \in JobType
                    /\ Again(q, n).pc = "cdp" /\ Again(q, n).ev = q.ev /\ ~Again(q, n).errs
  OBVIOUS
<1> QED
  BY DEF JobType, Places, Again

LEMMA BusInvNext == BusConstants /\ BusInv /\ [BusNext]_busVars => BusInv'
<1> SUFFICES ASSUME BusConstants, BusInv, [BusNext]_busVars PROVE BusInv'
  OBVIOUS
<1>0. /\ published \in 0 .. LastEvent /\ committed \in Nat \ {0} /\ LastEvent \in Nat
      /\ owner \in Consumers /\ position \in [Consumers -> Nat \ {0}]
      /\ inbox \in [Events -> {"none", "pending", "failed", "done"}]
      /\ ledger \in [Events -> {"sent", "consumed", "dead_letter"}]
      /\ taken \in [Events -> SUBSET Handlers]
      /\ job \in [Consumers -> JobType] /\ BusTyped
      /\ \A c \in Consumers : job[c].ev \in Events <=> ~At(c, "fetch")
      /\ \A e \in Events : inbox[e] = "done" => Served(e)
      /\ \A c \in Consumers : JobOK(job[c])
      /\ OwnerOK
  BY DEF BusConstants, BusInv, BusTyped
<1>j. NoJob \in JobType /\ NoJob.pc = "fetch" /\ NoJob.ev = 0 /\ ~NoJob.errs /\ 0 \notin Events
  BY DEF NoJob, JobType, Places, Events
\* A consumer in the middle of an event; r is its job afterwards.
<1>m. ASSUME NEW c \in Consumers, NEW r, BrokerStays, ~At(c, "fetch"),
             job' = [job EXCEPT ![c] = r], r \in JobType, r.ev = job[c].ev, r.pc # "fetch",
             inbox' \in [Events -> {"none", "pending", "failed", "done"}],
             ledger' \in [Events -> {"sent", "consumed", "dead_letter"}],
             taken' \in [Events -> SUBSET Handlers],
             \A e \in Events : taken[e] \subseteq taken'[e],
             leaps \subseteq leaps', unwelcomed \subseteq unwelcomed',
             \A e \in Events : ledger[e] = "dead_letter" => ledger'[e] = "dead_letter",
             At(c, "flow") => "flow" \in taken'[job[c].ev] \/ job[c].ev \in unwelcomed',
             Moves(c) => JobOK(r)',
             Moves(c) => \A e \in Events : inbox'[e] = "done" => inbox[e] = "done" \/ Served(e)'
      PROVE  BusInv'
  <2>1. BusTyped' /\ job'[c] = r /\ \A d \in Consumers \ {c} : job'[d] = job[d]
    BY <1>0, <1>m, InsideTyped
  <2>2. Moves(c)
    BY <1>m, <2>1 DEF Moves
  <2>3. JobOK(job[c])'
    BY <1>m, <2>1, <2>2 DEF JobOK
  <2> QED
    BY <1>m, <2>1, <2>2, <2>3, InsideJob
<1>t. ASSUME NEW c \in Consumers, NEW place \in Places, JobTo(c, place)
      PROVE  \E r \in JobType : /\ r.pc = place /\ r.ev = job[c].ev /\ r.errs = job[c].errs
                                /\ job' = [job EXCEPT ![c] = r]
  <2>1. PICK q \in JobType : q = job[c]
    BY <1>0
  <2>2. PICK r \in JobType : /\ r.pc = place /\ r.ev = q.ev /\ r.errs = q.errs
                             /\ r = [q EXCEPT !.pc = place]
    BY JobGoes, Zenon
  <2>3. job' = [job EXCEPT ![c] = r]
    BY <1>t, <2>1, <2>2 DEF JobTo
  <2> QED
    BY <2>1, <2>2, <2>3
\* The same, with an error.
<1>f. ASSUME NEW c \in Consumers, job' = [job EXCEPT ![c].pc = "flow", ![c].errs = TRUE]
      PROVE  \E r \in JobType : /\ r.pc = "flow" /\ r.ev = job[c].ev /\ r.errs = TRUE
                                /\ job' = [job EXCEPT ![c] = r]
  <2>1. PICK q \in JobType : q = job[c]
    BY <1>0
  <2>2. PICK r \in JobType : /\ r.pc = "flow" /\ r.ev = q.ev /\ r.errs = TRUE
                             /\ r = [q EXCEPT !.pc = "flow", !.errs = TRUE]
    <3>1. "flow" \in Places
      BY DEF Places
    <3> QED
      BY <3>1, JobFails, Zenon
  <2>3. job' = [job EXCEPT ![c] = r]
    BY <1>0, <1>f, <2>1, <2>2
  <2> QED
    BY <2>1, <2>2, <2>3
<1>1. CASE Publish
  <2>1. /\ published' = published + 1 /\ published' \in 0 .. LastEvent
        /\ UNCHANGED <<committed, owner, position, inbox, ledger, taken, job, leaps, unwelcomed>>
    BY <1>0, <1>1 DEF Publish
  <2> QED
    BY <2>1 DEF BusInv, BusTyped, OwnerOK, JobOK, Sure, Served, Started, At
\* The event at hand, and what is known of it.
<1>e. ASSUME NEW c \in Consumers, ~At(c, "fetch")
      PROVE  job[c].ev \in Events /\ job[c] \in JobType /\ JobOK(job[c])
  BY <1>0, <1>e
\* A consumer that is through with its event, or dead.
<1>n. ASSUME NEW c \in Consumers, job' = [job EXCEPT ![c] = NoJob],
             UNCHANGED <<published, owner, inbox, ledger, taken>>,
             committed' \in Nat \ {0}, position' \in [Consumers -> Nat \ {0}], leaps \subseteq leaps', unwelcomed \subseteq unwelcomed',
             At(c, "flow") /\ ~job[c].errs => job[c].ev \in leaps',
             Moves(c) => \A e \in Events : e < committed' => e < committed \/ Sure(e)',
             Moves(c) /\ (\A e \in Events : Sure(e) => Sure(e)') => OwnerOK'
      PROVE  BusInv'
  <2>1. job'[c] = NoJob /\ \A d \in Consumers \ {c} : job'[d] = job[d]
    BY <1>0, <1>n
  <2>2. job' \in [Consumers -> JobType]
    BY <1>0, <1>j, <1>n
  <2>3. \A d \in Consumers : (job[d].ev \in Events <=> ~At(d, "fetch"))'
    BY <1>0, <1>j, <2>1 DEF Events, At
  <2>4. BusTyped'
    BY <1>0, <1>n, <2>2, <2>3 DEF BusTyped, Events
  <2>5. Moves(c)
    BY <1>n, <2>1 DEF Moves
  <2>6. JobOK(job[c])'
    BY <1>j, <2>1 DEF JobOK
  <2>7. \A e \in Events : Sure(e) => Sure(e)'
    BY <1>0, <2>5, SureStays
  <2>8. \A e \in Events : inbox'[e] = "done" => inbox[e] = "done" \/ Served(e)'
    BY <1>n
  <2> QED
    BY <1>n, <2>4, <2>5, <2>6, <2>7, <2>8, OneMoves
<1>2. ASSUME NEW c \in Consumers, Fetch(c) PROVE BusInv'
  <2>1. /\ At(c, "fetch") /\ c = owner /\ position[c] <= published
        /\ job' = [job EXCEPT ![c] = [NoJob EXCEPT !.pc = "ensure", !.ev = position[c]]]
        /\ position' = [position EXCEPT ![c] = @ + 1]
        /\ UNCHANGED <<published, committed, owner, inbox, ledger, taken, leaps, unwelcomed>>
    BY <1>2 DEF Fetch
  <2>2. position[c] \in Events
    BY <1>0, <2>1 DEF Events
  <2>3. PICK r \in JobType : r.pc = "ensure" /\ ~r.errs /\ r.ev = position[c] /\ job' = [job EXCEPT ![c] = r]
    <3>1. \A n \in Nat : /\ [NoJob EXCEPT !.pc = "ensure", !.ev = n] \in JobType
                         /\ [NoJob EXCEPT !.pc = "ensure", !.ev = n].pc = "ensure"
                         /\ [NoJob EXCEPT !.pc = "ensure", !.ev = n].ev = n
                         /\ ~[NoJob EXCEPT !.pc = "ensure", !.ev = n].errs
      BY DEF NoJob, JobType, Places
    <3> QED
      BY <1>0, <2>1, <3>1
  <2>4. job'[c] = r /\ \A d \in Consumers \ {c} : job'[d] = job[d]
    BY <1>0, <2>3
  <2>5. job' \in [Consumers -> JobType]
    BY <1>0, <2>3
  <2>6. \A d \in Consumers : (job[d].ev \in Events <=> ~At(d, "fetch"))'
    BY <1>0, <2>2, <2>3, <2>4 DEF Events, At
  <2>7. position' \in [Consumers -> Nat \ {0}] /\ position'[c] = position[c] + 1
    BY <1>0, <2>1
  <2>8. BusTyped'
    BY <1>0, <2>1, <2>5, <2>6, <2>7 DEF BusTyped, Events
  <2>9. Moves(c)
    BY <2>1, <2>4 DEF Moves, At
  <2>10. JobOK(job[c])'
    BY <2>3, <2>4 DEF JobOK
  <2>11. \A e \in Events : Sure(e) => Sure(e)'
    BY <1>0, <2>9, SureStays
  <2>12. OwnerOK'
    <3>1. \A e \in Events : e < position[c] => Sure(e)
      BY <1>0, <2>1 DEF OwnerOK, At
    <3>2. \A e \in Events : e < position[c] + 1 => Sure(e)' \/ e = position[c]
      BY <1>0, <2>11, <3>1 DEF Events
    <3>3. position[c] < position'[c]
      BY <1>0, <2>7
    <3> QED
      BY <1>0, <2>1, <2>3, <2>4, <2>7, <3>2, <3>3 DEF OwnerOK, At
  <2> QED
    BY <2>1, <2>8, <2>9, <2>10, <2>12, OneMoves
<1>3. ASSUME NEW c \in Consumers, Ensure(c) PROVE BusInv'
  <2>1. At(c, "ensure") /\ ~At(c, "fetch") /\ BrokerStays /\ UNCHANGED <<ledger, taken, unwelcomed>>
    BY <1>3 DEF Ensure, At
  <2>2. PICK e \in Events : e = job[c].ev /\ ~job[c].errs
    BY <1>e, <2>1 DEF JobOK, At
  <2>3. CASE /\ JobTo(c, IF Processed(e) THEN "consumed" ELSE "cdp") /\ UNCHANGED leaps
             /\ inbox' = [inbox EXCEPT ![e] = IF @ = "none" THEN "pending" ELSE @]
    <3>1. inbox' \in [Events -> {"none", "pending", "failed", "done"}]
          /\ \A x \in Events : inbox'[x] = "done" => inbox[x] = "done"
      BY <1>0, <2>2, <2>3
    <3>2. Moves(c) => (Served(e) => Served(e)')
      BY <1>0, SureStays
    <3>3. PICK place \in Places : JobTo(c, place) /\ place \in {"consumed", "cdp"}
                                  /\ (place = "consumed" => Served(e))
      BY <1>0, <2>3 DEF Places, Processed
    <3>4. PICK r \in JobType : r.pc = place /\ r.ev = e /\ ~r.errs /\ job' = [job EXCEPT ![c] = r]
      BY <1>t, <2>2, <3>3
    <3>5. Moves(c) => JobOK(r)'
      BY <3>2, <3>3, <3>4 DEF JobOK
    <3> QED
      BY <1>0, <1>m, <2>1, <2>2, <2>3, <3>1, <3>3, <3>4, <3>5 DEF At
  <2>4. CASE job' = [job EXCEPT ![c] = NoJob] /\ leaps' = leaps \cup {e} /\ UNCHANGED inbox
    <3>1. UNCHANGED <<published, committed, owner, position>>
      BY <2>1 DEF BrokerStays
    <3>2. Sure(e)'
      BY <2>4 DEF Sure
    <3>3. Moves(c) /\ (\A x \in Events : Sure(x) => Sure(x)') => OwnerOK'
      <4> SUFFICES ASSUME Moves(c), \A x \in Events : Sure(x) => Sure(x)' PROVE OwnerOK'
        OBVIOUS
      <4>1. job'[c] = NoJob /\ \A d \in Consumers \ {c} : job'[d] = job[d]
        BY <1>0, <2>4
      <4>2. CASE owner = c
        BY <1>0, <1>j, <2>2, <3>1, <3>2, <4>1, <4>2 DEF OwnerOK, At
      <4>3. CASE owner # c
        BY <1>0, <3>1, <4>1, <4>3 DEF OwnerOK, At
      <4> QED
        BY <4>2, <4>3
    <3> QED
      BY <1>0, <1>n, <2>1, <2>2, <2>4, <3>1, <3>3 DEF At
  <2> QED
    BY <1>3, <2>2, <2>3, <2>4 DEF Ensure
<1>4. ASSUME NEW c \in Consumers, Ingest(c) PROVE BusInv'
  <2>1. At(c, "cdp") /\ ~At(c, "fetch") /\ BrokerStays /\ UNCHANGED <<ledger, leaps, unwelcomed>>
    BY <1>4 DEF Ingest, At
  <2>2. PICK e \in Events : e = job[c].ev /\ ~job[c].errs
    BY <1>e, <2>1 DEF JobOK, At
  <2>3. CASE Processed(e) /\ JobTo(c, "flow") /\ UNCHANGED <<inbox, taken>>
    <3>1. PICK r \in JobType : r.pc = "flow" /\ r.ev = e /\ job' = [job EXCEPT ![c] = r]
      BY <1>t, <2>2, <2>3 DEF Places
    <3>2. "cdp" \in taken[e]
      BY <1>0, <2>3 DEF Processed, Served
    <3>3. JobOK(r)'
      BY <2>3, <3>1, <3>2 DEF JobOK
    <3> QED
      BY <1>0, <1>m, <2>1, <2>2, <2>3, <3>1, <3>3 DEF At
  <2>4. CASE JobTo(c, "mark") /\ taken' = [taken EXCEPT ![e] = @ \cup {"cdp"}] /\ UNCHANGED inbox
    <3>1. PICK r \in JobType : r.pc = "mark" /\ r.ev = e /\ ~r.errs /\ job' = [job EXCEPT ![c] = r]
      BY <1>t, <2>2, <2>4 DEF Places
    <3>2. /\ taken' \in [Events -> SUBSET Handlers] /\ "cdp" \in taken'[e]
          /\ \A x \in Events : taken[x] \subseteq taken'[x]
      BY <1>0, <2>4 DEF Handlers
    <3>3. JobOK(r)'
      BY <3>1, <3>2 DEF JobOK
    <3> QED
      BY <1>0, <1>m, <2>1, <2>2, <2>4, <3>1, <3>2, <3>3 DEF At
  <2>5. CASE /\ job' = [job EXCEPT ![c].pc = "flow", ![c].errs = TRUE] /\ UNCHANGED taken
             /\ inbox' = [inbox EXCEPT ![e] = "failed"] \/ UNCHANGED inbox
    <3>1. PICK r \in JobType : r.pc = "flow" /\ r.ev = e /\ r.errs = TRUE /\ job' = [job EXCEPT ![c] = r]
      BY <1>f, <2>2, <2>5
    <3>2. /\ inbox' \in [Events -> {"none", "pending", "failed", "done"}]
          /\ \A x \in Events : inbox'[x] = "done" => inbox[x] = "done"
      BY <1>0, <2>5
    <3>3. JobOK(r)'
      BY <3>1 DEF JobOK
    <3> QED
      BY <1>0, <1>m, <2>1, <2>2, <2>5, <3>1, <3>2, <3>3 DEF At
  <2> QED
    BY <1>4, <2>2, <2>3, <2>4, <2>5 DEF Ingest
<1>5. ASSUME NEW c \in Consumers, MarkIngested(c) PROVE BusInv'
  <2>1. At(c, "mark") /\ ~At(c, "fetch") /\ BrokerStays /\ UNCHANGED <<ledger, taken, leaps, unwelcomed>>
    BY <1>5 DEF MarkIngested, At
  <2>2. PICK e \in Events : e = job[c].ev /\ ~job[c].errs
    BY <1>e, <2>1 DEF JobOK, At
  <2>3. "cdp" \in taken[e]
    BY <1>e, <2>1, <2>2 DEF JobOK, At
  <2>4. CASE JobTo(c, "flow") /\ inbox' = [inbox EXCEPT ![e] = "done"]
    <3>1. PICK r \in JobType : r.pc = "flow" /\ r.ev = e /\ ~r.errs /\ job' = [job EXCEPT ![c] = r]
      BY <1>t, <2>2, <2>4 DEF Places
    <3>2. /\ inbox' \in [Events -> {"none", "pending", "failed", "done"}]
          /\ \A x \in Events : inbox'[x] = "done" => inbox[x] = "done" \/ x = e
      BY <1>0, <2>4
    <3>3. job'[c] = r
      BY <1>0, <3>1
    <3>4. Served(e)'
      BY <2>1, <2>3, <3>1, <3>3 DEF Served, Started, At
    <3>5. JobOK(r)'
      BY <2>1, <2>3, <3>1 DEF JobOK
    <3> QED
      BY <1>0, <1>m, <2>1, <2>2, <2>4, <3>1, <3>2, <3>4, <3>5 DEF At
  <2>5. CASE job' = [job EXCEPT ![c].pc = "flow", ![c].errs = TRUE] /\ UNCHANGED inbox
    <3>1. PICK r \in JobType : r.pc = "flow" /\ r.ev = e /\ r.errs = TRUE /\ job' = [job EXCEPT ![c] = r]
      BY <1>f, <2>2, <2>5
    <3>2. JobOK(r)'
      BY <3>1 DEF JobOK
    <3> QED
      BY <1>0, <1>m, <2>1, <2>2, <2>5, <3>1, <3>2 DEF At
  <2> QED
    BY <1>5, <2>2, <2>4, <2>5 DEF MarkIngested
<1>6. ASSUME NEW c \in Consumers, StartWelcome(c) PROVE BusInv'
  <2>1. At(c, "flow") /\ ~At(c, "fetch") /\ BrokerStays /\ UNCHANGED <<inbox, ledger, leaps>>
        /\ JobTo(c, "round")
    BY <1>6 DEF StartWelcome, At
  <2>2. PICK e \in Events : e = job[c].ev /\ (~job[c].errs => "cdp" \in taken[e])
    BY <1>e, <2>1 DEF JobOK, At
  <2>3. PICK r \in JobType : r.pc = "round" /\ r.ev = e /\ r.errs = job[c].errs /\ job' = [job EXCEPT ![c] = r]
    BY <1>t, <2>1, <2>2 DEF Places
  <2>4. /\ taken' \in [Events -> SUBSET Handlers]
        /\ \A x \in Events : taken[x] \subseteq taken'[x]
        /\ unwelcomed \subseteq unwelcomed'
        /\ "flow" \in taken'[e] \/ e \in unwelcomed'
    <3>1. CASE taken' = [taken EXCEPT ![e] = @ \cup {"flow"}] /\ UNCHANGED unwelcomed
      BY <1>0, <3>1 DEF Handlers
    <3>2. CASE unwelcomed' = unwelcomed \cup {e} /\ UNCHANGED taken
      BY <1>0, <3>2
    <3> QED
      BY <1>6, <2>2, <3>1, <3>2 DEF StartWelcome
  <2>5. JobOK(r)'
    BY <2>2, <2>3, <2>4 DEF JobOK
  <2> QED
    BY <1>0, <1>m, <2>1, <2>2, <2>3, <2>4, <2>5 DEF At
<1>7. ASSUME NEW c \in Consumers, RoundEnds(c) PROVE BusInv'
  <2>1. At(c, "round") /\ ~At(c, "fetch") /\ BrokerStays /\ UNCHANGED <<inbox, ledger, taken, leaps, unwelcomed>>
    BY <1>7 DEF RoundEnds, At
  <2>2. PICK e \in Events : e = job[c].ev /\ ("flow" \in taken[e] \/ e \in unwelcomed) /\ (~job[c].errs => "cdp" \in taken[e])
    BY <1>e, <2>1 DEF JobOK, At
  <2>3. CASE ~job[c].errs /\ JobTo(c, "done")
    <3>1. PICK r \in JobType : r.pc = "done" /\ r.ev = e /\ job' = [job EXCEPT ![c] = r]
      BY <1>t, <2>2, <2>3 DEF Places
    <3>2. Served(e)'
      BY <2>1, <2>2, <2>3 DEF Served, Started
    <3>3. JobOK(r)'
      BY <3>1, <3>2 DEF JobOK
    <3> QED
      BY <1>0, <1>m, <2>1, <2>2, <3>1, <3>3 DEF At
  <2>4. CASE job' = [job EXCEPT ![c].pc = "cdp", ![c].errs = FALSE, ![c].round = @ + 1]
    <3>0. PICK q \in JobType : q = job[c]
      BY <1>0
    <3>1. PICK n \in Nat : n = q.round + 1
      BY DEF JobType
    <3>2. PICK r \in JobType : r.pc = "cdp" /\ r.ev = q.ev /\ ~r.errs /\ r = Again(q, n)
      BY JobAgain
    <3>3. job' = [job EXCEPT ![c] = r]
      BY <1>0, <2>4, <3>0, <3>1, <3>2 DEF Again
    <3>4. JobOK(r)'
      BY <3>2 DEF JobOK
    <3> QED
      BY <1>0, <1>m, <2>1, <2>2, <3>0, <3>2, <3>3, <3>4 DEF At
  <2>5. CASE JobTo(c, "failed")
    <3>1. PICK r \in JobType : r.pc = "failed" /\ r.ev = e /\ job' = [job EXCEPT ![c] = r]
      BY <1>t, <2>2, <2>5 DEF Places
    <3>2. JobOK(r)'
      BY <3>1 DEF JobOK
    <3> QED
      BY <1>0, <1>m, <2>1, <2>2, <3>1, <3>2 DEF At
  <2> QED
    BY <1>7, <2>3, <2>4, <2>5 DEF RoundEnds
<1>8. ASSUME NEW c \in Consumers, MarkInbox(c) PROVE BusInv'
  <2>1. /\ job[c].pc \in {"done", "failed"} /\ ~At(c, "fetch") /\ ~At(c, "flow") /\ BrokerStays
        /\ UNCHANGED <<ledger, taken, leaps, unwelcomed>>
    BY <1>8 DEF MarkInbox, At
  <2>2. PICK e \in Events : e = job[c].ev /\ (At(c, "done") => Served(e))
    BY <1>e, <2>1 DEF JobOK, At
  <2>3. PICK place \in {"consumed", "dead_letter"} : JobTo(c, place) /\ (place = "consumed" => At(c, "done"))
    BY <1>8 DEF MarkInbox
  <2>4. PICK r \in JobType : r.pc = place /\ r.ev = e /\ job' = [job EXCEPT ![c] = r]
    BY <1>t, <2>2, <2>3 DEF Places
  <2>5. /\ inbox' \in [Events -> {"none", "pending", "failed", "done"}]
        /\ \A x \in Events : inbox'[x] = "done" => inbox[x] = "done" \/ (x = e /\ At(c, "done"))
    BY <1>0, <1>8, <2>1, <2>2 DEF MarkInbox, At
  <2>6. Moves(c) => (Served(e) => Served(e)')
    BY <1>0, SureStays
  <2>7. Moves(c) => JobOK(r)'
    BY <2>2, <2>3, <2>4, <2>6 DEF JobOK
  <2> QED
    BY <1>0, <1>m, <2>1, <2>2, <2>3, <2>4, <2>5, <2>6, <2>7
<1>9. ASSUME NEW c \in Consumers, RecordOutcome(c) PROVE BusInv'
  <2>1. /\ job[c].pc \in {"consumed", "dead_letter"} /\ ~At(c, "fetch") /\ ~At(c, "flow") /\ BrokerStays
        /\ UNCHANGED <<inbox, taken, unwelcomed>> /\ JobTo(c, "commit")
    BY <1>9 DEF RecordOutcome, At
  <2>2. PICK e \in Events : e = job[c].ev /\ (At(c, "consumed") => Served(e))
    BY <1>e, <2>1 DEF JobOK, At
  <2>3. PICK r \in JobType : r.pc = "commit" /\ r.ev = e /\ job' = [job EXCEPT ![c] = r]
    BY <1>t, <2>1, <2>2 DEF Places
  <2>4. /\ ledger' \in [Events -> {"sent", "consumed", "dead_letter"}]
        /\ \A x \in Events : ledger[x] = "dead_letter" => ledger'[x] = "dead_letter"
        /\ leaps \subseteq leaps'
        /\ At(c, "dead_letter") => ledger'[e] = "dead_letter" \/ e \in leaps'
    BY <1>0, <1>9, <2>2 DEF RecordOutcome, At
  <2>5. Moves(c) => (Served(e) => Served(e)')
    BY <1>0, SureStays
  <2>6. Moves(c) => JobOK(r)'
    BY <2>1, <2>2, <2>3, <2>4, <2>5 DEF JobOK, Sure, At
  <2> QED
    BY <1>0, <1>m, <2>1, <2>2, <2>3, <2>4, <2>6
<1>10. ASSUME NEW c \in Consumers, Commit(c) PROVE BusInv'
  <2>1. /\ At(c, "commit") /\ ~At(c, "fetch") /\ ~At(c, "flow") /\ job' = [job EXCEPT ![c] = NoJob]
        /\ committed' = IF c = owner THEN job[c].ev + 1 ELSE committed
        /\ UNCHANGED <<published, owner, position, inbox, ledger, taken, leaps, unwelcomed>>
    BY <1>10 DEF Commit, At
  <2>2. PICK e \in Events : e = job[c].ev /\ Sure(e)
    BY <1>e, <2>1 DEF JobOK, At
  <2>3. e \in Nat /\ committed' \in Nat \ {0}
    BY <1>0, <2>1, <2>2 DEF Events
  <2>4. \A x \in Events : x < committed' => x < committed \/ Sure(x)
    <3>1. CASE c = owner
      <4>1. e < position[c] /\ \A x \in Events : x < position[c] => Sure(x) \/ x = e
        BY <1>0, <2>1, <2>2, <3>1 DEF OwnerOK
      <4> QED
        BY <1>0, <2>1, <2>2, <2>3, <3>1, <4>1 DEF Events
    <3>2. CASE c # owner
      BY <2>1, <3>2
    <3> QED
      BY <3>1, <3>2
  <2>5. Moves(c) => \A x \in Events : Sure(x) => Sure(x)'
    BY <1>0, SureStays
  <2>6. Moves(c) => OwnerOK'
    <3> SUFFICES ASSUME Moves(c) PROVE OwnerOK'
      OBVIOUS
    <3>1. job'[c] = NoJob /\ \A d \in Consumers \ {c} : job'[d] = job[d]
      BY <1>0, <2>1
    <3>2. CASE owner = c
      BY <1>0, <1>j, <2>1, <2>2, <2>5, <3>1, <3>2 DEF OwnerOK, At
    <3>3. CASE owner # c
      BY <1>0, <2>1, <2>5, <3>1, <3>3 DEF OwnerOK, At
    <3> QED
      BY <3>2, <3>3
  <2> QED
    BY <1>0, <1>n, <2>1, <2>3, <2>4, <2>5, <2>6
<1>11. ASSUME NEW c \in Consumers, Rebalance(c) PROVE BusInv'
  <2>1. /\ owner' = c /\ position' = [position EXCEPT ![c] = committed] /\ At(c, "fetch")
        /\ UNCHANGED <<published, committed, inbox, ledger, taken, job, leaps, unwelcomed>>
    BY <1>11 DEF Rebalance
  <2>2. position' \in [Consumers -> Nat \ {0}] /\ position'[c] = committed
    BY <1>0, <2>1
  <2>3. \A e \in Events : (Sure(e)' <=> Sure(e)) /\ (Served(e)' <=> Served(e))
    BY <2>1 DEF Sure, Served, Started, At
  <2>4. OwnerOK'
    BY <1>11, <2>1, <2>2, <2>3 DEF BusInv, OwnerOK, At
  <2>5. \A d \in Consumers : JobOK(job[d])'
    BY <1>0, <2>1 DEF JobOK, Sure, Served, Started, At
  <2>6. BusTyped'
    BY <1>0, <2>1, <2>2 DEF BusTyped, Events, At
  <2> QED
    BY <2>1, <2>3, <2>4, <2>5, <2>6 DEF BusInv, Events
<1>12. ASSUME NEW c \in Consumers, Crash(c) PROVE BusInv'
  <2>1. /\ job' = [job EXCEPT ![c] = NoJob] /\ position' = [position EXCEPT ![c] = committed]
        /\ leaps \subseteq leaps' /\ (At(c, "flow") /\ ~job[c].errs => job[c].ev \in leaps')
        /\ UNCHANGED <<published, committed, owner, inbox, ledger, taken, unwelcomed>>
    BY <1>12 DEF Crash
  <2>2. position' \in [Consumers -> Nat \ {0}] /\ position'[c] = committed
        /\ \A d \in Consumers \ {c} : position'[d] = position[d]
    BY <1>0, <2>1
  <2>3. job'[c] = NoJob /\ \A d \in Consumers \ {c} : job'[d] = job[d]
    BY <1>0, <2>1
  <2>4. Moves(c) /\ (\A x \in Events : Sure(x) => Sure(x)') => OwnerOK'
    <3> SUFFICES ASSUME \A x \in Events : Sure(x) => Sure(x)' PROVE OwnerOK'
      OBVIOUS
    <3>1. CASE owner = c
      BY <1>0, <1>j, <2>1, <2>2, <2>3, <3>1 DEF BusInv, OwnerOK, At
    <3>2. CASE owner # c
      BY <1>0, <2>1, <2>2, <2>3, <3>2 DEF OwnerOK, At
    <3> QED
      BY <3>1, <3>2
  <2> QED
    BY <1>0, <1>n, <2>1, <2>2, <2>4
<1>13. CASE UNCHANGED busVars
  BY <1>13 DEF busVars, BusInv, BusTyped, OwnerOK, JobOK, Sure, Served, Started, At, Events
<1> QED
  BY <1>1, <1>2, <1>3, <1>4, <1>5, <1>6, <1>7, <1>8, <1>9, <1>10, <1>11, <1>12, <1>13 DEF BusNext

\* EventsAccounted of EventBus (kafka_publisher.go:147), however many processes
\* share the partition, and whatever crashes, fails and is handed out again: an event
\* that the broker is done with has had both its effects, is a dead letter or is still
\* in somebody's hands, unless its loss is one of the named ones, the welcome that
\* could not be started (orchestrate.go:239) among them.
THEOREM NoEventVanishes ==
    ASSUME BusConstants
    PROVE  BusSpec => []EventsAccounted
<1>1. BusInit => BusInv
  BY BusInvInit
<1>2. BusInv /\ [BusNext]_busVars => BusInv'
  BY BusInvNext
<1>3. BusInv => EventsAccounted
  <2> SUFFICES ASSUME BusInv, NEW e \in Events, e < committed, ledger[e] # "dead_letter",
                      e \notin leaps, e \notin unwelcomed
               PROVE  taken[e] = Handlers \/ \E c \in Consumers : job[c].ev = e
    BY DEF EventsAccounted, Accounted
  <2>1. Served(e) /\ taken[e] \subseteq Handlers
    BY DEF BusInv, BusTyped, Sure
  <2> QED
    BY <2>1 DEF Served, Started, Handlers
<1> QED
  BY <1>1, <1>2, <1>3, PTL DEF BusSpec
=============================================================================
