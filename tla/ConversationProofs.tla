------------------------- MODULE ConversationProofs -------------------------
(***************************************************************************)
(* What holds of Conversation for any sets of requests and advisors, any     *)
(* timeouts and any number of messages and acts.                             *)
(***************************************************************************)
EXTENDS Conversation, TLAPS

ChatConstants ==
    /\ HumanTimeout \in Nat /\ LeadTimeout \in Nat /\ AutoReply \in BOOLEAN
    /\ MaxMessages \in Nat /\ MaxCalls \in Nat

\* Everything that is written to a row leaves it well typed.
LEMMA WritesKeepRow ==
    ASSUME ChatConstants, NEW c \in Row
    PROVE  /\ Unheld(c) \in Row /\ ToAI(c) \in Row /\ Reopened(c) \in Row
           /\ ToHuman(c) \in Row /\ OnlyHuman(c) \in Row /\ Settled(c) \in Row /\ Taken(c) \in Row
           /\ Aged(c) \in Row
           /\ [c EXCEPT !.human = 0] \in Row /\ [c EXCEPT !.ai = FALSE] \in Row
           /\ [c EXCEPT !.pending = FALSE] \in Row
           /\ [c EXCEPT !.pending = TRUE, !.told = 0] \in Row
           /\ Blank \in Row
<1>a. Oldest \in Nat /\ 0 \in Never .. Oldest /\ Never \in Never .. Oldest
  BY DEF ChatConstants, Oldest, Never
<1> USE <1>a DEF Row
<1>1. Unheld(c) \in Row /\ ToAI(c) \in Row /\ Reopened(c) \in Row
  BY DEF Unheld, ToAI, Reopened
<1>2. ToHuman(c) \in Row /\ OnlyHuman(c) \in Row
  BY DEF ToHuman, OnlyHuman
<1>3. \A d \in Row : Settled(d) \in Row
  BY DEF Settled
<1>4. Taken(c) \in Row
  BY <1>2, <1>3 DEF Taken
<1>5. \A age \in Never .. Oldest : Older(age) \in Never .. Oldest
  BY DEF Older, Never
<1>6. Aged(c) \in Row
  BY <1>5 DEF Aged
<1>7. /\ [c EXCEPT !.human = 0] \in Row /\ [c EXCEPT !.ai = FALSE] \in Row
      /\ [c EXCEPT !.pending = FALSE] \in Row
      /\ [c EXCEPT !.pending = TRUE, !.told = 0] \in Row
  OBVIOUS
<1>8. Blank \in Row
  BY DEF Blank
<1> QED
  BY <1>1, <1>2, <1>3, <1>4, <1>6, <1>7, <1>8

\* The parts of NotTalkedOver that a step preserves: a conversation that an advisor
\* closed with his reply is locked, the copy of a request that waits for its decision
\* is that of the row, and whoever decided to answer saw that the reply was old.
Fresh(human) == human \in 0 .. LeadTimeout - 1
Unwarned(q) == ~q.late /\ ~q.free
Looked(q) == q.pc \in {"queued", "answer"} \/ (q.pc = "pre" /\ q.via # "visitor")
Current(q, human) == q.pc = "judge" /\ Unwarned(q) => Held(q.seen) /\ q.seen.human = human
Yielded(q, human) == AutoReply /\ Looked(q) /\ Unwarned(q) => ~Fresh(human)

LockKept == ~free => Held(conv)
TurnsOK == \A r \in Requests : Current(turn[r], conv.human) /\ Yielded(turn[r], conv.human)

ChatInv == ChatTypeOK /\ LockKept /\ TurnsOK

LEMMA ChatInvInit == ChatConstants /\ ChatInit => ChatInv
<1> SUFFICES ASSUME ChatConstants, ChatInit PROVE ChatInv
  OBVIOUS
<1>0. 0 \in Never .. Oldest /\ Never \in Never .. Oldest
  BY DEF ChatConstants, Oldest, Never
<1>1. Blank \in Row /\ [Blank EXCEPT !.mode = "human"] \in Row
  BY <1>0 DEF Row, Blank
<1>2. NoChat \in Turns
  BY <1>1 DEF NoChat, Turns, People
<1>3. ChatTypeOK
  BY <1>1, <1>2 DEF ChatTypeOK, ChatInit, ChatConstants, NotSending, People
<1> QED
  BY <1>3 DEF ChatInv, ChatInit, LockKept, TurnsOK, Current, Yielded, Looked, NoChat

\* One request moves; the row keeps the age of the last reply.
LEMMA PlaceType ==
    ASSUME ChatConstants, NEW q \in Turns, NEW c \in Row,
           NEW place \in {"idle", "judge", "skip", "pre", "enter", "mark", "leg", "queued", "answer"}
    PROVE  /\ Place(q, place, c) \in Turns
           /\ Place(q, place, c).pc = place /\ Place(q, place, c).via = q.via
           /\ Place(q, place, c).late = q.late /\ Place(q, place, c).free = q.free
           /\ Place(q, place, c).lead = q.lead
<1>1. Blank \in Row
  BY WritesKeepRow
<1> DEFINE kept == IF q.via = "web" /\ place \in {"pre", "queued"} /\ ~c.ai THEN c ELSE Blank
<1>2. kept \in Row
  BY <1>1
<1> HIDE DEF kept
<1>3. [q EXCEPT !.pc = place, !.seen = kept] \in Turns
  BY <1>2 DEF Turns
<1>4. Place(q, place, c) = [q EXCEPT !.pc = place, !.seen = kept]
  BY DEF Place, kept
<1> QED
  BY <1>3, <1>4 DEF Turns

LEMMA ChatTypeNext == ChatConstants /\ ChatTypeOK /\ [ChatNext]_chatVars => ChatTypeOK'
<1> SUFFICES ASSUME ChatConstants, ChatTypeOK, [ChatNext]_chatVars PROVE ChatTypeOK'
  OBVIOUS
<1>0. conv \in Row /\ Blank \in Row /\ NoChat \in Turns
      /\ assigned \in People /\ free \in BOOLEAN /\ turn \in [Requests -> Turns]
      /\ advisor \in [Advisors -> [pc : {"idle", "claim", "write"}, mode : {"ai", "human"}]]
      /\ messages \in 0 .. MaxMessages /\ calls \in 0 .. MaxCalls
  BY WritesKeepRow DEF ChatTypeOK, NoChat, Turns, People
<1>c. messages < MaxMessages => messages + 1 \in 0 .. MaxMessages
  BY <1>0 DEF ChatConstants
<1>d. PersonActs => calls' \in 0 .. MaxCalls /\ messages' = messages
  BY <1>0 DEF ChatConstants, PersonActs
<1>e. \A r \in Requests : Goto(r, "mark") \/ Goto(r, "leg") \/ Goto(r, "enter") \/ Goto(r, "queued")
                           \/ Goto(r, "answer") => turn' \in [Requests -> Turns]
  <2> SUFFICES ASSUME NEW r \in Requests, NEW place \in {"mark", "leg", "enter", "queued", "answer"},
                      Goto(r, place)
               PROVE  turn' \in [Requests -> Turns]
    OBVIOUS
  <2>1. Place(turn[r], place, turn[r].seen) \in Turns
    BY <1>0, PlaceType DEF Turns
  <2> QED
    BY <2>1, <1>0 DEF Goto
<1>f. \A r \in Requests : End(r) => turn' \in [Requests -> Turns]
  BY <1>0 DEF End
<1>g. \A r \in Requests, place \in {"judge", "answer"}, c \in Row :
          Look(r, place, c) => turn' \in [Requests -> Turns]
  <2> SUFFICES ASSUME NEW r \in Requests, NEW place \in {"judge", "answer"}, NEW c \in Row, Look(r, place, c)
               PROVE  turn' \in [Requests -> Turns]
    OBVIOUS
  <2>1. [turn[r] EXCEPT !.pc = place, !.seen = c, !.free = free, !.late = FALSE] \in Turns
    BY <1>0 DEF Turns
  <2> QED
    BY <2>1, <1>0 DEF Look
<1>h. \A c \in Row : Replied(c) => conv' \in Row /\ free' \in BOOLEAN /\ turn' \in [Requests -> Turns]
  <2> SUFFICES ASSUME NEW c \in Row, Replied(c)
               PROVE  conv' \in Row /\ free' \in BOOLEAN /\ turn' \in [Requests -> Turns]
    OBVIOUS
  <2>1. \A r \in Requests : [turn[r] EXCEPT !.late = turn[r].pc # "idle"] \in Turns
    BY <1>0 DEF Turns
  <2> QED
    BY <2>1, WritesKeepRow DEF Replied, Held
<1>1. ASSUME Tick PROVE ChatTypeOK'
  <2>1. \A r \in Requests : [turn[r] EXCEPT !.seen = Aged(@)] \in Turns
    BY <1>0, WritesKeepRow DEF Turns
  <2> QED
    BY <1>0, <1>1, <2>1, WritesKeepRow DEF Tick, ChatTypeOK, count
<1>2. ASSUME NEW r \in Requests, NEW via \in {"web", "visitor", "api", "channel"}, Begin(r, via)
      PROVE  ChatTypeOK'
  <2> DEFINE q == [pc |-> IF via \in {"channel", "visitor"} THEN "pre" ELSE "judge", via |-> via,
                   seen |-> IF via = "visitor" THEN Blank ELSE conv, owner |-> assigned,
                   lead |-> TRUE, free |-> free, late |-> FALSE]
  <2>1. q \in Turns
    BY <1>0 DEF Turns
  <2>2. turn' = [turn EXCEPT ![r] = q] /\ messages < MaxMessages
    BY <1>2 DEF Begin
  <2> HIDE DEF q
  <2> QED
    BY <1>0, <1>2, <1>c, <2>1, <2>2 DEF Begin, ChatTypeOK
<1>3. ASSUME NEW r \in Requests, JudgeTurn(r) PROVE ChatTypeOK'
  <2> DEFINE c == turn[r].seen
             web == turn[r].via = "web"
             expired == web /\ LeadExpired(c)
             gone == web /\ ~expired /\ PersonGone(c)
             checked == IF expired THEN Settled(c) ELSE IF gone THEN Unheld(c) ELSE c
             reopen == Held(checked) /\ ~checked.ai /\ Overdue(checked)
             copy == IF reopen THEN Reopened(checked) ELSE checked
             place == IF Waits(checked) THEN "skip" ELSE IF web THEN "pre" ELSE "queued"
  <2>1. turn' = [turn EXCEPT ![r] = Place(@, place, copy)]
    BY <1>3 DEF JudgeTurn
  <2>2. conv' = IF expired THEN Settled(conv)
                ELSE IF gone THEN [Unheld(conv) EXCEPT !.pending = FALSE]
                ELSE IF reopen THEN Reopened(conv) ELSE conv
    BY <1>3 DEF JudgeTurn
  <2>3. free' = (free \/ gone \/ reopen) /\ UNCHANGED <<assigned, advisor, count>>
    BY <1>3 DEF JudgeTurn
  <2>4. c \in Row
    BY <1>0 DEF Turns
  <2>5. checked \in Row
    BY <2>4, WritesKeepRow
  <2>6. copy \in Row
    BY <2>5, WritesKeepRow
  <2>7. place \in {"skip", "pre", "queued"}
    OBVIOUS
  <2>8. conv' \in Row
    BY <2>2, <1>0, WritesKeepRow
  <2>9. free' \in BOOLEAN
    BY <2>3
  <2> HIDE DEF copy, place
  <2>10. Place(turn[r], place, copy) \in Turns
    BY <1>0, <2>6, <2>7, PlaceType
  <2> QED
    BY <1>0, <2>1, <2>3, <2>8, <2>9, <2>10 DEF ChatTypeOK, count
<1>4. ASSUME NEW r \in Requests, CaptureLead(r) PROVE ChatTypeOK'
  <2>1. [turn[r] EXCEPT !.lead = FALSE] \in Turns
    BY <1>0 DEF Turns
  <2> QED
    BY <1>0, <1>4, <2>1 DEF CaptureLead, ChatTypeOK, People, count
<1>5. ASSUME NEW r \in Requests, PreRoute(r) PROVE ChatTypeOK'
  BY <1>0, <1>5, <1>e DEF PreRoute, ChatTypeOK, count
<1>6. ASSUME NEW r \in Requests, Enter(r) PROVE ChatTypeOK'
  BY <1>0, <1>6, <1>g DEF Enter, ChatTypeOK, count
<1>7. ASSUME NEW r \in Requests, MarkPending(r) PROVE ChatTypeOK'
  BY <1>0, <1>7, <1>f, WritesKeepRow DEF MarkPending, ChatTypeOK, count
<1>8. ASSUME NEW r \in Requests, CheckLeg(r) PROVE ChatTypeOK'
  BY <1>0, <1>8, <1>f, <1>g DEF CheckLeg, ChatTypeOK, count
<1>9. ASSUME NEW r \in Requests, Generate(r) PROVE ChatTypeOK'
  BY <1>0, <1>9, <1>e DEF Generate, ChatTypeOK, count
<1>10. ASSUME NEW r \in Requests, ReopenLate(r) PROVE ChatTypeOK'
  BY <1>0, <1>10, <1>e, WritesKeepRow DEF ReopenLate, ChatTypeOK, count
<1>11. ASSUME NEW r \in Requests, HandOver(r) PROVE ChatTypeOK'
  BY <1>0, <1>11, <1>f, WritesKeepRow DEF HandOver, ChatTypeOK, count
<1>12. ASSUME NEW r \in Requests, Finish(r) PROVE ChatTypeOK'
  BY <1>0, <1>12, <1>f DEF Finish, ChatTypeOK, count
<1>13. CASE HumanReply
  <2>1. Taken(conv) \in Row
    BY <1>0, WritesKeepRow
  <2> QED
    BY <1>0, <1>13, <1>d, <1>h, <2>1 DEF HumanReply, ChatTypeOK
<1>14. CASE Transfer
  BY <1>0, <1>14, <1>d, WritesKeepRow DEF Transfer, ChatTypeOK
<1>15. CASE TransferToAI
  BY <1>0, <1>15, <1>d, WritesKeepRow DEF TransferToAI, ChatTypeOK
<1>16. ASSUME NEW a \in Advisors, NEW admin \in BOOLEAN, BeginSend(a, admin) PROVE ChatTypeOK'
  <2>1. conv.mode \in {"ai", "human"}
    BY <1>0 DEF Row
  <2> QED
    BY <1>0, <1>16, <1>d, <2>1 DEF BeginSend, ChatTypeOK
<1>17. ASSUME NEW a \in Advisors, ClaimCustomer(a) PROVE ChatTypeOK'
  BY <1>0, <1>17 DEF ClaimCustomer, ChatTypeOK, NotSending, People, count
<1>18. ASSUME NEW a \in Advisors, SendMessage(a) PROVE ChatTypeOK'
  <2> DEFINE c == [(IF advisor[a].mode = "human" THEN conv ELSE ToHuman(conv)) EXCEPT !.ai = FALSE]
  <2>1. c \in Row
    BY <1>0, WritesKeepRow
  <2>2. Replied(c) /\ advisor' = [advisor EXCEPT ![a] = NotSending] /\ UNCHANGED <<assigned, count>>
    BY <1>18 DEF SendMessage
  <2> QED
    BY <1>0, <1>h, <2>1, <2>2 DEF ChatTypeOK, NotSending, count
<1>19. CASE UNCHANGED chatVars
  BY <1>0, <1>19 DEF ChatTypeOK, chatVars, count
<1> QED
  BY <1>1, <1>2, <1>3, <1>4, <1>5, <1>6, <1>7, <1>8, <1>9, <1>10, <1>11, <1>12, <1>13, <1>14, <1>15,
     <1>16, <1>17, <1>18, <1>19 DEF ChatNext

\* The row of the conversation, the requests with their copies of it and the
\* advisors keep their types, whoever writes which columns (Conversation).
THEOREM ChatTyped == ASSUME ChatConstants PROVE ChatSpec => []ChatTypeOK
<1>1. ChatInit => ChatTypeOK
  BY ChatInvInit DEF ChatInv
<1>2. ChatTypeOK /\ [ChatNext]_chatVars => ChatTypeOK'
  BY ChatTypeNext
<1> QED
  BY <1>1, <1>2, PTL DEF ChatSpec

\* A customer whom an advisor has claimed stays his, unless a message with his
\* number had read him as nobody's (advisor.go:1365).
THEOREM ClaimedStaysClaimed == ASSUME ChatConstants PROVE ChatSpec => StaysClaimed
<1>1. ChatTypeOK /\ [ChatNext]_chatVars
        => [assigned # Unassigned /\ assigned' # assigned
              => \E r \in Requests : turn[r].lead /\ ~turn'[r].lead
                                     /\ turn[r].owner = Unassigned]_chatVars
  <2> SUFFICES ASSUME ChatTypeOK, [ChatNext]_chatVars, assigned # Unassigned, assigned' # assigned
               PROVE  \E r \in Requests : turn[r].lead /\ ~turn'[r].lead
                                          /\ turn[r].owner = Unassigned
    OBVIOUS
  <2>1. PICK r \in Requests : CaptureLead(r)
    BY DEF ChatNext, chatVars, count, Tick, Begin, JudgeTurn, PreRoute, Enter, MarkPending, CheckLeg, Generate,
           ReopenLate, HandOver, Finish, HumanReply, Transfer, TransferToAI, BeginSend, ClaimCustomer, Claimable, SendMessage
  <2>2. turn[r] \in Turns /\ turn \in [Requests -> Turns]
    BY DEF ChatTypeOK
  <2>3. turn[r].lead /\ turn[r].owner = Unassigned
    BY <2>1 DEF CaptureLead
  <2>4. ~turn'[r].lead
    BY <2>1, <2>2 DEF CaptureLead, Turns
  <2> QED
    BY <2>3, <2>4
<1> QED
  BY <1>1, ChatTyped, PTL DEF ChatSpec, StaysClaimed

\* One request moves to q, and the age of the last reply stays.
LEMMA OneTurn ==
    ASSUME ChatTypeOK, TurnsOK, NEW r \in Requests, NEW q,
           turn' = [turn EXCEPT ![r] = q], conv'.human = conv.human,
           Current(q, conv.human), Yielded(q, conv.human)
    PROVE  TurnsOK'
<1>1. \A t \in Requests : turn'[t] = IF t = r THEN q ELSE turn[t]
  BY DEF ChatTypeOK
<1>2. ASSUME NEW t \in Requests
      PROVE  Current(turn'[t], conv'.human) /\ Yielded(turn'[t], conv'.human)
  BY <1>1 DEF TurnsOK
<1> QED
  BY <1>2 DEF TurnsOK

LEMMA ChatInvNext == ChatConstants /\ ChatInv /\ [ChatNext]_chatVars => ChatInv'
<1> SUFFICES ASSUME ChatConstants, ChatInv, [ChatNext]_chatVars PROVE LockKept' /\ TurnsOK'
  BY ChatTypeNext DEF ChatInv
<1>0. ChatTypeOK /\ LockKept /\ TurnsOK /\ conv \in Row /\ turn \in [Requests -> Turns]
      /\ LeadTimeout \in Nat /\ LeadTimeout <= Oldest /\ Oldest \in Nat
  BY DEF ChatInv, ChatTypeOK, ChatConstants, Oldest
<1>a. \A r \in Requests : /\ turn[r] \in Turns
                          /\ Current(turn[r], conv.human) /\ Yielded(turn[r], conv.human)
  BY <1>0 DEF TurnsOK
<1>b. \A c \in Row : /\ Unheld(c).human = c.human /\ ToAI(c).human = c.human
                     /\ Reopened(c).human = c.human /\ Settled(c).human = c.human
                     /\ ToHuman(c).human = c.human /\ OnlyHuman(c).human = c.human
                     /\ Taken(c).human = c.human /\ [Unheld(c) EXCEPT !.pending = FALSE].human = c.human
                     /\ (Held(c) => Held(Settled(c)))
                     /\ Held(ToHuman(c)) /\ Held(OnlyHuman(c)) /\ Held(Taken(c))
  BY DEF Row, Unheld, ToAI, Reopened, Settled, ToHuman, OnlyHuman, Taken, Held
\* A request that ends or waits for something else than its answer.
<1>c. ASSUME NEW r \in Requests, End(r), conv'.human = conv.human PROVE TurnsOK'
  BY <1>0, <1>c, OneTurn DEF End, NoChat, Current, Yielded, Looked
<1>d. ASSUME NEW r \in Requests, NEW place \in {"mark", "leg", "enter", "queued", "answer"},
             Goto(r, place), conv'.human = conv.human,
             place \in {"queued", "answer"} => Looked(turn[r])
      PROVE  TurnsOK'
  <2> DEFINE q == Place(turn[r], place, turn[r].seen)
  <2>1. /\ q.pc = place /\ q.via = turn[r].via
        /\ q.late = turn[r].late /\ q.free = turn[r].free
    BY <1>a, PlaceType DEF Turns
  <2>2. turn' = [turn EXCEPT ![r] = q]
    BY <1>d DEF Goto
  <2> HIDE DEF q
  <2>3. Current(q, conv.human) /\ Yielded(q, conv.human)
    BY <2>1, <1>d, <1>a DEF Current, Yielded, Looked, Unwarned
  <2> QED
    BY <1>0, <1>d, <2>2, <2>3, OneTurn
\* An advisor replies: every request under way is warned.
<1>e. ASSUME NEW c \in Row, Replied(c) PROVE LockKept' /\ TurnsOK'
  <2>1. LockKept'
    BY <1>e DEF Replied, LockKept, Held, Row
  <2>2. ASSUME NEW r \in Requests
        PROVE  Current(turn'[r], conv'.human) /\ Yielded(turn'[r], conv'.human)
    <3>1. turn'[r] = [turn[r] EXCEPT !.late = turn[r].pc # "idle"]
      BY <1>e DEF Replied
    <3> QED
      BY <3>1, <1>a DEF Current, Yielded, Looked, Unwarned, Turns
  <2> QED
    BY <2>1, <2>2 DEF TurnsOK
<1>1. CASE Tick
  <2>1. \A age \in Never .. Oldest : Fresh(Older(age)) => Fresh(age)
    BY <1>0 DEF Older, Fresh, Never
  <2>2. /\ conv' = Aged(conv) /\ Aged(conv).human = Older(conv.human) /\ conv.human \in Never .. Oldest
        /\ Aged(conv).mode = conv.mode /\ Aged(conv).locked = conv.locked
    BY <1>0, <1>1 DEF Tick, Aged, Row
  <2>3. LockKept'
    BY <1>0, <1>1, <2>2 DEF Tick, LockKept, Held
  <2>4. ASSUME NEW r \in Requests
        PROVE  Current(turn'[r], conv'.human) /\ Yielded(turn'[r], conv'.human)
    <3>1. turn'[r] = [turn[r] EXCEPT !.seen = Aged(turn[r].seen)]
      BY <1>1 DEF Tick
    <3>2. /\ Aged(turn[r].seen).mode = turn[r].seen.mode
          /\ Aged(turn[r].seen).locked = turn[r].seen.locked
          /\ Aged(turn[r].seen).human = Older(turn[r].seen.human)
      BY <1>a DEF Aged, Turns, Row
    <3>3. Yielded(turn'[r], conv'.human)
      BY <3>1, <1>a, <2>1, <2>2 DEF Yielded, Looked, Unwarned, Turns
    <3>4. Current(turn'[r], conv'.human)
      BY <3>1, <3>2, <1>a, <2>2 DEF Current, Unwarned, Held, Turns
    <3> QED
      BY <3>3, <3>4
  <2> QED
    BY <2>3, <2>4 DEF TurnsOK
<1>2. ASSUME NEW r \in Requests, NEW via \in {"web", "visitor", "api", "channel"}, Begin(r, via)
      PROVE  LockKept' /\ TurnsOK'
  <2> DEFINE q == [pc |-> IF via \in {"channel", "visitor"} THEN "pre" ELSE "judge", via |-> via,
                   seen |-> IF via = "visitor" THEN Blank ELSE conv, owner |-> assigned,
                   lead |-> TRUE, free |-> free, late |-> FALSE]
  <2>1. turn' = [turn EXCEPT ![r] = q] /\ conv' = conv /\ free' = free
        /\ (via = "channel" => ~conv.locked)
    BY <1>2 DEF Begin
  <2>2. Current(q, conv.human) /\ Yielded(q, conv.human)
    BY <1>0, <2>1 DEF Current, Yielded, Looked, Unwarned, LockKept, Held
  <2> HIDE DEF q
  <2> QED
    BY <1>0, <2>1, <2>2, OneTurn DEF LockKept
<1>3. ASSUME NEW r \in Requests, JudgeTurn(r) PROVE LockKept' /\ TurnsOK'
  <2> DEFINE c == turn[r].seen
             web == turn[r].via = "web"
             expired == web /\ LeadExpired(c)
             gone == web /\ ~expired /\ PersonGone(c)
             checked == IF expired THEN Settled(c) ELSE IF gone THEN Unheld(c) ELSE c
             reopen == Held(checked) /\ ~checked.ai /\ Overdue(checked)
             copy == IF reopen THEN Reopened(checked) ELSE checked
             place == IF Waits(checked) THEN "skip" ELSE IF web THEN "pre" ELSE "queued"
             q == Place(turn[r], place, copy)
  <2>1. /\ turn[r].pc = "judge" /\ turn' = [turn EXCEPT ![r] = q]
        /\ free' = (free \/ gone \/ reopen)
        /\ conv' = IF expired THEN Settled(conv)
                   ELSE IF gone THEN [Unheld(conv) EXCEPT !.pending = FALSE]
                   ELSE IF reopen THEN Reopened(conv) ELSE conv
    BY <1>3 DEF JudgeTurn
  <2>2. c \in Row /\ checked \in Row /\ copy \in Row
    BY <1>a, WritesKeepRow DEF Turns
  <2>3. conv'.human = conv.human
    BY <2>1, <1>0, <1>b
  <2>4. LockKept'
    BY <2>1, <1>0, <1>b DEF LockKept
  \* The copy of a request that was not warned shows the lock and the age.
  <2>5. ASSUME Unwarned(turn[r]), AutoReply, Fresh(conv.human) PROVE Waits(checked)
    <3>1. Held(c) /\ c.human = conv.human
      BY <2>1, <2>5, <1>a DEF Current
    <3>2. ~gone
      BY <3>1 DEF PersonGone, Held
    <3>3. Held(checked) /\ checked.human = conv.human
      BY <2>2, <3>1, <3>2, <1>b
    <3>4. checked.human \in 0 .. LeadTimeout - 1
      BY <3>3, <2>5 DEF Fresh
    <3>5. ~Overdue(checked)
      BY <3>4, <1>0 DEF Overdue
    <3> QED
      BY <3>3, <3>4, <3>5, <2>5 DEF Waits
  <2> HIDE DEF checked, copy
  <2>p. place \in {"skip", "pre", "queued"} /\ (Waits(checked) => place = "skip")
    OBVIOUS
  <2> HIDE DEF place
  <2>6. /\ q.pc = place /\ q.late = turn[r].late /\ q.free = turn[r].free
    <3>1. place \in {"idle", "judge", "skip", "pre", "enter", "mark", "leg", "queued", "answer"}
      BY <2>p
    <3>2. turn[r] \in Turns
      BY <1>a
    <3> QED
      BY <2>2, <3>1, <3>2, PlaceType DEF Turns
  <2> HIDE DEF q
  <2>7. Current(q, conv.human) /\ Yielded(q, conv.human)
    BY <2>5, <2>6, <2>p DEF Current, Yielded, Looked, Unwarned
  <2> QED
    BY <1>0, <2>1, <2>3, <2>4, <2>7, OneTurn
<1>4. ASSUME NEW r \in Requests, CaptureLead(r) PROVE LockKept' /\ TurnsOK'
  <2>1. turn' = [turn EXCEPT ![r] = [turn[r] EXCEPT !.lead = FALSE]] /\ UNCHANGED <<conv, free>>
    BY <1>4 DEF CaptureLead
  <2>2. Current([turn[r] EXCEPT !.lead = FALSE], conv.human)
        /\ Yielded([turn[r] EXCEPT !.lead = FALSE], conv.human)
    BY <1>a DEF Current, Yielded, Looked, Unwarned, Turns
  <2> QED
    BY <1>0, <2>1, <2>2, OneTurn DEF LockKept
<1>5. ASSUME NEW r \in Requests, PreRoute(r) PROVE LockKept' /\ TurnsOK'
  <2>1. PICK place \in {"mark", "leg", IF turn[r].via = "visitor" THEN "enter" ELSE "queued"} :
            Goto(r, place)
    BY <1>5 DEF PreRoute
  <2>2. place \in {"mark", "leg", "enter", "queued"} /\ (place = "queued" => Looked(turn[r]))
        /\ UNCHANGED <<conv, free>>
    BY <1>5, <2>1 DEF PreRoute, Looked
  <2> QED
    BY <2>1, <2>2, <1>0, <1>d DEF LockKept
<1>6. ASSUME NEW r \in Requests, Enter(r) PROVE LockKept' /\ TurnsOK'
  <2> DEFINE q == [turn[r] EXCEPT !.pc = "judge", !.seen = conv, !.free = free, !.late = FALSE]
  <2>1. turn' = [turn EXCEPT ![r] = q] /\ UNCHANGED <<conv, free>>
    BY <1>6 DEF Enter, Look
  <2>2. Current(q, conv.human) /\ Yielded(q, conv.human)
    BY <1>a, <1>0 DEF Current, Yielded, Looked, Unwarned, Turns, LockKept
  <2> HIDE DEF q
  <2> QED
    BY <1>0, <2>1, <2>2, OneTurn DEF LockKept
<1>7. ASSUME NEW r \in Requests, MarkPending(r) PROVE LockKept' /\ TurnsOK'
  <2>1. End(r) /\ conv'.human = conv.human /\ (Held(conv) => Held(conv)') /\ free' = free
    BY <1>0, <1>7 DEF MarkPending, Held, Row
  <2> QED
    BY <1>0, <1>c, <2>1 DEF LockKept
<1>8. ASSUME NEW r \in Requests, CheckLeg(r) PROVE LockKept' /\ TurnsOK'
  <2>1. CASE MaySpeak(conv)
    <3> DEFINE q == [turn[r] EXCEPT !.pc = "answer", !.seen = Blank, !.free = free, !.late = FALSE]
    <3>1. turn' = [turn EXCEPT ![r] = q] /\ UNCHANGED <<conv, free>>
      BY <1>8, <2>1 DEF CheckLeg, Look
    <3>2. free
      BY <1>0, <2>1 DEF MaySpeak, LockKept, Held
    <3>3. Current(q, conv.human) /\ Yielded(q, conv.human)
      BY <1>a, <3>2 DEF Current, Yielded, Looked, Unwarned, Turns
    <3> HIDE DEF q
    <3> QED
      BY <1>0, <3>1, <3>3, OneTurn DEF LockKept
  <2>2. CASE ~MaySpeak(conv)
    BY <1>0, <1>8, <2>2, <1>c DEF CheckLeg, LockKept
  <2> QED
    BY <2>1, <2>2
<1>9. ASSUME NEW r \in Requests, Generate(r) PROVE LockKept' /\ TurnsOK'
  BY <1>0, <1>9, <1>d DEF Generate, Looked, LockKept
<1>10. ASSUME NEW r \in Requests, ReopenLate(r) PROVE LockKept' /\ TurnsOK'
  BY <1>0, <1>10, <1>b, <1>d DEF ReopenLate, Looked, LockKept
<1>11. ASSUME NEW r \in Requests, HandOver(r) PROVE LockKept' /\ TurnsOK'
  BY <1>0, <1>11, <1>b, <1>c DEF HandOver, LockKept
<1>12. ASSUME NEW r \in Requests, Finish(r) PROVE LockKept' /\ TurnsOK'
  BY <1>0, <1>12, <1>c DEF Finish, LockKept
<1>13. CASE HumanReply
  BY <1>0, <1>13, <1>e, WritesKeepRow DEF HumanReply
<1>14. CASE Transfer
  <2>1. conv'.human = conv.human /\ Held(conv)' /\ UNCHANGED turn
    BY <1>0, <1>14, <1>b DEF Transfer
  <2> QED
    BY <1>0, <2>1 DEF LockKept, TurnsOK
<1>15. CASE TransferToAI
  <2>1. conv'.human = conv.human /\ free' /\ UNCHANGED turn
    BY <1>0, <1>15, <1>b DEF TransferToAI
  <2> QED
    BY <1>0, <2>1 DEF LockKept, TurnsOK
<1>16. ASSUME NEW a \in Advisors, NEW admin \in BOOLEAN, BeginSend(a, admin) PROVE LockKept' /\ TurnsOK'
  BY <1>0, <1>16 DEF BeginSend, LockKept, TurnsOK
<1>17. ASSUME NEW a \in Advisors, ClaimCustomer(a) PROVE LockKept' /\ TurnsOK'
  BY <1>0, <1>17 DEF ClaimCustomer, LockKept, TurnsOK
<1>18. ASSUME NEW a \in Advisors, SendMessage(a) PROVE LockKept' /\ TurnsOK'
  <2> DEFINE c == [(IF advisor[a].mode = "human" THEN conv ELSE ToHuman(conv)) EXCEPT !.ai = FALSE]
  <2>1. c \in Row
    BY <1>0, WritesKeepRow
  <2>2. Replied(c)
    BY <1>18 DEF SendMessage
  <2> QED
    BY <1>e, <2>1, <2>2
<1>19. CASE UNCHANGED chatVars
  BY <1>0, <1>19 DEF chatVars, LockKept, TurnsOK
<1> QED
  BY <1>1, <1>2, <1>3, <1>4, <1>5, <1>6, <1>7, <1>8, <1>9, <1>10, <1>11, <1>12, <1>13, <1>14, <1>15,
     <1>16, <1>17, <1>18, <1>19 DEF ChatNext

\* Nobody talks over an advisor (human_takeover.go:53): whoever stores an answer
\* while the advisor's last reply is fresh looked before that reply, or at a
\* conversation that was free.
THEOREM NobodyTalksOver == ASSUME ChatConstants PROVE ChatSpec => []NotTalkedOver
<1>1. ChatInit => ChatInv
  BY ChatInvInit
<1>2. ChatInv /\ [ChatNext]_chatVars => ChatInv'
  BY ChatInvNext
<1>3. ChatInv => NotTalkedOver
  BY DEF ChatInv, TurnsOK, NotTalkedOver, Yielded, Looked, Unwarned, Fresh
<1> QED
  BY <1>1, <1>2, <1>3, PTL DEF ChatSpec
=============================================================================
