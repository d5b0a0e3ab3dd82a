---------------------------- MODULE Conversation ----------------------------
(***************************************************************************)
(* Who answers a customer: the assistant or an advisor.  One conversation,   *)
(* its four entrances (api/chat_main.go "web", api/chat_unauthorized.go      *)
(* "visitor", api/openapi_chat.go "api" and channel/inbound.go "channel"),   *)
(* the decision on a conversation that a person holds                        *)
(* (chatflow/human_takeover.go, chat_state.go), the second leg of a reply    *)
(* to a visit (chatflow/preroute.go), and the advisors' handlers             *)
(* (api/chat_human.go, api/advisor.go).                                      *)
(*                                                                           *)
(* A request reads the row once and works with its copy for up to two        *)
(* minutes.  Every write sets some columns of the row and no condition on    *)
(* the others.  The merge queue is left out: any number of requests may      *)
(* generate at a time.  So are fixed texts, which are not generated, and     *)
(* failing writes.  A moment is its age in ticks, up to the longer timeout.  *)
(***************************************************************************)
EXTENDS Integers

CONSTANTS
    Requests, Advisors,
    HumanTimeout,   \* human_timeout_seconds
    LeadTimeout,    \* assigned_lead_ai_timeout
    AutoReply,      \* assigned_lead_ai_auto_reply
    Unassigned,
    MaxMessages, MaxCalls   \* bounds of a run: customer's messages, acts of people

VARIABLES
    conv,      \* the row: mode, is_human_locked, is_ai_reply_enabled, pending_handoff,
               \* and the ages of handoff_notified_at and last_human_reply_at
    assigned,  \* assigned_user_id of the customer
    turn,      \* of a request: place, entrance, copies of the row and of the owner as they
               \* were read, lead not captured yet; history: free and late, below
    advisor,   \* AdvisorSendMessage: place, mode that was read
    free,      \* history: since the last reply of an advisor, the conversation was
               \* not locked by it, or was given to the assistant
    messages, calls

count == <<messages, calls>>
chatVars == <<conv, assigned, turn, advisor, free, count>>

Never == -1
Oldest == IF HumanTimeout > LeadTimeout THEN HumanTimeout ELSE LeadTimeout
Blank == [mode |-> "ai", locked |-> FALSE, ai |-> TRUE, pending |-> FALSE, told |-> Never, human |-> Never]
NoChat == [pc |-> "idle", via |-> "web", seen |-> Blank, owner |-> Unassigned, lead |-> FALSE,
              free |-> FALSE, late |-> FALSE]
NotSending == [pc |-> "idle", mode |-> "ai"]

\* A new conversation: the assistant's, or one that an advisor opens by a message.
ChatInit ==
    /\ conv \in {Blank, [Blank EXCEPT !.mode = "human"]}
    /\ assigned = Unassigned /\ free = TRUE
    /\ turn = [r \in Requests |-> NoChat]
    /\ advisor = [a \in Advisors |-> IF conv.mode = "ai" THEN NotSending ELSE [pc |-> "claim", mode |-> "human"]]
    /\ messages = 0 /\ calls = 0

Unheld(c) == [c EXCEPT !.mode = "ai", !.locked = FALSE]
ToAI(c) == [Unheld(c) EXCEPT !.ai = TRUE]
Reopened(c) == [ToAI(c) EXCEPT !.pending = FALSE]
ToHuman(c) == [c EXCEPT !.mode = "human", !.locked = TRUE]
OnlyHuman(c) == [ToHuman(c) EXCEPT !.ai = FALSE]
Settled(c) == [c EXCEPT !.pending = FALSE, !.told = Never]

\* After the decision the copy of the row is of use on the web, until the answer
\* is generated, and only if the assistant is switched off in it.
Place(q, place, copy) ==
    [q EXCEPT !.pc = place,
              !.seen = IF q.via = "web" /\ place \in {"pre", "queued"} /\ ~copy.ai THEN copy ELSE Blank]
Goto(r, place) == turn' = [turn EXCEPT ![r] = Place(@, place, @.seen)]
End(r) == turn' = [turn EXCEPT ![r] = NoChat]
\* The request looks at the row.
Look(r, place, copy) ==
    turn' = [turn EXCEPT ![r] = [@ EXCEPT !.pc = place, !.seen = copy, !.free = free, !.late = FALSE]]

(***************************************************************************)
(* Time.                                                                     *)
(***************************************************************************)
Older(age) == IF age \in 0 .. Oldest - 1 THEN age + 1 ELSE age
Aged(c) == [c EXCEPT !.told = Older(@), !.human = Older(@)]

Tick ==
    /\ conv' = Aged(conv)
    /\ turn' = [r \in Requests |-> [turn[r] EXCEPT !.seen = Aged(@)]]
    /\ UNCHANGED <<assigned, advisor, free, count>>

(***************************************************************************)
(* A message of the customer.                                                *)
(***************************************************************************)

\* The request reads the customer and, but for a visitor's, the conversation.  A
\* channel stays silent on one that is locked or has the assistant switched off.
Begin(r, via) ==
    /\ turn[r].pc = "idle" /\ messages < MaxMessages
    /\ via = "channel" => ~conv.locked /\ conv.ai
    /\ turn' = [turn EXCEPT ![r] =
            [pc |-> IF via \in {"channel", "visitor"} THEN "pre" ELSE "judge", via |-> via,
             seen |-> IF via = "visitor" THEN Blank ELSE conv, owner |-> assigned,
             lead |-> TRUE, free |-> free, late |-> FALSE]]
    /\ messages' = messages + 1
    /\ UNCHANGED <<conv, assigned, advisor, free, calls>>

\* CheckHumanTimeout: nobody took up the lead, or the person who has the
\* conversation without a lock went away.
LeadExpired(c) == c.pending /\ c.told >= HumanTimeout
PersonGone(c) == c.mode = "human" /\ ~c.locked /\ c.human >= HumanTimeout

Held(c) == c.mode = "human" /\ c.locked
Overdue(c) == c.pending /\ c.human >= LeadTimeout
\* Mutant: the assistant answers whenever it is switched on.
MutWaits(c) == Held(c) /\ ~c.ai /\ ~Overdue(c)
\* HumanTakeoverDecide leaves the message to the advisor.
Waits(c) == Held(c) /\ IF c.ai THEN AutoReply /\ c.human \in 0 .. LeadTimeout - 1 ELSE ~Overdue(c)

\* Both decide on the copy, and write to the row what they decided.
JudgeTurn(r) ==
    LET c == turn[r].seen
        web == turn[r].via = "web"
        expired == web /\ LeadExpired(c)
        gone == web /\ ~expired /\ PersonGone(c)
        checked == IF expired THEN Settled(c) ELSE IF gone THEN Unheld(c) ELSE c
        reopen == Held(checked) /\ ~checked.ai /\ Overdue(checked)
        copy == IF reopen THEN Reopened(checked) ELSE checked
        place == IF Waits(checked) THEN "skip" ELSE IF web THEN "pre" ELSE "queued"
    IN  /\ turn[r].pc = "judge"
        /\ turn' = [turn EXCEPT ![r] = Place(@, place, copy)]
        /\ conv' = IF expired THEN Settled(conv)
                   ELSE IF gone THEN [Unheld(conv) EXCEPT !.pending = FALSE]
                   ELSE IF reopen THEN Reopened(conv) ELSE conv
        /\ free' = (free \/ gone \/ reopen)
        /\ UNCHANGED <<assigned, advisor, count>>

\* DetectLeadCapture and its like: the customer gets the advisor with the fewest
\* customers, if any, unless the copy says that he has one.
CaptureLead(r) ==
    /\ turn[r].pc \in {"skip", "mark", "queued"} /\ turn[r].lead
    /\ turn' = [turn EXCEPT ![r].lead = FALSE]
    /\ IF turn[r].owner = Unassigned
       THEN assigned' \in Advisors \cup {Unassigned} ELSE UNCHANGED assigned
    /\ UNCHANGED <<conv, advisor, free, count>>

\* DecidePreRoute: a telephone number with a visit, a visit, or neither.
PreRoute(r) ==
    /\ turn[r].pc = "pre"
    /\ \E place \in {"mark", "leg", IF turn[r].via = "visitor" THEN "enter" ELSE "queued"} :
           Goto(r, place)
    /\ UNCHANGED <<conv, assigned, advisor, free, count>>

\* A visitor's request has its turn in the queue before it reads the conversation.
Enter(r) ==
    /\ turn[r].pc = "enter" /\ Look(r, "judge", conv)
    /\ UNCHANGED <<conv, assigned, advisor, free, count>>

MarkPending(r) ==
    /\ turn[r].pc = "mark" /\ ~turn[r].lead
    /\ conv' = [conv EXCEPT !.pending = TRUE, !.told = 0]
    /\ End(r)
    /\ UNCHANGED <<assigned, advisor, free, count>>

\* StoreVisitSecondLegDecision.
MaySpeak(c) == ~c.locked /\ c.ai /\ c.mode # "human" /\ ~c.pending

\* The second leg looks at the row again after its delay; a visitor's does not.
CheckLeg(r) ==
    /\ turn[r].pc = "leg" /\ turn[r].via # "visitor"
    /\ IF MaySpeak(conv) THEN Look(r, "answer", Blank) ELSE End(r)
    /\ UNCHANGED <<conv, assigned, advisor, free, count>>

(***************************************************************************)
(* The turn of the request, with the copy of its beginning.                  *)
(***************************************************************************)

\* A question of price is answered although the assistant is switched off; so is
\* any question of a visitor or through the open API.
Generate(r) ==
    /\ turn[r].pc = "queued" /\ Goto(r, "answer")
    /\ UNCHANGED <<conv, assigned, advisor, free, count>>

\* The assistant is switched off in the copy, and the advisor is overdue.
ReopenLate(r) ==
    /\ turn[r].pc = "queued" /\ turn[r].via = "web"
    /\ ~turn[r].seen.ai /\ Overdue(turn[r].seen)
    /\ conv' = Reopened(conv) /\ free' = TRUE /\ Goto(r, "answer")
    /\ UNCHANGED <<assigned, advisor, count>>

\* The assistant cannot answer, or its answer is blocked: a fixed text.
HandOver(r) ==
    /\ \/ turn[r].pc = "queued" /\ turn[r].via \in {"web", "channel"}
       \/ turn[r].pc = "answer" /\ turn[r].via \in {"web", "visitor"}
    /\ conv' = OnlyHuman(conv) /\ End(r)
    /\ UNCHANGED <<assigned, advisor, free, count>>

\* The answer is stored, or there is none after all; the conversation is not
\* looked at again.
Finish(r) ==
    /\ turn[r].pc \in {"answer", "queued", "skip"} \cup IF turn[r].via = "visitor" THEN {"leg"} ELSE {}
    /\ End(r)
    /\ UNCHANGED <<conv, assigned, advisor, free, count>>

(***************************************************************************)
(* The advisors and the customer's wish for a person.                        *)
(***************************************************************************)
PersonActs == calls < MaxCalls /\ calls' = calls + 1 /\ UNCHANGED messages

\* An advisor replied, and the row is now c.
Replied(c) ==
    /\ conv' = [c EXCEPT !.human = 0]
    /\ free' = ~Held(c)
    /\ turn' = [r \in Requests |-> [turn[r] EXCEPT !.late = turn[r].pc # "idle"]]

Taken(c) == Settled(ToHuman(c))

HumanReply ==
    /\ PersonActs /\ Replied(Taken(conv))
    /\ UNCHANGED <<assigned, advisor>>

\* TransferToHuman and GuestRequestHuman; AdvisorTakeover; ToggleAiReply to off and
\* the human node of a flow.
Transfer ==
    /\ PersonActs /\ conv' \in {ToHuman(conv), Taken(conv), OnlyHuman(conv)}
    /\ UNCHANGED <<assigned, turn, advisor, free>>

\* TransferToAI, ToggleAiReply to on, the AI node of a flow.
TransferToAI ==
    /\ PersonActs /\ conv' = ToAI(conv) /\ free' = TRUE
    /\ UNCHANGED <<assigned, turn, advisor>>

\* AdvisorSendMessage reads the conversation and the customer, claims a customer
\* that nobody has, and writes with the mode that it read.  An administrator
\* needs no claim.
BeginSend(a, admin) ==
    /\ advisor[a].pc = "idle" /\ (admin \/ assigned \in {a, Unassigned}) /\ PersonActs
    /\ advisor' = [advisor EXCEPT ![a] =
            [pc |-> IF admin \/ assigned = a THEN "write" ELSE "claim", mode |-> conv.mode]]
    /\ UNCHANGED <<conv, assigned, turn, free>>

\* Mutant: the claim is not conditional.
MutClaimable == TRUE
Claimable == assigned = Unassigned

ClaimCustomer(a) ==
    /\ advisor[a].pc = "claim"
    /\ IF Claimable
       THEN assigned' = a /\ advisor' = [advisor EXCEPT ![a].pc = "write"]
       ELSE UNCHANGED assigned /\ advisor' = [advisor EXCEPT ![a] = NotSending]
    /\ UNCHANGED <<conv, turn, free, count>>

SendMessage(a) ==
    /\ advisor[a].pc = "write" /\ advisor' = [advisor EXCEPT ![a] = NotSending]
    /\ Replied([(IF advisor[a].mode = "human" THEN conv ELSE ToHuman(conv)) EXCEPT !.ai = FALSE])
    /\ UNCHANGED <<assigned, count>>

ChatNext ==
    \/ Tick
    \/ \E r \in Requests :
        \/ \E via \in {"web", "visitor", "api", "channel"} : Begin(r, via)
        \/ JudgeTurn(r) \/ CaptureLead(r) \/ PreRoute(r) \/ Enter(r) \/ MarkPending(r) \/ CheckLeg(r)
        \/ Generate(r) \/ ReopenLate(r) \/ HandOver(r) \/ Finish(r)
    \/ HumanReply \/ Transfer \/ TransferToAI
    \/ \E a \in Advisors : ClaimCustomer(a) \/ SendMessage(a) \/ \E admin \in BOOLEAN : BeginSend(a, admin)

ChatSpec == ChatInit /\ [][ChatNext]_chatVars

----------------------------------------------------------------------------
Row == [mode : {"ai", "human"}, locked : BOOLEAN, ai : BOOLEAN, pending : BOOLEAN,
        told : Never .. Oldest, human : Never .. Oldest]
People == Advisors \cup {Unassigned}
Turns == [pc : {"idle", "judge", "skip", "pre", "enter", "mark", "leg", "queued", "answer"},
          via : {"web", "visitor", "api", "channel"}, seen : Row, owner : People,
          lead : BOOLEAN, free : BOOLEAN, late : BOOLEAN]

ChatTypeOK ==
    /\ conv \in Row /\ assigned \in People /\ free \in BOOLEAN
    /\ turn \in [Requests -> Turns]
    /\ advisor \in [Advisors -> [pc : {"idle", "claim", "write"}, mode : {"ai", "human"}]]
    /\ messages \in 0 .. MaxMessages /\ calls \in 0 .. MaxCalls

\* Nobody talks over an advisor ("the words of the person first", human_takeover.go:53):
\* whoever is about to store an answer while the last reply of an advisor is
\* fresh had looked before that reply, or at a conversation which was not locked by
\* it or had been given back to the assistant since.  The second leg of a visitor,
\* which never looks (chat_unauthorized.go:385), is not promised anything.
NotTalkedOver ==
    AutoReply => \A r \in Requests :
        turn[r].pc = "answer" /\ conv.human \in 0 .. LeadTimeout - 1
            => turn[r].late \/ turn[r].free

\* A customer whom an advisor has claimed stays his (advisor.go:1365), unless a
\* message with his number was on its way that had read him as nobody's.
StaysClaimed ==
    [][assigned # Unassigned /\ assigned' # assigned
        => \E r \in Requests : turn[r].lead /\ ~turn'[r].lead
                               /\ turn[r].owner = Unassigned]_chatVars
=============================================================================
