----------------------- MODULE RemoteMergeQueueProofs -----------------------
(***************************************************************************)
(* What holds of RemoteMergeQueue for any number of requests and processes *)
(* and any setting of the switches: crashes, sweeps, exit texts and slow   *)
(* calls included.                                                         *)
(***************************************************************************)
EXTENDS RemoteMergeQueue, SequenceTheorems, WellFoundedInduction, TLAPS

\* The free lock is not the token of a request.
RemoteConstants == NoBatch \notin Requests

----------------------------------------------------------------------------
\* Whoever is past TryLock and before Unlock has the lock.
LockInv ==
    /\ pc = [r \in Requests |-> pc[r]]
    /\ \A r \in Holders : lock = r
    /\ \A r \in Requests : /\ pc[r] = "dead" => "crash" \in trouble
                           /\ pc[r] = "sendExit" => r \in trouble

\* Where a batch is closed; where its reply can be read; where it has been claimed.
Closed(p) ==
    p \in {"generate", "release", "publishSeq", "publishReply", "publishEpoch", "unlock",
          "sendExit", "returned", "dead"}
Answered(p) == p \in {"publishEpoch", "unlock", "sendExit", "returned", "dead"}
Claimed(p) ==
    p \in {"release", "publishSeq", "publishReply", "publishEpoch", "unlock", "sendExit", "returned", "dead"}

NumberInv ==
    /\ seq = Len(reply) /\ reply \in Seq(Requests \union {NoBatch})
    /\ lastseq \in Nat /\ lastseq <= seq
    /\ cur \in [Requests -> Nat] /\ mySeq \in [Requests -> Nat]
    /\ \A r \in Requests :
          pc[r] \in {"readReply", "readEpoch", "checkList", "claim", "publishSeq", "publishReply", "publishEpoch"}
              => mySeq[r] \in 1 .. seq
    /\ \A r \in Requests : mySeq[r] <= seq

\* The number of a batch holds nothing until its reply is written, and its reply until
\* it returns; a number with an epoch holds the reply of a batch of that epoch.
Readable(s) == \E n \in DOMAIN repEpoch : reply[n] = s /\ repEpoch[n] = mine[s]

PublishInv ==
    /\ mine = [r \in Requests |-> mine[r]] /\ merged = [r \in Requests |-> merged[r]]
    /\ \A s \in Requests :
          /\ merged[s] # <<>> => Closed(pc[s])
          /\ pc[s] \in {"publishSeq", "publishReply"} => reply[mySeq[s]] = NoBatch
          /\ pc[s] = "publishEpoch" => reply[mySeq[s]] = s
          /\ pc[s] \in {"unlock", "sendExit"} \/ (pc[s] = "returned" /\ merged[s] # <<>>) => Readable(s)
    /\ \A n \in DOMAIN repEpoch :
          n \in 1 .. seq /\ reply[n] # NoBatch /\ repEpoch[n] = mine[reply[n]]
    /\ \A n \in 1 .. seq : reply[n] # NoBatch => Answered(pc[reply[n]])

\* Whoever has read a reply has the reply of a batch that was answered, and its epoch
\* or none.
Reads(r) ==
    /\ pc[r] = "readEpoch" => got[r] = reply[mySeq[r]] /\ got[r] # NoBatch
    /\ pc[r] \in {"checkList", "claim"} =>
          got[r] \in Requests /\ Answered(pc[got[r]]) /\ mine[r] \in {0, mine[got[r]]}

ReadInv ==
    /\ got = [r \in Requests |-> got[r]] /\ mine = [r \in Requests |-> mine[r]]
    /\ \A r \in Requests : Reads(r)

\* What has gone out was claimed, but for those who found no epoch beside the reply,
\* and but for the exit text, which its own worker sends without a claim.
ZeroReader(s) == \E r \in Requests \ {s} : pc[r] = "returned" /\ got[r] = s /\ mine[r] = 0
Delivers(s) ==
    /\ delivered[s] > 0 => Claimed(pc[s]) /\ (mine[s] \in claims \/ ZeroReader(s))
    /\ delivered[s] > 1 => ZeroReader(s)

DeliverInv ==
    /\ delivered \in [Requests -> Nat]
    /\ \A s \in Requests \ trouble : Delivers(s)

\* The waiting messages: whoever holds some is about to put them somewhere, and the
\* batch it will write is still empty.
ListInv ==
    /\ list \in Seq(Requests)
    /\ hand \in [Requests -> Seq(Requests)]
    /\ \A s \in Requests : merged[s] \in Seq(Requests)
    /\ \A s \in Requests : hand[s] # <<>> => pc[s] \in {"putBack", "absorb", "dead"}

\* A claimed epoch is that of a closed batch past its claim, so a worker that got no
\* claim has somebody else's epoch.
Held(s) ==
    \/ pc[s] \in {"release", "publishSeq", "publishReply", "publishEpoch", "unlock", "sendExit"}
    \/ pc[s] = "returned" /\ got[s] = s

Reused(s) == \E t \in Requests \ {s} : merged[t] # <<>> /\ mine[t] = mine[s]
ExitToSend(s) == s \in trouble /\ pc[s] # "returned"

DropInv ==
    /\ \A s \in Requests :
          /\ pc[s] \in {"generate", "release", "publishSeq", "publishReply", "publishEpoch", "unlock",
                         "sendExit"}
                => merged[s] # <<>>
          /\ pc[s] \in {"readEpoch", "checkList", "claim"} => merged[got[s]] # <<>>
    /\ \A n \in 1 .. seq : reply[n] # NoBatch => merged[reply[n]] # <<>>
    /\ \A c \in claims : \E t \in Requests : merged[t] # <<>> /\ Claimed(pc[t]) /\ mine[t] = c
    /\ \A s \in Workers : Held(s) /\ delivered[s] = 0 => Reused(s) \/ ExitToSend(s)

----------------------------------------------------------------------------
(* The elements of a sequence that is put together, split, or rid of one   *)
(* element.                                                                *)

\* A nonempty set of naturals has a least element.
LEMMA LeastNat ==
    ASSUME NEW I, I \subseteq Nat, I # {}
    PROVE  \E i \in I : \A j \in I : i <= j
<1>. DEFINE L == OpToRel(<, Nat)
<1>1. IsWellFoundedOn(L, Nat)
  BY NatLessThanWellFounded
<1>2. \A x, y \in Nat : x < y => <<x, y>> \in L
  BY DEF OpToRel
<1>. HIDE DEF L
<1>3. PICK i \in I : \A j \in I : ~ (<<j, i>> \in L)
  BY <1>1, WFMin
<1>4. \A j \in I : ~(j < i)
  BY <1>2, <1>3
<1>. QED
  BY <1>3, <1>4

LEMMA ToSetFacts ==
    ASSUME NEW S, NEW s \in Seq(S)
    PROVE  /\ \A x : x \in ToSet(s) <=> \E i \in 1 .. Len(s) : s[i] = x
           /\ ToSet(s) \subseteq S
  BY LenProperties, ElementOfSeq DEF ToSet

LEMMA ConcatToSet ==
    ASSUME NEW S, NEW s \in Seq(S), NEW t \in Seq(S)
    PROVE  s \o t \in Seq(S) /\ ToSet(s \o t) = ToSet(s) \union ToSet(t)
<1>1. /\ s \o t \in Seq(S) /\ Len(s \o t) = Len(s) + Len(t)
      /\ \A i \in 1 .. Len(s) + Len(t) : (s \o t)[i] = IF i <= Len(s) THEN s[i] ELSE t[i - Len(s)]
  BY ConcatProperties
<1>2. Len(s) \in Nat /\ Len(t) \in Nat
  BY LenProperties
<1>3. ASSUME NEW x \in ToSet(s \o t) PROVE x \in ToSet(s) \union ToSet(t)
  <2>1. PICK i \in 1 .. Len(s) + Len(t) : (s \o t)[i] = x
    BY <1>1, ToSetFacts
  <2>2. i <= Len(s) => i \in 1 .. Len(s)
    BY <1>2
  <2>3. ~(i <= Len(s)) => i - Len(s) \in 1 .. Len(t)
    BY <1>2
  <2>. QED
    BY <1>1, <2>1, <2>2, <2>3, ToSetFacts
<1>4. ASSUME NEW x \in ToSet(s) PROVE x \in ToSet(s \o t)
  <2>1. PICK i \in 1 .. Len(s) : s[i] = x
    BY ToSetFacts
  <2>2. i \in 1 .. Len(s) + Len(t) /\ (s \o t)[i] = x
    BY <1>1, <1>2, <2>1
  <2>. QED
    BY <1>1, <2>2, ToSetFacts
<1>5. ASSUME NEW x \in ToSet(t) PROVE x \in ToSet(s \o t)
  <2>1. PICK i \in 1 .. Len(t) : t[i] = x
    BY ToSetFacts
  <2>2. i + Len(s) \in 1 .. Len(s) + Len(t) /\ ~(i + Len(s) <= Len(s)) /\ i + Len(s) - Len(s) = i
    BY <1>2
  <2>3. (s \o t)[i + Len(s)] = x
    BY <1>1, <2>1, <2>2
  <2>. QED
    BY <1>1, <2>2, <2>3, ToSetFacts
<1>. QED
  BY <1>1, <1>3, <1>4, <1>5

\* Where a sequence is cut nothing falls out.
LEMMA SplitToSet ==
    ASSUME NEW S, NEW s \in Seq(S), NEW n \in 0 .. Len(s)
    PROVE  /\ SubSeq(s, 1, n) \in Seq(S) /\ SubSeq(s, n + 1, Len(s)) \in Seq(S)
           /\ ToSet(SubSeq(s, 1, n)) \union ToSet(SubSeq(s, n + 1, Len(s))) = ToSet(s)
<1>1. Len(s) \in Nat /\ \A i \in 1 .. Len(s) : s[i] \in S
  BY LenProperties, ElementOfSeq
<1>2. SubSeq(s, 1, n) \in Seq(S) /\ SubSeq(s, n + 1, Len(s)) \in Seq(S)
  BY <1>1, SubSeqProperties
<1>3. SubSeq(s, 1, n) \o SubSeq(s, n + 1, Len(s)) = SubSeq(s, 1, Len(s))
  <2>1. 1 \in 1 .. Len(s) + 1 /\ n \in 1 - 1 .. Len(s) /\ Len(s) \in n .. Len(s)
    BY <1>1
  <2>. QED
    BY <2>1, ConcatAdjacentSubSeq
<1>4. SubSeq(s, 1, Len(s)) = s
  BY SubSeqFull
<1>. DEFINE a == SubSeq(s, 1, n)
            b == SubSeq(s, n + 1, Len(s))
<1>5. a \in Seq(S) /\ b \in Seq(S) /\ a \o b = s
  BY <1>2, <1>3, <1>4
<1>. HIDE DEF a, b
<1>6. ToSet(a \o b) = ToSet(a) \union ToSet(b)
  BY <1>5, ConcatToSet
<1>7. a \in Seq(S) /\ b \in Seq(S) /\ ToSet(a) \union ToSet(b) = ToSet(s)
  BY <1>5, <1>6
<1>. QED
  BY <1>7 DEF a, b

\* Taking out one element takes no other.
LEMMA RemovedToSet ==
    ASSUME NEW S, NEW s \in Seq(S), NEW r
    PROVE  /\ RemoveFirst(s, r) \in Seq(S)
           /\ \A x \in ToSet(s) : x # r => x \in ToSet(RemoveFirst(s, r))
<1>. DEFINE I == {i \in 1 .. Len(s) : s[i] = r}
            k == SelectInSeq(s, LAMBDA v : v = r)
            front == SubSeq(s, 1, k - 1)
            back == SubSeq(s, k + 1, Len(s))
<1>1. CASE ~\E i \in 1 .. Len(s) : s[i] = r
  BY <1>1 DEF RemoveFirst
<1>2. CASE \E i \in 1 .. Len(s) : s[i] = r
  <2>1. k = Min(I) /\ I # {} /\ I \subseteq Nat
    BY <1>2 DEF SelectInSeq
  <2>2. Min(I) \in I
    <3>. HIDE DEF I
    <3>1. \E i \in I : \A j \in I : i <= j
      BY <2>1, LeastNat
    <3>. QED
      BY <3>1 DEF Min
  <2>3. RemoveFirst(s, r) = RemoveAt(s, k)
    BY <1>2 DEF RemoveFirst
  <2>4. k \in 1 .. Len(s) /\ s[k] = r
    BY <2>1, <2>2
  <2>. HIDE DEF k, I, front, back
  <2>5. RemoveFirst(s, r) = front \o back
    BY <2>3 DEF RemoveAt, front, back
  <2>6. Len(s) \in Nat /\ \A i \in 1 .. Len(s) : s[i] \in S
    BY LenProperties, ElementOfSeq
  <2>7. /\ front \in Seq(S) /\ back \in Seq(S)
        /\ Len(front) = k - 1 /\ Len(back) = Len(s) - k
        /\ \A i \in 1 .. k - 1 : front[i] = s[i]
        /\ \A i \in 1 .. Len(s) - k : back[i] = s[k + i]
    <3>1. /\ SubSeq(s, 1, k - 1) \in Seq(S)
          /\ Len(SubSeq(s, 1, k - 1)) = IF 1 <= k - 1 THEN k - 1 - 1 + 1 ELSE 0
          /\ \A i \in 1 .. k - 1 - 1 + 1 : SubSeq(s, 1, k - 1)[i] = s[1 + i - 1]
      BY <2>4, <2>6, SubSeqProperties
    <3>2. /\ SubSeq(s, k + 1, Len(s)) \in Seq(S)
          /\ Len(SubSeq(s, k + 1, Len(s))) = IF k + 1 <= Len(s) THEN Len(s) - (k + 1) + 1 ELSE 0
          /\ \A i \in 1 .. Len(s) - (k + 1) + 1 : SubSeq(s, k + 1, Len(s))[i] = s[k + 1 + i - 1]
      BY <2>4, <2>6, SubSeqProperties
    <3>. QED
      BY <2>4, <2>6, <3>1, <3>2 DEF front, back
  <2>8. ASSUME NEW x \in ToSet(s), x # r
        PROVE  x \in ToSet(front) \union ToSet(back)
    <3>1. PICK i \in 1 .. Len(s) : s[i] = x
      BY ToSetFacts
    <3>2. i # k
      BY <2>4, <2>8, <3>1
    <3>3. CASE i < k
      <4>1. i \in 1 .. k - 1
        BY <2>4, <3>3
      <4>. QED
        BY <2>7, <3>1, <4>1, ToSetFacts
    <3>4. CASE i > k
      <4>1. i - k \in 1 .. Len(s) - k /\ k + (i - k) = i
        BY <2>4, <2>6, <3>4
      <4>. QED
        BY <2>7, <3>1, <4>1, ToSetFacts
    <3>. QED
      BY <2>4, <3>2, <3>3, <3>4
  <2>9. front \o back \in Seq(S) /\ ToSet(front \o back) = ToSet(front) \union ToSet(back)
    BY <2>7, ConcatToSet
  <2>. QED
    BY <2>5, <2>8, <2>9
<1>. QED
  BY <1>1, <1>2

----------------------------------------------------------------------------
\* The lock is taken only when it is free, and given up only by its holder or by the
\* expiry of a dead one.
LEMMA LockNext ==
    ASSUME RemoteConstants, LockInv, [Next]_vars
    PROVE  LockInv'
<1> USE DEF LockInv, Holders, Goes, local, store, RemoteConstants
<1>1. ASSUME NEW r \in Requests, TakeLock(r) PROVE LockInv'
  BY <1>1 DEF TakeLock, SetNX, OpenBatch
<1>2. ASSUME NEW r \in Requests, LockHeld(r) PROVE LockInv'
  BY <1>2 DEF LockHeld, SetNX
<1>3. ASSUME NEW r \in Requests, ReadSeq(r) PROVE LockInv'
  BY <1>3 DEF ReadSeq
<1>4. ASSUME NEW r \in Requests, PushOwn(r) PROVE LockInv'
  BY <1>4 DEF PushOwn
<1>5. ASSUME NEW r \in Requests, PollSeq(r) PROVE LockInv'
  BY <1>5 DEF PollSeq
<1>6. ASSUME NEW r \in Requests, ReadReply(r) PROVE LockInv'
  BY <1>6 DEF ReadReply
<1>7. ASSUME NEW r \in Requests, ReadEpoch(r) PROVE LockInv'
  BY <1>7 DEF ReadEpoch
<1>8. ASSUME NEW r \in Requests, CheckList(r) PROVE LockInv'
  BY <1>8 DEF CheckList
<1>9. ASSUME NEW r \in Requests, CheckLock(r) PROVE LockInv'
  BY <1>9 DEF CheckLock
<1>10. ASSUME NEW r \in Requests, Grab(r) PROVE LockInv'
  BY <1>10 DEF Grab, SetNX
<1>11. ASSUME NEW r \in Requests, TakeoverDrain(r) PROVE LockInv'
  BY <1>11 DEF TakeoverDrain, Drain
<1>12. ASSUME NEW r \in Requests, TakeoverOpen(r) PROVE LockInv'
  BY <1>12 DEF TakeoverOpen, OpenBatch
<1>13. ASSUME NEW r \in Requests, ClaimAndDeliver(r) PROVE LockInv'
  BY <1>13 DEF ClaimAndDeliver, MayDeliver, ClaimKey
<1>14. ASSUME NEW r \in Requests, WindowEnds(r) PROVE LockInv'
  BY <1>14 DEF WindowEnds, Drain
<1>15. ASSUME NEW r \in Requests, Collect(r) PROVE LockInv'
  BY <1>15 DEF Collect
<1>16. ASSUME NEW r \in Requests, AnswerWeb(r) PROVE LockInv'
  BY <1>16 DEF AnswerWeb
<1>17. ASSUME NEW r \in Requests, SendExitText(r) PROVE LockInv'
  BY <1>17 DEF SendExitText
<1>28. ASSUME NEW r \in Requests, RouteToHuman(r) PROVE LockInv'
  BY <1>28 DEF RouteToHuman
<1>18. ASSUME NEW r \in Requests, ClaimAndAnswer(r) PROVE LockInv'
  BY <1>18 DEF ClaimAndAnswer, MayDeliver, ClaimKey
<1>19. ASSUME NEW r \in Requests, Release(r) PROVE LockInv'
  BY <1>19 DEF Release, NextSeq
<1>20. ASSUME NEW r \in Requests, PublishSeq(r) PROVE LockInv'
  BY <1>20 DEF PublishSeq
<1>21. ASSUME NEW r \in Requests, PublishReply(r) PROVE LockInv'
  BY <1>21 DEF PublishReply
<1>22. ASSUME NEW r \in Requests, PublishEpoch(r) PROVE LockInv'
  BY <1>22 DEF PublishEpoch
<1>23. ASSUME NEW r \in Requests, Unlock(r) PROVE LockInv'
  BY <1>23 DEF Unlock
<1>24. ASSUME NEW i \in Instances, Crash(i) PROVE LockInv'
  BY <1>24 DEF Crash
<1>25. ASSUME NEW i \in Instances, SweepIdleQueue(i) PROVE LockInv'
  BY <1>25 DEF SweepIdleQueue
<1>26. CASE LockExpires
  BY <1>26 DEF LockExpires
<1>27. CASE UNCHANGED vars
  BY <1>27 DEF vars, local, store
<1> QED
  BY <1>1, <1>2, <1>3, <1>4, <1>5, <1>6, <1>7, <1>8, <1>9, <1>10, <1>11, <1>12, <1>13,
     <1>14, <1>15, <1>16, <1>17, <1>18, <1>19, <1>20, <1>21, <1>22, <1>23, <1>24, <1>25,
     <1>26, <1>27, <1>28
  DEF Next, Wait, Hold, Idle

\* The numbers that Redis hands out are those of the published replies.
LEMMA NumberNext ==
    ASSUME RemoteConstants, LockInv, NumberInv, [Next]_vars
    PROVE  NumberInv'
<1> USE DEF LockInv, NumberInv, Goes, local, store
<1>1. ASSUME NEW r \in Requests, TakeLock(r) PROVE NumberInv'
  BY <1>1 DEF TakeLock, SetNX, OpenBatch
<1>2. ASSUME NEW r \in Requests, LockHeld(r) PROVE NumberInv'
  BY <1>2 DEF LockHeld, SetNX
<1>3. ASSUME NEW r \in Requests, ReadSeq(r) PROVE NumberInv'
  BY <1>3 DEF ReadSeq
<1>4. ASSUME NEW r \in Requests, PushOwn(r) PROVE NumberInv'
  BY <1>4 DEF PushOwn
<1>5. ASSUME NEW r \in Requests, PollSeq(r) PROVE NumberInv'
  <2>1. CASE lastseq > cur[r]
    <3>1. cur[r] \in Nat /\ lastseq \in 1 .. seq
      BY <2>1
    <3>2. mySeq' = [mySeq EXCEPT ![r] = lastseq] /\ UNCHANGED <<cur, lastseq, seq, reply>>
      BY <1>5, <2>1 DEF PollSeq
    <3>3. \A s \in Requests : s # r => pc'[s] = pc[s]
      BY <1>5 DEF PollSeq
    <3> QED
      BY <3>1, <3>2, <3>3
  <2>2. CASE ~(lastseq > cur[r])
    BY <1>5, <2>2 DEF PollSeq
  <2> QED
    BY <2>1, <2>2
<1>6. ASSUME NEW r \in Requests, ReadReply(r) PROVE NumberInv'
  BY <1>6 DEF ReadReply
<1>7. ASSUME NEW r \in Requests, ReadEpoch(r) PROVE NumberInv'
  BY <1>7 DEF ReadEpoch
<1>8. ASSUME NEW r \in Requests, CheckList(r) PROVE NumberInv'
  BY <1>8 DEF CheckList
<1>9. ASSUME NEW r \in Requests, CheckLock(r) PROVE NumberInv'
  BY <1>9 DEF CheckLock
<1>10. ASSUME NEW r \in Requests, Grab(r) PROVE NumberInv'
  BY <1>10 DEF Grab, SetNX
<1>11. ASSUME NEW r \in Requests, TakeoverDrain(r) PROVE NumberInv'
  BY <1>11 DEF TakeoverDrain, Drain
<1>12. ASSUME NEW r \in Requests, TakeoverOpen(r) PROVE NumberInv'
  BY <1>12 DEF TakeoverOpen, OpenBatch
<1>13. ASSUME NEW r \in Requests, ClaimAndDeliver(r) PROVE NumberInv'
  BY <1>13 DEF ClaimAndDeliver, MayDeliver, ClaimKey
<1>14. ASSUME NEW r \in Requests, WindowEnds(r) PROVE NumberInv'
  BY <1>14 DEF WindowEnds, Drain
<1>15. ASSUME NEW r \in Requests, Collect(r) PROVE NumberInv'
  BY <1>15 DEF Collect
<1>16. ASSUME NEW r \in Requests, AnswerWeb(r) PROVE NumberInv'
  BY <1>16 DEF AnswerWeb
<1>17. ASSUME NEW r \in Requests, SendExitText(r) PROVE NumberInv'
  BY <1>17 DEF SendExitText
<1>28. ASSUME NEW r \in Requests, RouteToHuman(r) PROVE NumberInv'
  BY <1>28 DEF RouteToHuman
<1>18. ASSUME NEW r \in Requests, ClaimAndAnswer(r) PROVE NumberInv'
  BY <1>18 DEF ClaimAndAnswer, MayDeliver, ClaimKey
<1>19. ASSUME NEW r \in Requests, Release(r) PROVE NumberInv'
  BY <1>19 DEF Release, NextSeq
<1>20. ASSUME NEW r \in Requests, PublishSeq(r) PROVE NumberInv'
  BY <1>20 DEF PublishSeq
<1>21. ASSUME NEW r \in Requests, PublishReply(r) PROVE NumberInv'
  BY <1>21 DEF PublishReply
<1>22. ASSUME NEW r \in Requests, PublishEpoch(r) PROVE NumberInv'
  BY <1>22 DEF PublishEpoch
<1>23. ASSUME NEW r \in Requests, Unlock(r) PROVE NumberInv'
  BY <1>23 DEF Unlock
<1>24. ASSUME NEW i \in Instances, Crash(i) PROVE NumberInv'
  BY <1>24 DEF Crash
<1>25. ASSUME NEW i \in Instances, SweepIdleQueue(i) PROVE NumberInv'
  BY <1>25 DEF SweepIdleQueue
<1>26. CASE LockExpires
  BY <1>26 DEF LockExpires
<1>27. CASE UNCHANGED vars
  BY <1>27 DEF vars, local, store
<1> QED
  BY <1>1, <1>2, <1>3, <1>4, <1>5, <1>6, <1>7, <1>8, <1>9, <1>10, <1>11, <1>12, <1>13,
     <1>14, <1>15, <1>16, <1>17, <1>18, <1>19, <1>20, <1>21, <1>22, <1>23, <1>24, <1>25,
     <1>26, <1>27, <1>28
  DEF Next, Wait, Hold, Idle

\* A step of r that writes nothing to Redis under a number, and that moves r neither
\* into nor out of the places where a reply is being written.
LEMMA QuietStep ==
    ASSUME PublishInv, LockInv, NumberInv, NEW r \in Requests, NEW p,
           pc' = [pc EXCEPT ![r] = p],
           UNCHANGED <<seq, reply, repEpoch, merged>>,
           mine' = [s \in Requests |-> mine'[s]],
           \A s \in Requests \ {r} : mine'[s] = mine[s] /\ mySeq'[s] = mySeq[s],
           Closed(pc[r]) => Closed(p) /\ mine'[r] = mine[r],
           Answered(pc[r]) => Answered(p),
           p \notin {"publishSeq", "publishEpoch", "unlock"},
           p = "publishReply" => pc[r] = "publishSeq" /\ mySeq'[r] = mySeq[r],
           p = "sendExit" => pc[r] = "unlock",
           p = "returned" => pc[r] \in {"unlock", "sendExit"} \/ ~Closed(pc[r])
    PROVE  PublishInv'
<1>1. \A s \in Requests : pc'[s] = IF s = r THEN p ELSE pc[s]
  BY DEF LockInv
<1>2. \A s \in Requests : Answered(pc[s]) => Closed(pc[s])
  BY DEF Answered, Closed
<1>3. \A s \in Requests : Closed(pc[s]) => mine'[s] = mine[s]
  OBVIOUS
<1>4. mine' = [s \in Requests |-> mine'[s]] /\ merged' = [s \in Requests |-> merged'[s]]
  BY DEF PublishInv
<1>5. ASSUME NEW s \in Requests
      PROVE  /\ merged'[s] # <<>> => Closed(pc'[s])
             /\ pc'[s] \in {"publishSeq", "publishReply"} => reply'[mySeq'[s]] = NoBatch
             /\ pc'[s] = "publishEpoch" => reply'[mySeq'[s]] = s
             /\ pc'[s] \in {"unlock", "sendExit"} \/ (pc'[s] = "returned" /\ merged'[s] # <<>>) => Readable(s)'
  <2>1. CASE s # r
    BY <1>1, <1>3, <2>1 DEF PublishInv, Readable
  <2>2. CASE s = r
    <3>1. p = "sendExit" \/ (p = "returned" /\ merged[r] # <<>>) => Readable(r) /\ mine'[r] = mine[r]
      <4>1. merged[r] # <<>> => Closed(pc[r])
        BY DEF PublishInv
      <4>2. p = "sendExit" \/ (p = "returned" /\ merged[r] # <<>>) => pc[r] \in {"unlock", "sendExit"}
        BY <4>1
      <4> QED
        BY <4>2 DEF PublishInv, Closed
    <3>2. merged[r] # <<>> => Closed(p)
      BY DEF PublishInv
    <3>3. p = "publishReply" => reply[mySeq[r]] = NoBatch /\ mySeq'[r] = mySeq[r]
      BY DEF PublishInv
    <3> QED
      BY <1>1, <2>2, <3>1, <3>2, <3>3 DEF Readable
  <2> QED
    BY <2>1, <2>2
<1>6. \A n \in 1 .. seq : reply[n] # NoBatch => Answered(pc'[reply[n]])
  <2>1. \A n \in 1 .. seq : reply[n] \in Requests \union {NoBatch}
    BY DEF NumberInv
  <2> QED
    BY <1>1, <2>1 DEF PublishInv
<1>7. \A n \in DOMAIN repEpoch' :
          n \in 1 .. seq' /\ reply'[n] # NoBatch /\ repEpoch'[n] = mine'[reply'[n]]
  <2> SUFFICES ASSUME NEW n \in DOMAIN repEpoch
               PROVE  n \in 1 .. seq /\ reply[n] # NoBatch /\ repEpoch[n] = mine'[reply[n]]
    OBVIOUS
  <2>1. n \in 1 .. seq /\ reply[n] # NoBatch /\ repEpoch[n] = mine[reply[n]] /\ Answered(pc[reply[n]])
    BY DEF PublishInv
  <2>2. reply[n] \in Requests
    BY <2>1 DEF NumberInv
  <2> QED
    BY <2>1, <2>2, <1>2, <1>3
<1> QED
  BY <1>4, <1>5, <1>6, <1>7 DEF PublishInv

\* A holder publishes under a number of its own, and every other number keeps its reply.
LEMMA PublishNext ==
    ASSUME RemoteConstants, LockInv, NumberInv, PublishInv, [Next]_vars
    PROVE  PublishInv'
<1> USE DEF Goes, local, store
<1>1. ASSUME NEW r \in Requests, TakeLock(r) PROVE PublishInv'
  BY <1>1, QuietStep DEF TakeLock, SetNX, OpenBatch, LockInv, PublishInv, Closed, Answered
<1>2. ASSUME NEW r \in Requests, LockHeld(r) PROVE PublishInv'
  BY <1>2, QuietStep DEF LockHeld, SetNX, LockInv, PublishInv, Closed, Answered
<1>3. ASSUME NEW r \in Requests, ReadSeq(r) PROVE PublishInv'
  BY <1>3, QuietStep DEF ReadSeq, LockInv, PublishInv, Closed, Answered
<1>4. ASSUME NEW r \in Requests, PushOwn(r) PROVE PublishInv'
  BY <1>4, QuietStep DEF PushOwn, LockInv, PublishInv, Closed, Answered
<1>5. ASSUME NEW r \in Requests, PollSeq(r) PROVE PublishInv'
  <2>1. PICK p \in {"readReply", "checkLock"} : pc' = [pc EXCEPT ![r] = p]
    BY <1>5 DEF PollSeq
  <2>2. pc[r] = "polling" /\ UNCHANGED <<seq, reply, repEpoch, merged, mine>>
    BY <1>5 DEF PollSeq
  <2>3. \A s \in Requests \ {r} : mySeq'[s] = mySeq[s]
    BY <1>5 DEF PollSeq, NumberInv
  <2>4. mine' = [s \in Requests |-> mine'[s]]
    BY <2>2 DEF PublishInv
  <2> QED
    BY <2>1, <2>2, <2>3, <2>4, QuietStep DEF Closed, Answered
<1>6. ASSUME NEW r \in Requests, ReadReply(r) PROVE PublishInv'
  <2>1. PICK p \in {"readEpoch", "checkLock"} : pc' = [pc EXCEPT ![r] = p]
    BY <1>6 DEF ReadReply
  <2>2. pc[r] = "readReply" /\ UNCHANGED <<seq, reply, repEpoch, merged, mine>>
    BY <1>6 DEF ReadReply
  <2>3. \A s \in Requests \ {r} : mySeq'[s] = mySeq[s]
    BY <1>6 DEF ReadReply, NumberInv
  <2>4. mine' = [s \in Requests |-> mine'[s]]
    BY <2>2 DEF PublishInv
  <2> QED
    BY <2>1, <2>2, <2>3, <2>4, QuietStep DEF Closed, Answered
<1>7. ASSUME NEW r \in Requests, ReadEpoch(r) PROVE PublishInv'
  BY <1>7, QuietStep DEF ReadEpoch, LockInv, PublishInv, Closed, Answered
<1>8. ASSUME NEW r \in Requests, CheckList(r) PROVE PublishInv'
  <2>1. PICK p \in {"checkLock", "claim"} : pc' = [pc EXCEPT ![r] = p]
    BY <1>8 DEF CheckList
  <2>2. pc[r] = "checkList" /\ UNCHANGED <<seq, reply, repEpoch, merged, mine>>
    BY <1>8 DEF CheckList
  <2>3. \A s \in Requests \ {r} : mySeq'[s] = mySeq[s]
    BY <1>8 DEF CheckList, NumberInv
  <2>4. mine' = [s \in Requests |-> mine'[s]]
    BY <2>2 DEF PublishInv
  <2> QED
    BY <2>1, <2>2, <2>3, <2>4, QuietStep DEF Closed, Answered
<1>9. ASSUME NEW r \in Requests, CheckLock(r) PROVE PublishInv'
  BY <1>9, QuietStep DEF CheckLock, LockInv, PublishInv, Closed, Answered
<1>10. ASSUME NEW r \in Requests, Grab(r) PROVE PublishInv'
  <2>1. PICK p \in {"drain", "polling"} : pc' = [pc EXCEPT ![r] = p]
    BY <1>10 DEF Grab
  <2>2. /\ pc[r] = "grab"
        /\ lock' = lock \/ (lock = NoBatch /\ lock' = r)
        /\ UNCHANGED <<seq, reply, repEpoch, merged, mine, mySeq, trouble>>
    BY <1>10 DEF Grab, SetNX
  <2> QED
    BY <2>1, <2>2, QuietStep DEF LockInv, PublishInv, Closed, Answered
<1>11. ASSUME NEW r \in Requests, TakeoverDrain(r) PROVE PublishInv'
  BY <1>11, QuietStep DEF TakeoverDrain, Drain, LockInv, PublishInv, Closed, Answered
<1>12. ASSUME NEW r \in Requests, TakeoverOpen(r) PROVE PublishInv'
  BY <1>12, QuietStep DEF TakeoverOpen, OpenBatch, LockInv, PublishInv, Closed, Answered
<1>13. ASSUME NEW r \in Requests, ClaimAndDeliver(r) PROVE PublishInv'
  BY <1>13, QuietStep DEF ClaimAndDeliver, MayDeliver, ClaimKey, LockInv, PublishInv, Closed, Answered
<1>14. ASSUME NEW r \in Requests, WindowEnds(r) PROVE PublishInv'
  BY <1>14, QuietStep DEF WindowEnds, Drain, LockInv, PublishInv, Closed, Answered
<1>15. ASSUME NEW r \in Requests, Collect(r) PROVE PublishInv'
  <2>1. \A s \in Requests : pc'[s] = IF s = r THEN "generate" ELSE pc[s]
    BY <1>15 DEF Collect, LockInv
  <2>2. merged' = [s \in Requests |-> merged'[s]] /\ \A s \in Requests \ {r} : merged'[s] = merged[s]
    BY <1>15 DEF Collect, PublishInv
  <2>3. pc[r] = "absorb" /\ UNCHANGED <<mine, mySeq, seq, reply, repEpoch>>
    BY <1>15 DEF Collect
  <2>4. \A n \in 1 .. seq : reply[n] # NoBatch => Answered(pc'[reply[n]])
    BY <2>1, <2>3 DEF NumberInv, PublishInv, Answered
  <2>5. ASSUME NEW s \in Requests
        PROVE  /\ merged'[s] # <<>> => Closed(pc'[s])
               /\ pc'[s] \in {"publishSeq", "publishReply"} => reply[mySeq[s]] = NoBatch
               /\ pc'[s] = "publishEpoch" => reply[mySeq[s]] = s
               /\ pc'[s] \in {"unlock", "sendExit"} \/ (pc'[s] = "returned" /\ merged'[s] # <<>>) => Readable(s)
    BY <2>1, <2>2 DEF PublishInv, Closed
  <2> QED
    BY <2>2, <2>3, <2>4, <2>5 DEF PublishInv, Readable
<1>16. ASSUME NEW r \in Requests, AnswerWeb(r) PROVE PublishInv'
  BY <1>16, QuietStep DEF AnswerWeb, LockInv, PublishInv, Closed, Answered
<1>17. ASSUME NEW r \in Requests, SendExitText(r) PROVE PublishInv'
  BY <1>17, QuietStep DEF SendExitText, LockInv, PublishInv, Closed, Answered
<1>28. ASSUME NEW r \in Requests, RouteToHuman(r) PROVE PublishInv'
  BY <1>28, QuietStep DEF RouteToHuman, LockInv, PublishInv, Closed, Answered
<1>18. ASSUME NEW r \in Requests, ClaimAndAnswer(r) PROVE PublishInv'
  BY <1>18, QuietStep DEF ClaimAndAnswer, MayDeliver, ClaimKey, LockInv, PublishInv, Closed, Answered
<1>19. ASSUME NEW r \in Requests, Release(r) PROVE PublishInv'
  <2>1. /\ pc[r] = "release" /\ \A s \in Requests : pc'[s] = IF s = r THEN "publishSeq" ELSE pc[s]
        /\ mySeq' = [mySeq EXCEPT ![r] = seq + 1] /\ UNCHANGED <<mine, merged, repEpoch>>
    BY <1>19 DEF Release, NextSeq, LockInv
  <2>2. /\ \A n \in 1 .. seq : reply'[n] = reply[n]
        /\ reply'[seq + 1] = NoBatch /\ seq \in Nat /\ seq' = seq + 1
    <3>1. reply \in Seq(Requests \union {NoBatch}) /\ seq = Len(reply) /\ seq \in Nat
      BY DEF NumberInv
    <3>2. reply' = Append(reply, NoBatch) /\ seq' = seq + 1
      BY <1>19 DEF Release, NextSeq
    <3> QED
      BY <3>1, <3>2, AppendProperties
  <2>3. \A n \in 1 .. seq' : reply'[n] # NoBatch => Answered(pc'[reply'[n]])
    <3> SUFFICES ASSUME NEW n \in 1 .. seq, reply[n] # NoBatch PROVE Answered(pc'[reply[n]])
      BY <2>2
    <3>1. reply[n] \in Requests /\ Answered(pc[reply[n]])
      BY DEF NumberInv, PublishInv
    <3> QED
      BY <2>1, <3>1 DEF Answered
  <2>4. \A n \in DOMAIN repEpoch :
            n \in 1 .. seq' /\ reply'[n] = reply[n] /\ reply[n] # NoBatch /\ repEpoch[n] = mine[reply[n]]
    <3> SUFFICES ASSUME NEW n \in DOMAIN repEpoch
                 PROVE  n \in 1 .. seq' /\ reply'[n] = reply[n] /\ reply[n] # NoBatch
                        /\ repEpoch[n] = mine[reply[n]]
      OBVIOUS
    <3>1. n \in 1 .. seq /\ reply[n] # NoBatch /\ repEpoch[n] = mine[reply[n]]
      BY DEF PublishInv
    <3> QED
      BY <2>2, <3>1
  <2>5. ASSUME NEW s \in Requests
        PROVE  /\ merged[s] # <<>> => Closed(pc'[s])
               /\ pc'[s] \in {"publishSeq", "publishReply"} => reply'[mySeq'[s]] = NoBatch
               /\ pc'[s] = "publishEpoch" => reply'[mySeq'[s]] = s
               /\ pc'[s] \in {"unlock", "sendExit"} \/ (pc'[s] = "returned" /\ merged[s] # <<>>) =>
                    \E n \in DOMAIN repEpoch : reply'[n] = s /\ repEpoch[n] = mine[s]
    <3>1. CASE s = r
      <4>1. mySeq'[r] = seq + 1 /\ pc'[r] = "publishSeq"
        BY <2>1 DEF NumberInv
      <4> QED
        BY <2>2, <3>1, <4>1 DEF Closed
    <3>2. CASE s # r
      <4>1. pc'[s] = pc[s] /\ mySeq'[s] = mySeq[s]
        BY <2>1, <3>2 DEF NumberInv
      <4>2. pc[s] \notin {"publishSeq", "publishReply", "publishEpoch"}
        BY <2>1, <3>2 DEF LockInv, Holders
      <4>3. Readable(s) => \E n \in DOMAIN repEpoch : reply'[n] = s /\ repEpoch[n] = mine[s]
        BY <2>4 DEF Readable
      <4>4. /\ merged[s] # <<>> => Closed(pc[s])
            /\ pc[s] \in {"unlock", "sendExit"} \/ (pc[s] = "returned" /\ merged[s] # <<>>) => Readable(s)
        BY DEF PublishInv
      <4> QED
        BY <4>1, <4>2, <4>3, <4>4
    <3> QED
      BY <3>1, <3>2
  <2>6. \A n \in DOMAIN repEpoch' :
            n \in 1 .. seq' /\ reply'[n] # NoBatch /\ repEpoch'[n] = mine'[reply'[n]]
    BY <2>1, <2>4
  <2> QED
    BY <2>1, <2>3, <2>5, <2>6 DEF PublishInv, Readable
<1>20. ASSUME NEW r \in Requests, PublishSeq(r) PROVE PublishInv'
  BY <1>20, QuietStep DEF PublishSeq, LockInv, PublishInv, Closed, Answered
<1>21. ASSUME NEW r \in Requests, PublishReply(r) PROVE PublishInv'
  <2>1. /\ pc[r] = "publishReply" /\ \A s \in Requests : pc'[s] = IF s = r THEN "publishEpoch" ELSE pc[s]
        /\ reply' = [reply EXCEPT ![mySeq[r]] = r] /\ UNCHANGED <<mine, mySeq, seq, merged, repEpoch>>
    BY <1>21 DEF PublishReply, LockInv
  <2>2. mySeq[r] \in 1 .. seq /\ reply[mySeq[r]] = NoBatch
    BY <2>1 DEF NumberInv, PublishInv
  <2>3. \A n \in 1 .. seq : reply'[n] = IF n = mySeq[r] THEN r ELSE reply[n]
    BY <2>1, <2>2 DEF NumberInv
  <2>4. \A n \in 1 .. seq : reply'[n] # NoBatch => Answered(pc'[reply'[n]])
    <3> SUFFICES ASSUME NEW n \in 1 .. seq, n # mySeq[r], reply[n] # NoBatch
                 PROVE  Answered(pc'[reply[n]])
      BY <2>1, <2>3 DEF Answered
    <3>1. reply[n] \in Requests /\ Answered(pc[reply[n]])
      BY DEF NumberInv, PublishInv
    <3> QED
      BY <2>1, <3>1 DEF Answered
  <2>5. \A n \in DOMAIN repEpoch : reply'[n] = reply[n]
    BY <2>2, <2>3 DEF PublishInv
  <2>6. ASSUME NEW s \in Requests
        PROVE  /\ merged[s] # <<>> => Closed(pc'[s])
               /\ pc'[s] \in {"publishSeq", "publishReply"} => reply'[mySeq[s]] = NoBatch
               /\ pc'[s] = "publishEpoch" => reply'[mySeq[s]] = s
               /\ pc'[s] \in {"unlock", "sendExit"} \/ (pc'[s] = "returned" /\ merged[s] # <<>>) =>
                    \E n \in DOMAIN repEpoch : reply'[n] = s /\ repEpoch[n] = mine[s]
    <3>1. CASE s = r
      BY <2>1, <2>2, <2>3, <3>1 DEF Closed
    <3>2. CASE s # r
      <4>1. pc[s] \notin {"publishSeq", "publishReply", "publishEpoch"}
        BY <2>1, <3>2 DEF LockInv, Holders
      <4> QED
        BY <2>1, <2>5, <3>2, <4>1 DEF PublishInv, Readable
    <3> QED
      BY <3>1, <3>2
  <2>7. \A n \in DOMAIN repEpoch :
            n \in 1 .. seq /\ reply'[n] # NoBatch /\ repEpoch[n] = mine[reply'[n]]
    BY <2>5 DEF PublishInv
  <2> QED
    BY <2>1, <2>4, <2>6, <2>7 DEF PublishInv, Readable
<1>22. ASSUME NEW r \in Requests, PublishEpoch(r) PROVE PublishInv'
  <2>1. /\ pc[r] = "publishEpoch" /\ \A s \in Requests : pc'[s] = IF s = r THEN "unlock" ELSE pc[s]
        /\ UNCHANGED <<mine, mySeq, seq, merged, reply>>
    BY <1>22 DEF PublishEpoch, LockInv
  <2>2. /\ DOMAIN repEpoch' = DOMAIN repEpoch \union {mySeq[r]}
        /\ repEpoch'[mySeq[r]] = mine[r]
        /\ \A n \in DOMAIN repEpoch : n # mySeq[r] => repEpoch'[n] = repEpoch[n]
    BY <1>22 DEF PublishEpoch
  <2>3. mySeq[r] \in 1 .. seq /\ reply[mySeq[r]] = r
    BY <2>1 DEF NumberInv, PublishInv
  <2>4. \A n \in 1 .. seq : reply[n] # NoBatch => Answered(pc'[reply[n]])
    BY <2>1 DEF NumberInv, PublishInv, Answered
  <2>5. \A n \in DOMAIN repEpoch' :
            n \in 1 .. seq /\ reply[n] # NoBatch /\ repEpoch'[n] = mine[reply[n]]
    BY <2>2, <2>3 DEF PublishInv, RemoteConstants
  <2>6. ASSUME NEW s \in Requests
        PROVE  /\ merged[s] # <<>> => Closed(pc'[s])
               /\ pc'[s] \in {"publishSeq", "publishReply"} => reply[mySeq[s]] = NoBatch
               /\ pc'[s] = "publishEpoch" => reply[mySeq[s]] = s
               /\ pc'[s] \in {"unlock", "sendExit"} \/ (pc'[s] = "returned" /\ merged[s] # <<>>) =>
                    \E n \in DOMAIN repEpoch' : reply[n] = s /\ repEpoch'[n] = mine[s]
    <3>1. CASE s = r
      BY <2>1, <2>2, <2>3, <3>1 DEF Closed
    <3>2. CASE s # r
      BY <2>1, <2>2, <2>3, <3>2 DEF PublishInv, Readable
    <3> QED
      BY <3>1, <3>2
  <2> QED
    BY <2>1, <2>4, <2>5, <2>6 DEF PublishInv, Readable
<1>23. ASSUME NEW r \in Requests, Unlock(r) PROVE PublishInv'
  <2>1. PICK p \in {"sendExit", "returned"} : pc' = [pc EXCEPT ![r] = p]
    BY <1>23 DEF Unlock
  <2> QED
    BY <1>23, <2>1, QuietStep DEF Unlock, LockInv, PublishInv, Closed, Answered
<1>24. ASSUME NEW i \in Instances, Crash(i) PROVE PublishInv'
  <2>1. /\ \A s \in Requests : pc'[s] = pc[s] \/ pc'[s] = "dead"
        /\ UNCHANGED <<mine, mySeq, seq, merged, reply, repEpoch>>
    BY <1>24 DEF Crash
  <2>2. \A n \in 1 .. seq : reply[n] # NoBatch => Answered(pc'[reply[n]])
    <3> SUFFICES ASSUME NEW n \in 1 .. seq, reply[n] # NoBatch PROVE Answered(pc'[reply[n]])
      OBVIOUS
    <3>1. reply[n] \in Requests /\ Answered(pc[reply[n]])
      BY DEF NumberInv, PublishInv
    <3> QED
      BY <2>1, <3>1 DEF Answered
  <2>3. ASSUME NEW s \in Requests
        PROVE  /\ merged[s] # <<>> => Closed(pc'[s])
               /\ pc'[s] \in {"publishSeq", "publishReply"} => reply[mySeq[s]] = NoBatch
               /\ pc'[s] = "publishEpoch" => reply[mySeq[s]] = s
               /\ pc'[s] \in {"unlock", "sendExit"} \/ (pc'[s] = "returned" /\ merged[s] # <<>>) =>
                    Readable(s)
    <3>1. CASE pc'[s] = pc[s]
      BY <3>1 DEF PublishInv
    <3>2. CASE pc'[s] = "dead"
      BY <3>2 DEF Closed
    <3> QED
      BY <2>1, <3>1, <3>2
  <2> QED
    BY <2>1, <2>2, <2>3 DEF PublishInv, Readable
<1>25. ASSUME NEW i \in Instances, SweepIdleQueue(i) PROVE PublishInv'
  BY <1>25 DEF SweepIdleQueue, PublishInv, Readable
<1>26. CASE LockExpires
  BY <1>26 DEF LockExpires, PublishInv, Readable
<1>27. CASE UNCHANGED vars
  BY <1>27 DEF vars, PublishInv, Readable
<1> QED
  BY <1>1, <1>2, <1>3, <1>4, <1>5, <1>6, <1>7, <1>8, <1>9, <1>10, <1>11, <1>12, <1>13,
     <1>14, <1>15, <1>16, <1>17, <1>18, <1>19, <1>20, <1>21, <1>22, <1>23, <1>24, <1>25,
     <1>26, <1>27, <1>28
  DEF Next, Wait, Hold, Idle

----------------------------------------------------------------------------
\* A step of r that leaves the published replies alone, and that disturbs no reader
\* but perhaps r.
LEMMA ReaderStep ==
    ASSUME LockInv, NumberInv, ReadInv, NEW r \in Requests, NEW p,
           pc' = [pc EXCEPT ![r] = p],
           \A s \in Requests \ {r} : got'[s] = got[s] /\ mine'[s] = mine[s] /\ mySeq'[s] = mySeq[s],
           \A n \in 1 .. seq : reply[n] # NoBatch => reply'[n] = reply[n],
           got' = [s \in Requests |-> got'[s]], mine' = [s \in Requests |-> mine'[s]],
           Answered(pc[r]) => Answered(p) /\ mine'[r] = mine[r],
           Reads(r)'
    PROVE  ReadInv'
<1>1. \A s \in Requests : pc'[s] = IF s = r THEN p ELSE pc[s]
  BY DEF LockInv
<1>2. ASSUME NEW s \in Requests, s # r PROVE Reads(s)'
  <2>1. pc'[s] = pc[s] /\ got'[s] = got[s] /\ mine'[s] = mine[s] /\ mySeq'[s] = mySeq[s] /\ Reads(s)
    BY <1>1, <1>2 DEF ReadInv
  <2>2. pc[s] = "readEpoch" => mySeq[s] \in 1 .. seq
    BY DEF NumberInv
  <2>3. \A q \in Requests : Answered(pc[q]) => Answered(pc'[q]) /\ mine'[q] = mine[q]
    BY <1>1
  <2> QED
    BY <2>1, <2>2, <2>3 DEF Reads
<1> QED
  BY <1>2 DEF ReadInv

\* A step of r that delivers nothing.
LEMMA SilentStep ==
    ASSUME LockInv, DeliverInv, NEW r \in Requests, NEW p,
           pc' = [pc EXCEPT ![r] = p],
           UNCHANGED delivered, trouble \subseteq trouble', claims \subseteq claims',
           \A s \in Requests \ {r} : got'[s] = got[s] /\ mine'[s] = mine[s],
           pc[r] # "returned",
           Claimed(pc[r]) => Claimed(p) /\ mine'[r] = mine[r]
    PROVE  DeliverInv'
<1>1. \A s \in Requests : pc'[s] = IF s = r THEN p ELSE pc[s]
  BY DEF LockInv
<1>2. ASSUME NEW s \in Requests, Delivers(s) PROVE Delivers(s)'
  <2>1. ZeroReader(s) => ZeroReader(s)'
    BY <1>1 DEF ZeroReader
  <2>2. Claimed(pc[s]) => Claimed(pc'[s]) /\ mine'[s] = mine[s]
    BY <1>1
  <2> QED
    BY <1>2, <2>1, <2>2 DEF Delivers
<1> QED
  BY <1>2 DEF DeliverInv

\* The readers: a reply stays what it was, and its author keeps his epoch.
LEMMA ReadNext ==
    ASSUME RemoteConstants, LockInv, NumberInv, PublishInv, ReadInv, [Next]_vars
    PROVE  ReadInv'
<1> USE DEF Goes, local, store
<1>1. ASSUME NEW r \in Requests, TakeLock(r) PROVE ReadInv'
  BY <1>1, ReaderStep DEF TakeLock, SetNX, OpenBatch, LockInv, ReadInv, Reads, Answered
<1>2. ASSUME NEW r \in Requests, LockHeld(r) PROVE ReadInv'
  BY <1>2, ReaderStep DEF LockHeld, SetNX, LockInv, ReadInv, Reads, Answered
<1>3. ASSUME NEW r \in Requests, ReadSeq(r) PROVE ReadInv'
  BY <1>3, ReaderStep DEF ReadSeq, LockInv, ReadInv, Reads, Answered
<1>4. ASSUME NEW r \in Requests, PushOwn(r) PROVE ReadInv'
  BY <1>4, ReaderStep DEF PushOwn, LockInv, ReadInv, Reads, Answered
<1>5. ASSUME NEW r \in Requests, PollSeq(r) PROVE ReadInv'
  <2>1. PICK p \in {"readReply", "checkLock"} : pc' = [pc EXCEPT ![r] = p]
    BY <1>5 DEF PollSeq
  <2>2. pc[r] = "polling" /\ UNCHANGED <<reply, mine, got>>
    BY <1>5 DEF PollSeq
  <2>3. \A s \in Requests \ {r} : mySeq'[s] = mySeq[s]
    BY <1>5 DEF PollSeq, NumberInv
  <2>4. Reads(r)'
    BY <2>1 DEF LockInv, Reads
  <2> QED
    BY <2>1, <2>2, <2>3, <2>4, ReaderStep DEF ReadInv, Answered
<1>6. ASSUME NEW r \in Requests, ReadReply(r) PROVE ReadInv'
  BY <1>6, ReaderStep DEF ReadReply, LockInv, ReadInv, Reads, Answered
<1>7. ASSUME NEW r \in Requests, ReadEpoch(r) PROVE ReadInv'
  <2>1. pc[r] = "readEpoch" /\ pc' = [pc EXCEPT ![r] = "checkList"] /\ UNCHANGED <<reply, got, mySeq>>
    BY <1>7 DEF ReadEpoch
  <2>2. got[r] = reply[mySeq[r]] /\ got[r] # NoBatch /\ mySeq[r] \in 1 .. seq
    BY <2>1 DEF ReadInv, Reads, NumberInv
  <2>3. got[r] \in Requests /\ Answered(pc[got[r]]) /\ got[r] # r
    BY <2>1, <2>2 DEF NumberInv, PublishInv, Answered
  <2>4. mine' = [mine EXCEPT ![r] = IF mySeq[r] \in DOMAIN repEpoch THEN repEpoch[mySeq[r]] ELSE 0]
    BY <1>7 DEF ReadEpoch
  <2>5. mySeq[r] \in DOMAIN repEpoch => repEpoch[mySeq[r]] = mine[got[r]]
    BY <2>2 DEF PublishInv
  <2>6. mine'[r] \in {0, mine[got[r]]} /\ \A s \in Requests \ {r} : mine'[s] = mine[s]
    BY <2>4, <2>5 DEF ReadInv
  <2>7. mine' = [s \in Requests |-> mine'[s]]
    BY <2>4 DEF ReadInv
  <2>8. Reads(r)'
    BY <2>1, <2>3, <2>6 DEF LockInv, Reads
  <2> QED
    BY <2>1, <2>6, <2>7, <2>8, ReaderStep DEF ReadInv, Answered
<1>8. ASSUME NEW r \in Requests, CheckList(r) PROVE ReadInv'
  BY <1>8, ReaderStep DEF CheckList, LockInv, ReadInv, Reads, Answered
<1>9. ASSUME NEW r \in Requests, CheckLock(r) PROVE ReadInv'
  BY <1>9, ReaderStep DEF CheckLock, LockInv, ReadInv, Reads, Answered
<1>10. ASSUME NEW r \in Requests, Grab(r) PROVE ReadInv'
  BY <1>10, ReaderStep DEF Grab, SetNX, LockInv, ReadInv, Reads, Answered
<1>11. ASSUME NEW r \in Requests, TakeoverDrain(r) PROVE ReadInv'
  BY <1>11, ReaderStep DEF TakeoverDrain, Drain, LockInv, ReadInv, Reads, Answered
<1>12. ASSUME NEW r \in Requests, TakeoverOpen(r) PROVE ReadInv'
  BY <1>12, ReaderStep DEF TakeoverOpen, OpenBatch, LockInv, ReadInv, Reads, Answered
<1>13. ASSUME NEW r \in Requests, ClaimAndDeliver(r) PROVE ReadInv'
  BY <1>13, ReaderStep DEF ClaimAndDeliver, MayDeliver, ClaimKey, LockInv, ReadInv, Reads, Answered
<1>14. ASSUME NEW r \in Requests, WindowEnds(r) PROVE ReadInv'
  BY <1>14, ReaderStep DEF WindowEnds, Drain, LockInv, ReadInv, Reads, Answered
<1>15. ASSUME NEW r \in Requests, Collect(r) PROVE ReadInv'
  BY <1>15, ReaderStep DEF Collect, LockInv, ReadInv, Reads, Answered
<1>16. ASSUME NEW r \in Requests, AnswerWeb(r) PROVE ReadInv'
  BY <1>16, ReaderStep DEF AnswerWeb, LockInv, ReadInv, Reads, Answered
<1>17. ASSUME NEW r \in Requests, SendExitText(r) PROVE ReadInv'
  BY <1>17, ReaderStep DEF SendExitText, LockInv, ReadInv, Reads, Answered
<1>28. ASSUME NEW r \in Requests, RouteToHuman(r) PROVE ReadInv'
  BY <1>28, ReaderStep DEF RouteToHuman, LockInv, ReadInv, Reads, Answered
<1>18. ASSUME NEW r \in Requests, ClaimAndAnswer(r) PROVE ReadInv'
  BY <1>18, ReaderStep DEF ClaimAndAnswer, MayDeliver, ClaimKey, LockInv, ReadInv, Reads, Answered
<1>19. ASSUME NEW r \in Requests, Release(r) PROVE ReadInv'
  <2>1. /\ pc[r] = "release" /\ pc' = [pc EXCEPT ![r] = "publishSeq"] /\ UNCHANGED mine
        /\ got' = [got EXCEPT ![r] = r] /\ mySeq' = [mySeq EXCEPT ![r] = seq + 1]
    BY <1>19 DEF Release, NextSeq
  <2>2. \A n \in 1 .. seq : reply'[n] = reply[n]
    <3>1. reply \in Seq(Requests \union {NoBatch}) /\ seq = Len(reply)
      BY DEF NumberInv
    <3>2. reply' = Append(reply, NoBatch)
      BY <1>19 DEF Release
    <3> QED
      BY <3>1, <3>2, AppendProperties
  <2>3. \A s \in Requests \ {r} : got'[s] = got[s] /\ mySeq'[s] = mySeq[s]
    BY <2>1 DEF ReadInv, NumberInv
  <2>4. Reads(r)' /\ got' = [s \in Requests |-> got'[s]]
    BY <2>1 DEF LockInv, Reads, ReadInv
  <2> QED
    BY <2>1, <2>2, <2>3, <2>4, ReaderStep DEF ReadInv, Answered
<1>20. ASSUME NEW r \in Requests, PublishSeq(r) PROVE ReadInv'
  BY <1>20, ReaderStep DEF PublishSeq, LockInv, ReadInv, Reads, Answered
<1>21. ASSUME NEW r \in Requests, PublishReply(r) PROVE ReadInv'
  <2>1. /\ pc[r] = "publishReply" /\ pc' = [pc EXCEPT ![r] = "publishEpoch"]
        /\ reply' = [reply EXCEPT ![mySeq[r]] = r] /\ UNCHANGED <<mine, got, mySeq>>
    BY <1>21 DEF PublishReply
  <2>2. reply[mySeq[r]] = NoBatch
    BY <2>1 DEF PublishInv
  <2>3. \A n \in 1 .. seq : reply[n] # NoBatch => reply'[n] = reply[n]
    BY <2>1, <2>2 DEF NumberInv
  <2>4. Reads(r)'
    BY <2>1 DEF LockInv, Reads
  <2> QED
    BY <2>1, <2>3, <2>4, ReaderStep DEF ReadInv, Answered
<1>22. ASSUME NEW r \in Requests, PublishEpoch(r) PROVE ReadInv'
  BY <1>22, ReaderStep DEF PublishEpoch, LockInv, ReadInv, Reads, Answered
<1>23. ASSUME NEW r \in Requests, Unlock(r) PROVE ReadInv'
  BY <1>23, ReaderStep DEF Unlock, LockInv, ReadInv, Reads, Answered
<1>24. ASSUME NEW i \in Instances, Crash(i) PROVE ReadInv'
  <2>1. \A s \in Requests : pc'[s] \in {pc[s], "dead"}
    BY <1>24 DEF Crash
  <2> QED
    BY <1>24, <2>1 DEF Crash, ReadInv, Reads, Answered
<1>25. ASSUME NEW i \in Instances, SweepIdleQueue(i) PROVE ReadInv'
  BY <1>25 DEF SweepIdleQueue, ReadInv, Reads
<1>26. CASE LockExpires
  BY <1>26 DEF LockExpires, ReadInv, Reads
<1>27. CASE UNCHANGED vars
  BY <1>27 DEF vars, ReadInv, Reads
<1> QED
  BY <1>1, <1>2, <1>3, <1>4, <1>5, <1>6, <1>7, <1>8, <1>9, <1>10, <1>11, <1>12, <1>13,
     <1>14, <1>15, <1>16, <1>17, <1>18, <1>19, <1>20, <1>21, <1>22, <1>23, <1>24, <1>25,
     <1>26, <1>27, <1>28
  DEF Next, Wait, Hold, Idle

\* The deliveries: one claim per epoch, and the first to claim it delivers.
LEMMA DeliverNext ==
    ASSUME RemoteConstants, LockInv, ReadInv, DeliverInv, [Next]_vars
    PROVE  DeliverInv'
<1> USE DEF Goes, local, store
<1>1. ASSUME NEW r \in Requests, TakeLock(r) PROVE DeliverInv'
  BY <1>1, SilentStep DEF TakeLock, SetNX, OpenBatch, LockInv, DeliverInv, ReadInv, Claimed
<1>2. ASSUME NEW r \in Requests, LockHeld(r) PROVE DeliverInv'
  BY <1>2, SilentStep DEF LockHeld, SetNX, LockInv, DeliverInv, ReadInv, Claimed
<1>3. ASSUME NEW r \in Requests, ReadSeq(r) PROVE DeliverInv'
  BY <1>3, SilentStep DEF ReadSeq, LockInv, DeliverInv, ReadInv, Claimed
<1>4. ASSUME NEW r \in Requests, PushOwn(r) PROVE DeliverInv'
  BY <1>4, SilentStep DEF PushOwn, LockInv, DeliverInv, ReadInv, Claimed
<1>5. ASSUME NEW r \in Requests, PollSeq(r) PROVE DeliverInv'
  BY <1>5, SilentStep DEF PollSeq, LockInv, DeliverInv, ReadInv, Claimed
<1>6. ASSUME NEW r \in Requests, ReadReply(r) PROVE DeliverInv'
  BY <1>6, SilentStep DEF ReadReply, LockInv, DeliverInv, ReadInv, Claimed
<1>7. ASSUME NEW r \in Requests, ReadEpoch(r) PROVE DeliverInv'
  BY <1>7, SilentStep DEF ReadEpoch, LockInv, DeliverInv, ReadInv, Claimed
<1>8. ASSUME NEW r \in Requests, CheckList(r) PROVE DeliverInv'
  BY <1>8, SilentStep DEF CheckList, LockInv, DeliverInv, ReadInv, Claimed
<1>9. ASSUME NEW r \in Requests, CheckLock(r) PROVE DeliverInv'
  BY <1>9, SilentStep DEF CheckLock, LockInv, DeliverInv, ReadInv, Claimed
<1>10. ASSUME NEW r \in Requests, Grab(r) PROVE DeliverInv'
  BY <1>10, SilentStep DEF Grab, SetNX, LockInv, DeliverInv, ReadInv, Claimed
<1>11. ASSUME NEW r \in Requests, TakeoverDrain(r) PROVE DeliverInv'
  BY <1>11, SilentStep DEF TakeoverDrain, Drain, LockInv, DeliverInv, ReadInv, Claimed
<1>12. ASSUME NEW r \in Requests, TakeoverOpen(r) PROVE DeliverInv'
  BY <1>12, SilentStep DEF TakeoverOpen, OpenBatch, LockInv, DeliverInv, ReadInv, Claimed
<1>13. ASSUME NEW r \in Requests, ClaimAndDeliver(r) PROVE DeliverInv'
  <2>1. /\ pc[r] = "claim" /\ \A s \in Requests : pc'[s] = IF s = r THEN "returned" ELSE pc[s]
        /\ UNCHANGED <<mine, got, trouble>>
    BY <1>13 DEF ClaimAndDeliver, LockInv
  <2>2. got[r] \in Requests /\ Answered(pc[got[r]]) /\ mine[r] \in {0, mine[got[r]]} /\ got[r] # r
    BY <2>1 DEF ReadInv, Reads, Answered
  <2>3. /\ delivered' \in [Requests -> Nat] /\ claims \subseteq claims'
        /\ \A s \in Requests \ {got[r]} : delivered'[s] = delivered[s]
    BY <1>13, <2>2 DEF ClaimAndDeliver, DeliverInv
  <2>4. \/ delivered'[got[r]] = delivered[got[r]]
        \/ delivered'[got[r]] = delivered[got[r]] + 1 /\ mine[r] = 0
        \/ /\ delivered'[got[r]] = delivered[got[r]] + 1
           /\ mine[r] # 0 /\ mine[r] \notin claims /\ mine[r] \in claims'
    BY <1>13, <2>2 DEF ClaimAndDeliver, MayDeliver, ClaimKey, DeliverInv
  <2>5. \A s \in Requests : /\ ZeroReader(s) => ZeroReader(s)'
                            /\ Claimed(pc[s]) => Claimed(pc'[s])
    BY <2>1 DEF ZeroReader, Claimed
  <2>6. mine[r] = 0 => ZeroReader(got[r])'
    BY <2>1, <2>2 DEF ZeroReader
  <2>7. Claimed(pc[got[r]])
    BY <2>2 DEF Answered, Claimed
  <2>8. ASSUME NEW s \in Requests, Delivers(s) PROVE Delivers(s)'
    <3>1. CASE s # got[r]
      BY <2>1, <2>3, <2>5, <2>8, <3>1 DEF Delivers
    <3>2. CASE s = got[r]
      <4>1. delivered[s] \in Nat
        BY DEF DeliverInv
      <4> QED
        BY <2>1, <2>2, <2>3, <2>4, <2>5, <2>6, <2>7, <2>8, <3>2, <4>1 DEF Delivers
    <3> QED
      BY <3>1, <3>2
  <2> QED
    BY <2>1, <2>3, <2>8 DEF DeliverInv
<1>14. ASSUME NEW r \in Requests, WindowEnds(r) PROVE DeliverInv'
  BY <1>14, SilentStep DEF WindowEnds, Drain, LockInv, DeliverInv, ReadInv, Claimed
<1>15. ASSUME NEW r \in Requests, Collect(r) PROVE DeliverInv'
  BY <1>15, SilentStep DEF Collect, LockInv, DeliverInv, ReadInv, Claimed
<1>16. ASSUME NEW r \in Requests, AnswerWeb(r) PROVE DeliverInv'
  BY <1>16, SilentStep DEF AnswerWeb, LockInv, DeliverInv, ReadInv, Claimed
<1>17. ASSUME NEW r \in Requests, SendExitText(r) PROVE DeliverInv'
  <2>1. /\ pc[r] = "sendExit" /\ r \in trouble /\ \A s \in Requests : pc'[s] = IF s = r THEN "returned" ELSE pc[s]
        /\ UNCHANGED <<mine, got, trouble, claims>>
    BY <1>17 DEF SendExitText, LockInv
  <2>2. /\ delivered' \in [Requests -> Nat]
        /\ \A s \in Requests \ {r} : delivered'[s] = delivered[s]
    BY <1>17 DEF SendExitText, DeliverInv
  <2>3. ASSUME NEW s \in Requests \ {r}, Delivers(s) PROVE Delivers(s)'
    <3>1. ZeroReader(s) => ZeroReader(s)'
      BY <2>1 DEF ZeroReader
    <3> QED
      BY <2>1, <2>2, <2>3, <3>1 DEF Delivers
  <2> QED
    BY <2>1, <2>2, <2>3 DEF DeliverInv
<1>28. ASSUME NEW r \in Requests, RouteToHuman(r) PROVE DeliverInv'
  BY <1>28, SilentStep DEF RouteToHuman, LockInv, DeliverInv, ReadInv, Claimed
<1>18. ASSUME NEW r \in Requests, ClaimAndAnswer(r) PROVE DeliverInv'
  <2>1. /\ pc[r] = "generate" /\ \A s \in Requests : pc'[s] = IF s = r THEN "release" ELSE pc[s]
        /\ UNCHANGED <<mine, got, trouble>>
    BY <1>18 DEF ClaimAndAnswer, LockInv
  <2>2. /\ delivered' \in [Requests -> Nat] /\ claims \subseteq claims' /\ mine[r] \in claims'
        /\ \A s \in Requests \ {r} : delivered'[s] = delivered[s]
        /\ delivered'[r] \in {delivered[r], delivered[r] + 1}
    BY <1>18 DEF ClaimAndAnswer, ClaimKey, MayDeliver, DeliverInv
  <2>3. \A s \in Requests : ZeroReader(s) => ZeroReader(s)'
    BY <2>1 DEF ZeroReader
  <2>4. ASSUME NEW s \in Requests, Delivers(s) PROVE Delivers(s)'
    <3>1. CASE s # r
      BY <2>1, <2>2, <2>3, <2>4, <3>1 DEF Delivers
    <3>2. CASE s = r
      <4>1. delivered[s] = 0
        BY <2>1, <2>4, <3>2 DEF Delivers, Claimed, DeliverInv
      <4> QED
        BY <2>1, <2>2, <3>2, <4>1 DEF Delivers, Claimed
    <3> QED
      BY <3>1, <3>2
  <2> QED
    BY <2>1, <2>2, <2>4 DEF DeliverInv
<1>19. ASSUME NEW r \in Requests, Release(r) PROVE DeliverInv'
  BY <1>19, SilentStep DEF Release, NextSeq, LockInv, DeliverInv, ReadInv, Claimed
<1>20. ASSUME NEW r \in Requests, PublishSeq(r) PROVE DeliverInv'
  BY <1>20, SilentStep DEF PublishSeq, LockInv, DeliverInv, ReadInv, Claimed
<1>21. ASSUME NEW r \in Requests, PublishReply(r) PROVE DeliverInv'
  BY <1>21, SilentStep DEF PublishReply, LockInv, DeliverInv, ReadInv, Claimed
<1>22. ASSUME NEW r \in Requests, PublishEpoch(r) PROVE DeliverInv'
  BY <1>22, SilentStep DEF PublishEpoch, LockInv, DeliverInv, ReadInv, Claimed
<1>23. ASSUME NEW r \in Requests, Unlock(r) PROVE DeliverInv'
  BY <1>23, SilentStep DEF Unlock, LockInv, DeliverInv, ReadInv, Claimed
<1>24. ASSUME NEW i \in Instances, Crash(i) PROVE DeliverInv'
  <2>1. \A s \in Requests : pc'[s] = pc[s] \/ (pc'[s] = "dead" /\ pc[s] # "returned")
    BY <1>24 DEF Crash
  <2> QED
    BY <1>24, <2>1 DEF Crash, DeliverInv, Delivers, ZeroReader, Claimed
<1>25. ASSUME NEW i \in Instances, SweepIdleQueue(i) PROVE DeliverInv'
  BY <1>25 DEF SweepIdleQueue, DeliverInv, Delivers, ZeroReader
<1>26. CASE LockExpires
  BY <1>26 DEF LockExpires, DeliverInv, Delivers, ZeroReader
<1>27. CASE UNCHANGED vars
  BY <1>27 DEF vars, DeliverInv, Delivers, ZeroReader
<1> QED
  BY <1>1, <1>2, <1>3, <1>4, <1>5, <1>6, <1>7, <1>8, <1>9, <1>10, <1>11, <1>12, <1>13,
     <1>14, <1>15, <1>16, <1>17, <1>18, <1>19, <1>20, <1>21, <1>22, <1>23, <1>24, <1>25,
     <1>26, <1>27, <1>28
  DEF Next, Wait, Hold, Idle

----------------------------------------------------------------------------
RemoteInv == LockInv /\ NumberInv /\ PublishInv /\ ReadInv /\ DeliverInv

LEMMA RemoteInit == Init => RemoteInv
<1> SUFFICES ASSUME Init PROVE RemoteInv
  OBVIOUS
<1> USE DEF Init
<1>1. LockInv
  BY DEF LockInv, Holders
<1>2. NumberInv
  BY DEF NumberInv
<1>3. PublishInv
  BY DEF PublishInv
<1>4. ReadInv
  BY DEF ReadInv, Reads
<1>5. DeliverInv
  BY DEF DeliverInv, Delivers
<1> QED
  BY <1>1, <1>2, <1>3, <1>4, <1>5 DEF RemoteInv

LEMMA RemoteNext == RemoteConstants /\ RemoteInv /\ [Next]_vars => RemoteInv'
BY LockNext, NumberNext, PublishNext, ReadNext, DeliverNext DEF RemoteInv

LEMMA RemoteAlways == ASSUME RemoteConstants PROVE Spec => []RemoteInv
BY RemoteInit, RemoteNext, PTL DEF Spec

\* One live process at a time answers a customer, whichever dies, takes over or is
\* swept (message_queue.go:894).
THEOREM OneProcessAnswers == ASSUME RemoteConstants PROVE Spec => []OneHolder
<1>1. RemoteInv => OneHolder
  BY DEF RemoteInv, LockInv, OneHolder
<1> QED
  BY <1>1, RemoteAlways, PTL

\* Whoever sees the lock gone can read the reply of every closed batch and its epoch,
\* unless a process died (message_queue.go:1286).
THEOREM RepliesComeFirst == ASSUME RemoteConstants PROVE Spec => []PublishedBeforeUnlock
<1>1. RemoteInv => PublishedBeforeUnlock
  <2> SUFFICES ASSUME RemoteInv, "crash" \notin trouble, lock = NoBatch,
                      NEW s \in Requests, merged[s] # <<>>
               PROVE  Readable(s)
    BY DEF PublishedBeforeUnlock, Readable
  <2>1. s \notin Holders
    BY DEF RemoteInv, LockInv, RemoteConstants
  <2>2. pc[s] \in {"sendExit", "returned"}
    BY <2>1 DEF RemoteInv, LockInv, PublishInv, Closed, Holders
  <2> QED
    BY <2>2 DEF RemoteInv, PublishInv
<1> QED
  BY <1>1, RemoteAlways, PTL

\* A reply goes out once, but for a waiter that found no epoch beside it, and for the
\* exit text (message_queue.go:1292).
THEOREM RepliesGoOutOnce == ASSUME RemoteConstants PROVE Spec => []OnceUnlessNoEpoch
<1>1. RemoteInv => OnceUnlessNoEpoch
  BY DEF RemoteInv, DeliverInv, Delivers, ZeroReader, OnceUnlessNoEpoch
<1> QED
  BY <1>1, RemoteAlways, PTL

----------------------------------------------------------------------------
LEMMA AppendToSet ==
    ASSUME NEW S, NEW s \in Seq(S), NEW x \in S
    PROVE  Append(s, x) \in Seq(S) /\ ToSet(Append(s, x)) = ToSet(s) \union {x}
<1>1. Append(s, x) = s \o <<x>>
  BY AppendIsConcat
<1>2. <<x>> \in Seq(S) /\ ToSet(<<x>>) = {x}
  BY DEF ToSet
<1>. DEFINE u == <<x>>
<1>3. u \in Seq(S) /\ ToSet(u) = {x} /\ Append(s, x) = s \o u
  BY <1>1, <1>2
<1>. HIDE DEF u
<1>4. s \o u \in Seq(S) /\ ToSet(s \o u) = ToSet(s) \union ToSet(u)
  BY <1>3, ConcatToSet
<1>. QED
  BY <1>3, <1>4

\* Where a message that was handed over may be.
Somewhere(x) == InList(x) \/ InHand(x) \/ \E s \in Requests : InBatch(x, s)

Over(p) ==
    p \in {"polling", "readReply", "readEpoch", "checkList", "checkLock", "grab", "drain", "putBack",
           "claim"}

Kept ==
    /\ ListInv
    /\ "crash" \notin trouble => \A x \in Requests : Over(pc[x]) => Somewhere(x)

\* A step of r that moves no message, and hands none over.
LEMMA HandsOff ==
    ASSUME LockInv, Kept, NEW r \in Requests, NEW p, pc' = [pc EXCEPT ![r] = p],
           UNCHANGED <<list, hand, merged>>, trouble \subseteq trouble',
           pc[r] \notin {"putBack", "absorb", "dead"}, p # "dead",
           Over(p) => Over(pc[r])
    PROVE  Kept'
<1>1. \A s \in Requests : pc'[s] = IF s = r THEN p ELSE pc[s]
  BY DEF LockInv
<1>2. ListInv'
  BY <1>1 DEF Kept, ListInv
<1>3. \A x \in Requests : Somewhere(x) => Somewhere(x)'
  BY <1>1 DEF Somewhere, InList, InHand, InBatch
<1>4. \A x \in Requests : Over(pc'[x]) => Over(pc[x])
  BY <1>1
<1>. QED
  BY <1>2, <1>3, <1>4 DEF Kept

\* Whoever drains the list had nothing in hand.
LEMMA DrainKeeps ==
    ASSUME LockInv, Kept, NEW r \in Requests, NEW p \in {"putBack", "absorb"}, Drain(r, p),
           pc[r] \in {"drain", "window"}, p = "putBack" => pc[r] = "drain"
    PROVE  Kept'
<1>1. /\ pc' = [pc EXCEPT ![r] = p] /\ list' = <<>> /\ hand' = [hand EXCEPT ![r] = list]
      /\ UNCHANGED <<merged, trouble>>
  BY DEF Drain, Goes
<1>2. \A s \in Requests : /\ pc'[s] = IF s = r THEN p ELSE pc[s]
                          /\ hand'[s] = IF s = r THEN list ELSE hand[s]
  BY <1>1 DEF LockInv, Kept, ListInv
<1>3. hand[r] = <<>>
  BY DEF Kept, ListInv
<1>4. ListInv'
  BY <1>1, <1>2 DEF Kept, ListInv
<1>5. ASSUME NEW x \in Requests, Somewhere(x) PROVE Somewhere(x)'
  <2>1. ToSet(<<>>) = {}
    BY DEF ToSet
  <2>2. CASE x \in ToSet(list)
    BY <1>2, <2>2 DEF Somewhere, InHand
  <2>3. CASE \E s \in Requests : pc[s] # "dead" /\ x \in ToSet(hand[s])
    BY <1>2, <1>3, <2>1, <2>3 DEF Somewhere, InHand
  <2>4. CASE \E s \in Requests : x \in ToSet(merged[s])
    BY <1>1, <2>4 DEF Somewhere, InBatch
  <2>. QED
    BY <1>5, <2>2, <2>3, <2>4 DEF Somewhere, InList, InHand, InBatch
<1>6. \A x \in Requests : Over(pc'[x]) => Over(pc[x])
  BY <1>2 DEF Over
<1>. QED
  BY <1>1, <1>4, <1>5, <1>6 DEF Kept

\* Between the processes a message is always somewhere.
LEMMA KeptNext ==
    ASSUME LockInv, PublishInv, Kept, [Next]_vars
    PROVE  Kept'
<1> USE DEF Goes, local, store, Over
<1>0. ListInv /\ ("crash" \notin trouble => \A x \in Requests : Over(pc[x]) => Somewhere(x))
  BY DEF Kept
<1>1. ASSUME NEW r \in Requests, TakeLock(r) PROVE Kept'
  BY <1>1, HandsOff DEF TakeLock, SetNX, OpenBatch
<1>2. ASSUME NEW r \in Requests, LockHeld(r) PROVE Kept'
  BY <1>2, HandsOff DEF LockHeld, SetNX
<1>3. ASSUME NEW r \in Requests, ReadSeq(r) PROVE Kept'
  BY <1>3, HandsOff DEF ReadSeq
<1>4. ASSUME NEW r \in Requests, PushOwn(r) PROVE Kept'
  <2>1. /\ pc[r] = "push" /\ pc' = [pc EXCEPT ![r] = "polling"] /\ list' = Append(list, r)
        /\ UNCHANGED <<hand, merged, trouble>>
    BY <1>4 DEF PushOwn
  <2>2. list' \in Seq(Requests) /\ ToSet(list') = ToSet(list) \union {r}
    BY <1>0, <2>1, AppendToSet DEF ListInv
  <2>3. \A s \in Requests : pc'[s] = IF s = r THEN "polling" ELSE pc[s]
    BY <2>1 DEF LockInv
  <2>4. ListInv'
    BY <1>0, <2>1, <2>2, <2>3 DEF ListInv
  <2>5. ASSUME NEW x \in Requests, Somewhere(x) PROVE Somewhere(x)'
    BY <2>1, <2>2, <2>3, <2>5 DEF Somewhere, InList, InHand, InBatch
  <2>6. Somewhere(r)'
    BY <2>2 DEF Somewhere, InList
  <2>7. \A x \in Requests : Over(pc'[x]) => x = r \/ Over(pc[x])
    BY <2>3
  <2>. QED
    BY <2>1, <2>4, <2>5, <2>6, <2>7 DEF Kept
<1>5. ASSUME NEW r \in Requests, PollSeq(r) PROVE Kept'
  <2>1. PICK p \in {"readReply", "checkLock"} : pc' = [pc EXCEPT ![r] = p]
    BY <1>5 DEF PollSeq
  <2>2. pc[r] = "polling" /\ UNCHANGED <<list, hand, merged, trouble>>
    BY <1>5 DEF PollSeq
  <2>. QED
    BY <2>1, <2>2, HandsOff
<1>6. ASSUME NEW r \in Requests, ReadReply(r) PROVE Kept'
  <2>1. PICK p \in {"readEpoch", "checkLock"} : pc' = [pc EXCEPT ![r] = p]
    BY <1>6 DEF ReadReply
  <2>2. pc[r] = "readReply" /\ UNCHANGED <<list, hand, merged, trouble>>
    BY <1>6 DEF ReadReply
  <2>. QED
    BY <2>1, <2>2, HandsOff
<1>7. ASSUME NEW r \in Requests, ReadEpoch(r) PROVE Kept'
  BY <1>7, HandsOff DEF ReadEpoch
<1>8. ASSUME NEW r \in Requests, CheckList(r) PROVE Kept'
  <2>1. PICK p \in {"checkLock", "claim"} : pc' = [pc EXCEPT ![r] = p]
    BY <1>8 DEF CheckList
  <2>2. pc[r] = "checkList" /\ UNCHANGED <<list, hand, merged, trouble>>
    BY <1>8 DEF CheckList
  <2>. QED
    BY <2>1, <2>2, HandsOff
<1>9. ASSUME NEW r \in Requests, CheckLock(r) PROVE Kept'
  <2>1. PICK p \in {"grab", "polling"} : pc' = [pc EXCEPT ![r] = p]
    BY <1>9 DEF CheckLock
  <2>2. pc[r] = "checkLock" /\ UNCHANGED <<list, hand, merged, trouble>>
    BY <1>9 DEF CheckLock
  <2>. QED
    BY <2>1, <2>2, HandsOff
<1>10. ASSUME NEW r \in Requests, Grab(r) PROVE Kept'
  <2>1. PICK p \in {"drain", "polling"} : pc' = [pc EXCEPT ![r] = p]
    BY <1>10 DEF Grab, SetNX
  <2>2. pc[r] = "grab" /\ UNCHANGED <<list, hand, merged, trouble>>
    BY <1>10 DEF Grab, SetNX
  <2>. QED
    BY <2>1, <2>2, HandsOff
<1>11. ASSUME NEW r \in Requests, TakeoverDrain(r) PROVE Kept'
  <2>1. pc[r] = "drain" /\ Drain(r, "putBack")
    BY <1>11 DEF TakeoverDrain
  <2>. QED
    BY <2>1, DrainKeeps
<1>12. ASSUME NEW r \in Requests, TakeoverOpen(r) PROVE Kept'
  <2>1. /\ pc[r] = "putBack" /\ pc' = [pc EXCEPT ![r] = "window"]
        /\ list' = list \o OthersDrained(r) /\ hand' = [hand EXCEPT ![r] = <<>>]
        /\ UNCHANGED <<merged, trouble>>
    BY <1>12 DEF TakeoverOpen, OpenBatch
  <2>2. /\ OthersDrained(r) \in Seq(Requests)
        /\ \A x \in ToSet(hand[r]) : x # r => x \in ToSet(OthersDrained(r))
    BY <1>0, RemovedToSet DEF OthersDrained, ListInv
  <2>3. list' \in Seq(Requests) /\ ToSet(list') = ToSet(list) \union ToSet(OthersDrained(r))
    BY <1>0, <2>1, <2>2, ConcatToSet DEF ListInv
  <2>4. \A s \in Requests : /\ pc'[s] = IF s = r THEN "window" ELSE pc[s]
                            /\ hand'[s] = IF s = r THEN <<>> ELSE hand[s]
    BY <1>0, <2>1 DEF LockInv, ListInv
  <2>5. ListInv'
    BY <1>0, <2>1, <2>3, <2>4 DEF ListInv
  <2>6. ASSUME NEW x \in Requests \ {r}, Somewhere(x) PROVE Somewhere(x)'
    BY <2>1, <2>2, <2>3, <2>4, <2>6 DEF Somewhere, InList, InHand, InBatch
  <2>7. \A x \in Requests : Over(pc'[x]) => x # r /\ Over(pc[x])
    BY <2>4
  <2>. QED
    BY <2>1, <2>5, <2>6, <2>7 DEF Kept
<1>13. ASSUME NEW r \in Requests, ClaimAndDeliver(r) PROVE Kept'
  BY <1>13, HandsOff DEF ClaimAndDeliver
<1>14. ASSUME NEW r \in Requests, WindowEnds(r) PROVE Kept'
  <2>1. pc[r] = "window" /\ Drain(r, "absorb")
    BY <1>14 DEF WindowEnds
  <2>. QED
    BY <2>1, DrainKeeps
<1>15. ASSUME NEW r \in Requests, Collect(r) PROVE Kept'
  <2>. DEFINE fit  == IF Len(hand[r]) < Room THEN Len(hand[r]) ELSE Room
              took == SubSeq(hand[r], 1, fit)
              rest == SubSeq(hand[r], fit + 1, Len(hand[r]))
  <2>1. /\ pc[r] = "absorb" /\ pc' = [pc EXCEPT ![r] = "generate"]
        /\ list' = list \o rest /\ hand' = [hand EXCEPT ![r] = <<>>]
        /\ merged' = [merged EXCEPT ![r] = <<r>> \o took] /\ trouble' = trouble
    BY <1>15 DEF Collect
  <2>2. hand[r] \in Seq(Requests) /\ fit \in 0 .. Len(hand[r])
    <3>1. hand[r] \in Seq(Requests) /\ Len(hand[r]) \in Nat
      BY <1>0, LenProperties DEF ListInv
    <3>2. Room \in Nat
      BY MaxMergePositive DEF Room
    <3>. QED
      BY <3>1, <3>2
  <2>3. /\ took \in Seq(Requests) /\ rest \in Seq(Requests)
        /\ ToSet(took) \union ToSet(rest) = ToSet(hand[r])
    BY <2>2, SplitToSet
  <2>. HIDE DEF took, rest
  <2>4. list' \in Seq(Requests) /\ ToSet(list') = ToSet(list) \union ToSet(rest)
    BY <1>0, <2>1, <2>3, ConcatToSet DEF ListInv
  <2>5. <<r>> \o took \in Seq(Requests) /\ ToSet(took) \subseteq ToSet(<<r>> \o took)
    <3>1. <<r>> \in Seq(Requests)
      OBVIOUS
    <3>. DEFINE u == <<r>>
    <3>2. u \in Seq(Requests)
      BY <3>1
    <3>. HIDE DEF u
    <3>3. u \o took \in Seq(Requests) /\ ToSet(took) \subseteq ToSet(u \o took)
      BY <2>3, <3>2, ConcatToSet
    <3>. QED
      BY <3>3 DEF u
  <2>6. \A s \in Requests : /\ pc'[s] = IF s = r THEN "generate" ELSE pc[s]
                            /\ hand'[s] = IF s = r THEN <<>> ELSE hand[s]
                            /\ merged'[s] = IF s = r THEN <<r>> \o took ELSE merged[s]
    BY <1>0, <2>1 DEF LockInv, ListInv, PublishInv
  <2>7. merged[r] = <<>>
    BY <2>1 DEF PublishInv, Closed
  <2>8. ListInv'
    BY <1>0, <2>1, <2>4, <2>5, <2>6 DEF ListInv
  <2>9. ASSUME NEW x \in Requests, Somewhere(x) PROVE Somewhere(x)'
    <3>1. CASE x \in ToSet(list)
      BY <2>4, <3>1 DEF Somewhere, InList
    <3>2. CASE \E s \in Requests : pc[s] # "dead" /\ x \in ToSet(hand[s])
      <4>1. PICK s \in Requests : pc[s] # "dead" /\ x \in ToSet(hand[s])
        BY <3>2
      <4>2. CASE s = r
        BY <2>3, <2>4, <2>5, <2>6, <4>1, <4>2 DEF Somewhere, InList, InBatch
      <4>3. CASE s # r
        BY <2>6, <4>1, <4>3 DEF Somewhere, InHand
      <4>. QED
        BY <4>2, <4>3
    <3>3. CASE \E s \in Requests : x \in ToSet(merged[s])
      <4>1. ToSet(<<>>) = {}
        BY DEF ToSet
      <4>2. PICK s \in Requests : x \in ToSet(merged[s]) /\ s # r
        BY <2>7, <3>3, <4>1
      <4>. QED
        BY <2>6, <4>2 DEF Somewhere, InBatch
    <3>. QED
      BY <2>9, <3>1, <3>2, <3>3 DEF Somewhere, InList, InHand, InBatch
  <2>10. \A x \in Requests : Over(pc'[x]) => Over(pc[x])
    BY <2>6
  <2>. QED
    BY <2>1, <2>8, <2>9, <2>10 DEF Kept
<1>16. ASSUME NEW r \in Requests, AnswerWeb(r) PROVE Kept'
  BY <1>16, HandsOff DEF AnswerWeb
<1>17. ASSUME NEW r \in Requests, SendExitText(r) PROVE Kept'
  BY <1>17, HandsOff DEF SendExitText
<1>28. ASSUME NEW r \in Requests, RouteToHuman(r) PROVE Kept'
  BY <1>28, HandsOff DEF RouteToHuman
<1>18. ASSUME NEW r \in Requests, ClaimAndAnswer(r) PROVE Kept'
  BY <1>18, HandsOff DEF ClaimAndAnswer
<1>19. ASSUME NEW r \in Requests, Release(r) PROVE Kept'
  BY <1>19, HandsOff DEF Release
<1>20. ASSUME NEW r \in Requests, PublishSeq(r) PROVE Kept'
  BY <1>20, HandsOff DEF PublishSeq
<1>21. ASSUME NEW r \in Requests, PublishReply(r) PROVE Kept'
  BY <1>21, HandsOff DEF PublishReply
<1>22. ASSUME NEW r \in Requests, PublishEpoch(r) PROVE Kept'
  BY <1>22, HandsOff DEF PublishEpoch
<1>23. ASSUME NEW r \in Requests, Unlock(r) PROVE Kept'
  BY <1>23, HandsOff DEF Unlock
<1>24. ASSUME NEW i \in Instances, Crash(i) PROVE Kept'
  <2>1. \A s \in Requests : pc'[s] \in {pc[s], "dead"}
    BY <1>24 DEF Crash
  <2>. QED
    BY <1>0, <1>24, <2>1 DEF Crash, Kept, ListInv
<1>25. ASSUME NEW i \in Instances, SweepIdleQueue(i) PROVE Kept'
  BY <1>0, <1>25 DEF SweepIdleQueue, Kept, ListInv, Somewhere, InList, InHand, InBatch
<1>26. CASE LockExpires
  BY <1>0, <1>26 DEF LockExpires, Kept, ListInv, Somewhere, InList, InHand, InBatch
<1>27. CASE UNCHANGED vars
  BY <1>0, <1>27 DEF vars, Kept, ListInv, Somewhere, InList, InHand, InBatch
<1> QED
  BY <1>1, <1>2, <1>3, <1>4, <1>5, <1>6, <1>7, <1>8, <1>9, <1>10, <1>11, <1>12, <1>13,
     <1>14, <1>15, <1>16, <1>17, <1>18, <1>19, <1>20, <1>21, <1>22, <1>23, <1>24, <1>25,
     <1>26, <1>27, <1>28
  DEF Next, Wait, Hold, Idle

LEMMA KeptAlways == ASSUME RemoteConstants PROVE Spec => []Kept
<1>1. Init => Kept
  <2>1. <<>> \in Seq(Requests)
    BY EmptySeq
  <2>. QED
    BY <2>1 DEF Init, Kept, ListInv, Over
<1>2. RemoteInv /\ Kept /\ [Next]_vars => Kept'
  BY KeptNext DEF RemoteInv
<1> QED
  BY <1>1, <1>2, RemoteAlways, PTL DEF Spec

\* A message handed over is in the list, in the hands of a live process or in a batch,
\* unless a process died (message_queue.go:1036).
THEOREM HandedOverMessagesStay == ASSUME RemoteConstants PROVE Spec => []NothingLost
<1>1. Kept => NothingLost
  BY DEF Kept, NothingLost, HandedOver, Over, Somewhere
<1> QED
  BY <1>1, KeptAlways, PTL

----------------------------------------------------------------------------
\* Where a batch is closed and not yet returned.
Publishing(p) == Closed(p) /\ p \notin {"returned", "dead"}

\* A step of r that empties no batch: what it publishes or claims belongs to a closed
\* batch, and when it has answered without delivering another batch has its epoch.
LEMMA DropStep ==
    ASSUME LockInv, PublishInv, DropInv, NEW r \in Requests, NEW p,
           pc' = [pc EXCEPT ![r] = p],
           \A s \in Requests \ {r} : mine'[s] = mine[s] /\ got'[s] = got[s],
           \A s \in Requests : delivered'[s] = 0 => delivered[s] = 0,
           \A s \in Requests : merged[s] # <<>> => merged'[s] # <<>>,
           \A n \in 1 .. seq' : reply'[n] # NoBatch => merged'[reply'[n]] # <<>>,
           \A c \in claims' \ claims : \E t \in Requests : merged'[t] # <<>> /\ Claimed(pc'[t]) /\ mine'[t] = c,
           Closed(pc[r]) \/ Closed(p) => mine'[r] = mine[r],
           Claimed(pc[r]) => Claimed(p),
           Publishing(p) => merged'[r] # <<>>,
           p \in {"readEpoch", "checkList", "claim"} => merged'[got'[r]] # <<>>,
           \A s \in Requests \ {r} : pc[s] \in {"readEpoch", "checkList", "claim"} => got[s] \in Requests,
           trouble \subseteq trouble',
           r \in Workers /\ Held(r)' /\ delivered'[r] = 0 => Reused(r) \/ ExitToSend(r)'
    PROVE  DropInv'
<1>1. \A s \in Requests : pc'[s] = IF s = r THEN p ELSE pc[s]
  BY DEF LockInv
<1>2. ASSUME NEW s \in Requests
      PROVE  /\ Publishing(pc'[s]) => merged'[s] # <<>>
             /\ pc'[s] \in {"readEpoch", "checkList", "claim"} => merged'[got'[s]] # <<>>
  <2>1. CASE s = r
    BY <1>1, <2>1
  <2>2. CASE s # r
    BY <1>1, <2>2 DEF DropInv, Publishing, Closed
  <2>. QED
    BY <2>1, <2>2
<1>3. ASSUME NEW t \in Requests, merged[t] # <<>> PROVE mine'[t] = mine[t]
  BY <1>3 DEF PublishInv
<1>4. ASSUME NEW c \in claims'
      PROVE  \E t \in Requests : merged'[t] # <<>> /\ Claimed(pc'[t]) /\ mine'[t] = c
  <2>1. CASE c \in claims
    <3>1. PICK t \in Requests : merged[t] # <<>> /\ Claimed(pc[t]) /\ mine[t] = c
      BY <2>1 DEF DropInv
    <3>2. Claimed(pc'[t])
      BY <1>1, <3>1
    <3>. QED
      BY <1>3, <3>1, <3>2
  <2>. QED
    BY <1>4, <2>1
<1>5. ASSUME NEW s \in Workers, Held(s)', delivered'[s] = 0 PROVE Reused(s)' \/ ExitToSend(s)'
  <2>1. s \in Requests
    BY WorkersAreRequests
  <2>2. Reused(s) /\ mine'[s] = mine[s] => Reused(s)'
    BY <1>3, <2>1 DEF Reused
  <2>3. CASE s = r
    BY <1>1, <1>5, <2>2, <2>3 DEF Held, Closed
  <2>4. CASE s # r
    BY <1>1, <1>5, <2>1, <2>2, <2>4 DEF Held, DropInv, ExitToSend
  <2>. QED
    BY <2>3, <2>4
<1>. QED
  BY <1>2, <1>4, <1>5 DEF DropInv, Publishing, Closed

\* The replies that are there belong to closed batches, and so do those that are read.
LEMMA DropNext ==
    ASSUME RemoteConstants, LockInv, NumberInv, PublishInv, ReadInv, DeliverInv, ListInv, DropInv,
           [Next]_vars
    PROVE  DropInv'
<1> USE DEF Goes, local, store
<1>0. \A s \in Requests : pc[s] \in {"readEpoch", "checkList", "claim"} => got[s] \in Requests
  <2>1. \A n \in 1 .. seq : reply[n] \in Requests \union {NoBatch}
    BY ElementOfSeq DEF NumberInv
  <2>2. \A s \in Requests : pc[s] = "readEpoch" => mySeq[s] \in 1 .. seq
    BY DEF NumberInv
  <2>. QED
    BY <2>1, <2>2 DEF ReadInv, Reads
<1>1. ASSUME NEW r \in Requests, TakeLock(r) PROVE DropInv'
  <2>1. pc[r] = "new" /\ pc' = [pc EXCEPT ![r] = "window"] /\ UNCHANGED <<got, seq, reply, merged, claims, trouble>>
    BY <1>1 DEF TakeLock, SetNX, OpenBatch
  <2>2. pc'[r] = "window" /\ \A s \in Requests \ {r} : mine'[s] = mine[s] /\ got'[s] = got[s]
    BY <1>1, <2>1 DEF TakeLock, SetNX, OpenBatch, LockInv, ReadInv
  <2>3. \A s \in Requests : delivered'[s] = 0 => delivered[s] = 0
    BY <1>1 DEF TakeLock, SetNX, OpenBatch
  <2>4. \A n \in 1 .. seq : reply[n] # NoBatch => merged[reply[n]] # <<>>
    BY DEF DropInv
  <2>. QED
    BY <1>0, <2>1, <2>2, <2>3, <2>4, DropStep DEF Held, Closed, Claimed, Publishing
<1>2. ASSUME NEW r \in Requests, LockHeld(r) PROVE DropInv'
  <2>1. pc[r] = "new" /\ pc' = [pc EXCEPT ![r] = "handover"] /\ UNCHANGED <<got, seq, reply, merged, claims, trouble>>
    BY <1>2 DEF LockHeld, SetNX
  <2>2. pc'[r] = "handover" /\ \A s \in Requests \ {r} : mine'[s] = mine[s] /\ got'[s] = got[s]
    BY <1>2, <2>1 DEF LockHeld, SetNX, LockInv, ReadInv
  <2>3. \A s \in Requests : delivered'[s] = 0 => delivered[s] = 0
    BY <1>2 DEF LockHeld, SetNX
  <2>4. \A n \in 1 .. seq : reply[n] # NoBatch => merged[reply[n]] # <<>>
    BY DEF DropInv
  <2>. QED
    BY <1>0, <2>1, <2>2, <2>3, <2>4, DropStep DEF Held, Closed, Claimed, Publishing
<1>3. ASSUME NEW r \in Requests, ReadSeq(r) PROVE DropInv'
  <2>1. pc[r] = "handover" /\ pc' = [pc EXCEPT ![r] = "push"] /\ UNCHANGED <<got, seq, reply, merged, claims, trouble>>
    BY <1>3 DEF ReadSeq
  <2>2. pc'[r] = "push" /\ \A s \in Requests \ {r} : mine'[s] = mine[s] /\ got'[s] = got[s]
    BY <1>3, <2>1 DEF ReadSeq, LockInv, ReadInv
  <2>3. \A s \in Requests : delivered'[s] = 0 => delivered[s] = 0
    BY <1>3 DEF ReadSeq
  <2>4. \A n \in 1 .. seq : reply[n] # NoBatch => merged[reply[n]] # <<>>
    BY DEF DropInv
  <2>. QED
    BY <1>0, <2>1, <2>2, <2>3, <2>4, DropStep DEF Held, Closed, Claimed, Publishing
<1>4. ASSUME NEW r \in Requests, PushOwn(r) PROVE DropInv'
  <2>1. pc[r] = "push" /\ pc' = [pc EXCEPT ![r] = "polling"] /\ UNCHANGED <<got, seq, reply, merged, claims, trouble>>
    BY <1>4 DEF PushOwn
  <2>2. pc'[r] = "polling" /\ \A s \in Requests \ {r} : mine'[s] = mine[s] /\ got'[s] = got[s]
    BY <1>4, <2>1 DEF PushOwn, LockInv, ReadInv
  <2>3. \A s \in Requests : delivered'[s] = 0 => delivered[s] = 0
    BY <1>4 DEF PushOwn
  <2>4. \A n \in 1 .. seq : reply[n] # NoBatch => merged[reply[n]] # <<>>
    BY DEF DropInv
  <2>. QED
    BY <1>0, <2>1, <2>2, <2>3, <2>4, DropStep DEF Held, Closed, Claimed, Publishing
<1>5. ASSUME NEW r \in Requests, PollSeq(r) PROVE DropInv'
  <2>1. PICK p \in {"readReply", "checkLock"} : pc[r] = "polling" /\ pc' = [pc EXCEPT ![r] = p] /\ UNCHANGED <<got, seq, reply, merged, claims, trouble>>
    BY <1>5 DEF PollSeq
  <2>2. pc'[r] = p /\ \A s \in Requests \ {r} : mine'[s] = mine[s] /\ got'[s] = got[s]
    BY <1>5, <2>1 DEF PollSeq, LockInv, ReadInv
  <2>3. \A s \in Requests : delivered'[s] = 0 => delivered[s] = 0
    BY <1>5 DEF PollSeq
  <2>4. \A n \in 1 .. seq : reply[n] # NoBatch => merged[reply[n]] # <<>>
    BY DEF DropInv
  <2>. QED
    BY <1>0, <2>1, <2>2, <2>3, <2>4, DropStep DEF Held, Closed, Claimed, Publishing
<1>6. ASSUME NEW r \in Requests, ReadReply(r) PROVE DropInv'
  <2>1. pc[r] = "readReply" /\ UNCHANGED <<mine, seq, reply, merged, claims, delivered, trouble>>
    BY <1>6 DEF ReadReply
  <2>2. PICK p \in {"readEpoch", "checkLock"} :
           /\ pc' = [pc EXCEPT ![r] = p]
           /\ p = "readEpoch" => reply[mySeq[r]] # NoBatch /\ got' = [got EXCEPT ![r] = reply[mySeq[r]]]
    BY <1>6 DEF ReadReply
  <2>3. mySeq[r] \in 1 .. seq
    BY <2>1 DEF NumberInv
  <2>4. \A s \in Requests \ {r} : got'[s] = got[s]
    BY <1>6 DEF ReadReply, ReadInv
  <2>5. p = "readEpoch" => merged[got'[r]] # <<>>
    BY <2>2, <2>3 DEF DropInv, ReadInv
  <2>6. \A n \in 1 .. seq : reply[n] # NoBatch => merged[reply[n]] # <<>>
    BY DEF DropInv
  <2>7. pc'[r] = p
    BY <2>2 DEF LockInv
  <2>. QED
    BY <1>0, <2>1, <2>2, <2>4, <2>5, <2>6, <2>7, DropStep DEF Held, Closed, Claimed, Publishing
<1>7. ASSUME NEW r \in Requests, ReadEpoch(r) PROVE DropInv'
  <2>1. pc[r] = "readEpoch" /\ pc' = [pc EXCEPT ![r] = "checkList"] /\ UNCHANGED <<got, seq, reply, merged, claims, trouble>>
    BY <1>7 DEF ReadEpoch
  <2>2. pc'[r] = "checkList" /\ \A s \in Requests \ {r} : mine'[s] = mine[s] /\ got'[s] = got[s]
    BY <1>7, <2>1 DEF ReadEpoch, LockInv, ReadInv
  <2>3. \A s \in Requests : delivered'[s] = 0 => delivered[s] = 0
    BY <1>7 DEF ReadEpoch
  <2>4. merged[got[r]] # <<>>
    BY <2>1 DEF DropInv
  <2>5. \A n \in 1 .. seq : reply[n] # NoBatch => merged[reply[n]] # <<>>
    BY DEF DropInv
  <2>. QED
    BY <1>0, <2>1, <2>2, <2>3, <2>4, <2>5, DropStep DEF Held, Closed, Claimed, Publishing
<1>8. ASSUME NEW r \in Requests, CheckList(r) PROVE DropInv'
  <2>1. PICK p \in {"checkLock", "claim"} : pc[r] = "checkList" /\ pc' = [pc EXCEPT ![r] = p] /\ UNCHANGED <<seq, reply, merged, claims, trouble>>
    BY <1>8 DEF CheckList
  <2>2. pc'[r] = p /\ \A s \in Requests \ {r} : mine'[s] = mine[s] /\ got'[s] = got[s]
    BY <1>8, <2>1 DEF CheckList, LockInv, ReadInv
  <2>3. \A s \in Requests : delivered'[s] = 0 => delivered[s] = 0
    BY <1>8 DEF CheckList
  <2>4. p = "claim" => merged[got'[r]] # <<>>
    BY <1>8, <2>1, <2>2 DEF CheckList, DropInv, LockInv
  <2>5. \A n \in 1 .. seq : reply[n] # NoBatch => merged[reply[n]] # <<>>
    BY DEF DropInv
  <2>. QED
    BY <1>0, <2>1, <2>2, <2>3, <2>4, <2>5, DropStep DEF Held, Closed, Claimed, Publishing
<1>9. ASSUME NEW r \in Requests, CheckLock(r) PROVE DropInv'
  <2>1. PICK p \in {"grab", "polling"} : pc[r] = "checkLock" /\ pc' = [pc EXCEPT ![r] = p] /\ UNCHANGED <<got, seq, reply, merged, claims, trouble>>
    BY <1>9 DEF CheckLock
  <2>2. pc'[r] = p /\ \A s \in Requests \ {r} : mine'[s] = mine[s] /\ got'[s] = got[s]
    BY <1>9, <2>1 DEF CheckLock, LockInv, ReadInv
  <2>3. \A s \in Requests : delivered'[s] = 0 => delivered[s] = 0
    BY <1>9 DEF CheckLock
  <2>4. \A n \in 1 .. seq : reply[n] # NoBatch => merged[reply[n]] # <<>>
    BY DEF DropInv
  <2>. QED
    BY <1>0, <2>1, <2>2, <2>3, <2>4, DropStep DEF Held, Closed, Claimed, Publishing
<1>10. ASSUME NEW r \in Requests, Grab(r) PROVE DropInv'
  <2>1. PICK p \in {"drain", "polling"} : pc[r] = "grab" /\ pc' = [pc EXCEPT ![r] = p] /\ UNCHANGED <<got, seq, reply, merged, claims, trouble>>
    BY <1>10 DEF Grab, SetNX
  <2>2. pc'[r] = p /\ \A s \in Requests \ {r} : mine'[s] = mine[s] /\ got'[s] = got[s]
    BY <1>10, <2>1 DEF Grab, SetNX, LockInv, ReadInv
  <2>3. \A s \in Requests : delivered'[s] = 0 => delivered[s] = 0
    BY <1>10 DEF Grab, SetNX
  <2>4. \A n \in 1 .. seq : reply[n] # NoBatch => merged[reply[n]] # <<>>
    BY DEF DropInv
  <2>. QED
    BY <1>0, <2>1, <2>2, <2>3, <2>4, DropStep DEF Held, Closed, Claimed, Publishing
<1>11. ASSUME NEW r \in Requests, TakeoverDrain(r) PROVE DropInv'
  <2>1. pc[r] = "drain" /\ pc' = [pc EXCEPT ![r] = "putBack"] /\ UNCHANGED <<got, seq, reply, merged, claims, trouble>>
    BY <1>11 DEF TakeoverDrain, Drain
  <2>2. pc'[r] = "putBack" /\ \A s \in Requests \ {r} : mine'[s] = mine[s] /\ got'[s] = got[s]
    BY <1>11, <2>1 DEF TakeoverDrain, Drain, LockInv, ReadInv
  <2>3. \A s \in Requests : delivered'[s] = 0 => delivered[s] = 0
    BY <1>11 DEF TakeoverDrain, Drain
  <2>4. \A n \in 1 .. seq : reply[n] # NoBatch => merged[reply[n]] # <<>>
    BY DEF DropInv
  <2>. QED
    BY <1>0, <2>1, <2>2, <2>3, <2>4, DropStep DEF Held, Closed, Claimed, Publishing
<1>12. ASSUME NEW r \in Requests, TakeoverOpen(r) PROVE DropInv'
  <2>1. pc[r] = "putBack" /\ pc' = [pc EXCEPT ![r] = "window"] /\ UNCHANGED <<got, seq, reply, merged, claims, trouble>>
    BY <1>12 DEF TakeoverOpen, OpenBatch
  <2>2. pc'[r] = "window" /\ \A s \in Requests \ {r} : mine'[s] = mine[s] /\ got'[s] = got[s]
    BY <1>12, <2>1 DEF TakeoverOpen, OpenBatch, LockInv, ReadInv
  <2>3. \A s \in Requests : delivered'[s] = 0 => delivered[s] = 0
    BY <1>12 DEF TakeoverOpen, OpenBatch
  <2>4. \A n \in 1 .. seq : reply[n] # NoBatch => merged[reply[n]] # <<>>
    BY DEF DropInv
  <2>. QED
    BY <1>0, <2>1, <2>2, <2>3, <2>4, DropStep DEF Held, Closed, Claimed, Publishing
<1>13. ASSUME NEW r \in Requests, ClaimAndDeliver(r) PROVE DropInv'
  <2>1. /\ pc[r] = "claim" /\ pc' = [pc EXCEPT ![r] = "returned"]
        /\ UNCHANGED <<mine, got, seq, reply, merged, trouble>>
    BY <1>13 DEF ClaimAndDeliver
  <2>2. \A s \in Requests : pc'[s] = IF s = r THEN "returned" ELSE pc[s]
    BY <2>1 DEF LockInv
  <2>3. /\ got[r] \in Requests /\ Answered(pc[got[r]]) /\ mine[r] \in {0, mine[got[r]]}
        /\ got[r] # r /\ merged[got[r]] # <<>>
    BY <2>1 DEF ReadInv, Reads, DropInv, Answered
  <2>4. \A c \in claims' \ claims : c = mine[r] /\ c # 0
    BY <1>13 DEF ClaimAndDeliver, ClaimKey
  <2>5. Claimed(pc'[got[r]])
    BY <2>2, <2>3 DEF Answered, Claimed
  <2>6. \A c \in claims' \ claims : \E t \in Requests : merged'[t] # <<>> /\ Claimed(pc'[t]) /\ mine'[t] = c
    BY <2>1, <2>3, <2>4, <2>5
  <2>7. \A s \in Requests : delivered'[s] = 0 => delivered[s] = 0
    BY <1>13, <2>3 DEF ClaimAndDeliver, DeliverInv
  <2>8. ~Held(r)'
    BY <2>1, <2>2, <2>3 DEF Held
  <2>9. \A n \in 1 .. seq : reply[n] # NoBatch => merged[reply[n]] # <<>>
    BY DEF DropInv
  <2>. QED
    BY <1>0, <2>1, <2>6, <2>7, <2>8, <2>9, DropStep DEF Closed, Claimed, Publishing
<1>14. ASSUME NEW r \in Requests, WindowEnds(r) PROVE DropInv'
  <2>1. pc[r] = "window" /\ pc' = [pc EXCEPT ![r] = "absorb"] /\ UNCHANGED <<got, seq, reply, merged, claims, trouble>>
    BY <1>14 DEF WindowEnds, Drain
  <2>2. pc'[r] = "absorb" /\ \A s \in Requests \ {r} : mine'[s] = mine[s] /\ got'[s] = got[s]
    BY <1>14, <2>1 DEF WindowEnds, Drain, LockInv, ReadInv
  <2>3. \A s \in Requests : delivered'[s] = 0 => delivered[s] = 0
    BY <1>14 DEF WindowEnds, Drain
  <2>4. \A n \in 1 .. seq : reply[n] # NoBatch => merged[reply[n]] # <<>>
    BY DEF DropInv
  <2>. QED
    BY <1>0, <2>1, <2>2, <2>3, <2>4, DropStep DEF Held, Closed, Claimed, Publishing
<1>15. ASSUME NEW r \in Requests, Collect(r) PROVE DropInv'
  <2>. DEFINE took == SubSeq(hand[r], 1, IF Len(hand[r]) < Room THEN Len(hand[r]) ELSE Room)
  <2>1. /\ pc[r] = "absorb" /\ pc' = [pc EXCEPT ![r] = "generate"]
        /\ merged' = [merged EXCEPT ![r] = <<r>> \o took]
        /\ UNCHANGED <<mine, got, seq, reply, claims, delivered, trouble>>
    BY <1>15 DEF Collect
  <2>2. pc'[r] = "generate"
    BY <2>1 DEF LockInv
  <2>3. took \in Seq(Requests)
    <3>1. hand[r] \in Seq(Requests) /\ Len(hand[r]) \in Nat
      BY LenProperties DEF ListInv
    <3>2. Room \in Nat
      BY MaxMergePositive DEF Room
    <3>3. (IF Len(hand[r]) < Room THEN Len(hand[r]) ELSE Room) \in 0 .. Len(hand[r])
      BY <3>1, <3>2
    <3>. QED
      BY <3>1, <3>3, SplitToSet
  <2>. HIDE DEF took
  <2>4. <<r>> \o took # <<>>
    BY <2>3, ConcatProperties
  <2>5. \A s \in Requests : merged'[s] = IF s = r THEN <<r>> \o took ELSE merged[s]
    BY <2>1 DEF PublishInv
  <2>6. /\ merged'[r] # <<>>
        /\ \A s \in Requests : merged[s] # <<>> => merged'[s] # <<>>
    BY <2>4, <2>5
  <2>7. \A n \in 1 .. seq : reply[n] # NoBatch => merged'[reply[n]] # <<>>
    <3>1. \A n \in 1 .. seq : reply[n] \in Requests \union {NoBatch}
      BY ElementOfSeq DEF NumberInv
    <3>. QED
      BY <2>6, <3>1 DEF DropInv
  <2>. QED
    BY <1>0, <2>1, <2>2, <2>6, <2>7, DropStep DEF Held, Closed, Claimed, Publishing
<1>16. ASSUME NEW r \in Requests, AnswerWeb(r) PROVE DropInv'
  <2>1. pc[r] = "generate" /\ pc' = [pc EXCEPT ![r] = "release"] /\ UNCHANGED <<got, seq, reply, merged, claims, trouble>>
    BY <1>16 DEF AnswerWeb
  <2>2. pc'[r] = "release" /\ \A s \in Requests \ {r} : mine'[s] = mine[s] /\ got'[s] = got[s]
    BY <1>16, <2>1 DEF AnswerWeb, LockInv, ReadInv
  <2>3. \A s \in Requests : delivered'[s] = 0 => delivered[s] = 0
    BY <1>16 DEF AnswerWeb
  <2>4. merged[r] # <<>> /\ r \notin Workers /\ UNCHANGED mine
    BY <1>16, <2>1 DEF AnswerWeb, DropInv
  <2>5. \A n \in 1 .. seq : reply[n] # NoBatch => merged[reply[n]] # <<>>
    BY DEF DropInv
  <2>. QED
    BY <1>0, <2>1, <2>2, <2>3, <2>4, <2>5, DropStep DEF Held, Closed, Claimed, Publishing
<1>17. ASSUME NEW r \in Requests, SendExitText(r) PROVE DropInv'
  <2>1. pc[r] = "sendExit" /\ pc' = [pc EXCEPT ![r] = "returned"] /\ UNCHANGED <<got, seq, reply, merged, claims, trouble>>
    BY <1>17 DEF SendExitText
  <2>2. pc'[r] = "returned" /\ \A s \in Requests \ {r} : mine'[s] = mine[s] /\ got'[s] = got[s]
    BY <1>17, <2>1 DEF SendExitText, LockInv, ReadInv
  <2>3. \A s \in Requests : delivered'[s] = 0 => delivered[s] = 0
    BY <1>17 DEF SendExitText, DeliverInv
  <2>4. merged[r] # <<>> /\ delivered'[r] # 0 /\ UNCHANGED mine
    BY <1>17, <2>1 DEF SendExitText, DropInv, DeliverInv
  <2>5. \A n \in 1 .. seq : reply[n] # NoBatch => merged[reply[n]] # <<>>
    BY DEF DropInv
  <2>. QED
    BY <1>0, <2>1, <2>2, <2>3, <2>4, <2>5, DropStep DEF Held, Closed, Claimed, Publishing
<1>28. ASSUME NEW r \in Requests, RouteToHuman(r) PROVE DropInv'
  <2>1. pc[r] = "generate" /\ pc' = [pc EXCEPT ![r] = "release"] /\ UNCHANGED <<got, seq, reply, merged, claims>>
    BY <1>28 DEF RouteToHuman
  <2>2. pc'[r] = "release" /\ \A s \in Requests \ {r} : mine'[s] = mine[s] /\ got'[s] = got[s]
    BY <1>28, <2>1 DEF RouteToHuman, LockInv, ReadInv
  <2>3. \A s \in Requests : delivered'[s] = 0 => delivered[s] = 0
    BY <1>28 DEF RouteToHuman
  <2>4. merged[r] # <<>> /\ UNCHANGED mine /\ trouble \subseteq trouble' /\ r \in trouble'
    BY <1>28, <2>1 DEF RouteToHuman, DropInv
  <2>5. \A n \in 1 .. seq : reply[n] # NoBatch => merged[reply[n]] # <<>>
    BY DEF DropInv
  <2>6. ExitToSend(r)'
    BY <2>2, <2>4 DEF ExitToSend
  <2>. QED
    BY <1>0, <2>1, <2>2, <2>3, <2>4, <2>5, <2>6, DropStep DEF Held, Closed, Claimed, Publishing
<1>18. ASSUME NEW r \in Requests, ClaimAndAnswer(r) PROVE DropInv'
  <2>1. /\ pc[r] = "generate" /\ pc' = [pc EXCEPT ![r] = "release"]
        /\ claims' = claims \union {mine[r]}
        /\ delivered' = [delivered EXCEPT ![r] = @ + IF MayDeliver(mine[r]) THEN 1 ELSE 0]
        /\ UNCHANGED <<mine, got, seq, reply, merged, trouble>>
    BY <1>18 DEF ClaimAndAnswer, ClaimKey
  <2>2. pc'[r] = "release" /\ merged[r] # <<>>
    BY <2>1 DEF LockInv, DropInv
  <2>3. \A s \in Requests : delivered'[s] = 0 => delivered[s] = 0
    BY <2>1 DEF DeliverInv
  <2>4. delivered'[r] = 0 => Reused(r)
    <3>1. delivered'[r] = 0 => mine[r] \in claims
      BY <2>1 DEF DeliverInv, MayDeliver, ClaimKey
    <3>. QED
      BY <2>1, <3>1 DEF DropInv, Claimed, Reused
  <2>5. \A c \in claims' \ claims : \E t \in Requests : merged'[t] # <<>> /\ Claimed(pc'[t]) /\ mine'[t] = c
    BY <2>1, <2>2 DEF Claimed
  <2>6. \A n \in 1 .. seq : reply[n] # NoBatch => merged[reply[n]] # <<>>
    BY DEF DropInv
  <2>. QED
    BY <1>0, <2>1, <2>2, <2>3, <2>4, <2>5, <2>6, DropStep DEF Closed, Claimed, Publishing
<1>19. ASSUME NEW r \in Requests, Release(r) PROVE DropInv'
  <2>1. /\ pc[r] = "release" /\ pc' = [pc EXCEPT ![r] = "publishSeq"]
        /\ got' = [got EXCEPT ![r] = r] /\ reply' = Append(reply, NoBatch) /\ seq' = seq + 1
        /\ UNCHANGED <<mine, merged, claims, delivered, trouble>>
    BY <1>19 DEF Release, NextSeq
  <2>2. pc'[r] = "publishSeq" /\ \A s \in Requests \ {r} : got'[s] = got[s]
    BY <2>1 DEF LockInv, ReadInv
  <2>3. \A n \in 1 .. seq' : reply'[n] = IF n <= seq THEN reply[n] ELSE NoBatch
    <3>1. reply \in Seq(Requests \union {NoBatch}) /\ seq = Len(reply) /\ seq \in Nat
      BY DEF NumberInv
    <3>. QED
      BY <2>1, <3>1, AppendProperties
  <2>4. \A n \in 1 .. seq' : reply'[n] # NoBatch => merged[reply'[n]] # <<>>
    <3>1. \A n \in 1 .. seq' : n <= seq => n \in 1 .. seq
      OBVIOUS
    <3>. QED
      BY <2>3, <3>1 DEF DropInv
  <2>5. merged[r] # <<>> /\ (r \in Workers /\ delivered[r] = 0 => Reused(r) \/ ExitToSend(r))
    BY <2>1 DEF DropInv, Held
  <2>. QED
    BY <1>0, <2>1, <2>2, <2>4, <2>5, DropStep DEF ExitToSend, Closed, Claimed, Publishing
<1>20. ASSUME NEW r \in Requests, PublishSeq(r) PROVE DropInv'
  <2>1. pc[r] = "publishSeq" /\ pc' = [pc EXCEPT ![r] = "publishReply"] /\ UNCHANGED <<got, seq, reply, merged, claims, trouble>>
    BY <1>20 DEF PublishSeq
  <2>2. pc'[r] = "publishReply" /\ \A s \in Requests \ {r} : mine'[s] = mine[s] /\ got'[s] = got[s]
    BY <1>20, <2>1 DEF PublishSeq, LockInv, ReadInv
  <2>3. \A s \in Requests : delivered'[s] = 0 => delivered[s] = 0
    BY <1>20 DEF PublishSeq
  <2>4. merged[r] # <<>> /\ (r \in Workers /\ delivered[r] = 0 => Reused(r) \/ ExitToSend(r))
    BY <2>1 DEF DropInv, Held
  <2>5. UNCHANGED mine
    BY <1>20 DEF PublishSeq
  <2>6. \A n \in 1 .. seq : reply[n] # NoBatch => merged[reply[n]] # <<>>
    BY DEF DropInv
  <2>. QED
    BY <1>0, <2>1, <2>2, <2>3, <2>4, <2>5, <2>6, DropStep DEF ExitToSend, Held, Closed, Claimed, Publishing
<1>21. ASSUME NEW r \in Requests, PublishReply(r) PROVE DropInv'
  <2>1. /\ pc[r] = "publishReply" /\ pc' = [pc EXCEPT ![r] = "publishEpoch"]
        /\ reply' = [reply EXCEPT ![mySeq[r]] = r]
        /\ UNCHANGED <<mine, got, seq, merged, claims, delivered, trouble>>
    BY <1>21 DEF PublishReply
  <2>2. merged[r] # <<>> /\ (r \in Workers /\ delivered[r] = 0 => Reused(r) \/ ExitToSend(r))
    BY <2>1 DEF DropInv, Held
  <2>3. \A n \in 1 .. seq : reply'[n] # NoBatch => merged[reply'[n]] # <<>>
    BY <2>1, <2>2 DEF DropInv, NumberInv
  <2>4. pc'[r] = "publishEpoch" /\ (ExitToSend(r) => ExitToSend(r)')
    BY <2>1 DEF ExitToSend, LockInv
  <2>. QED
    BY <1>0, <2>1, <2>2, <2>3, <2>4, DropStep DEF Closed, Claimed, Publishing
<1>22. ASSUME NEW r \in Requests, PublishEpoch(r) PROVE DropInv'
  <2>1. pc[r] = "publishEpoch" /\ pc' = [pc EXCEPT ![r] = "unlock"] /\ UNCHANGED <<got, seq, reply, merged, claims, trouble>>
    BY <1>22 DEF PublishEpoch
  <2>2. pc'[r] = "unlock" /\ \A s \in Requests \ {r} : mine'[s] = mine[s] /\ got'[s] = got[s]
    BY <1>22, <2>1 DEF PublishEpoch, LockInv, ReadInv
  <2>3. \A s \in Requests : delivered'[s] = 0 => delivered[s] = 0
    BY <1>22 DEF PublishEpoch
  <2>4. merged[r] # <<>> /\ (r \in Workers /\ delivered[r] = 0 => Reused(r) \/ ExitToSend(r))
    BY <2>1 DEF DropInv, Held
  <2>5. UNCHANGED mine
    BY <1>22 DEF PublishEpoch
  <2>6. \A n \in 1 .. seq : reply[n] # NoBatch => merged[reply[n]] # <<>>
    BY DEF DropInv
  <2>. QED
    BY <1>0, <2>1, <2>2, <2>3, <2>4, <2>5, <2>6, DropStep DEF ExitToSend, Held, Closed, Claimed, Publishing
<1>23. ASSUME NEW r \in Requests, Unlock(r) PROVE DropInv'
  <2>1. PICK p \in {"sendExit", "returned"} :
            pc' = [pc EXCEPT ![r] = p] /\ (p = "returned" => r \notin trouble)
    BY <1>23 DEF Unlock
  <2>2. pc[r] = "unlock" /\ UNCHANGED <<mine, got, seq, reply, merged, claims, delivered, trouble>>
    BY <1>23 DEF Unlock
  <2>3. pc'[r] = p
    BY <2>1 DEF LockInv
  <2>4. merged[r] # <<>> /\ (r \in Workers /\ delivered[r] = 0 => Reused(r) \/ ExitToSend(r))
    BY <2>2 DEF DropInv, Held
  <2>5. ExitToSend(r) => Reused(r) \/ ExitToSend(r)'
    BY <2>1, <2>2, <2>3 DEF ExitToSend
  <2>6. \A n \in 1 .. seq : reply[n] # NoBatch => merged[reply[n]] # <<>>
    BY DEF DropInv
  <2>. QED
    BY <1>0, <2>1, <2>2, <2>3, <2>4, <2>5, <2>6, DropStep DEF Closed, Claimed, Publishing
<1>24. ASSUME NEW i \in Instances, Crash(i) PROVE DropInv'
  <2>1. \A s \in Requests : pc'[s] = pc[s] \/ (pc'[s] = "dead" /\ pc[s] # "returned")
    BY <1>24 DEF Crash
  <2>2. UNCHANGED <<mine, got, seq, reply, merged, claims, delivered>> /\ trouble \subseteq trouble'
    BY <1>24 DEF Crash
  <2>3. \A s \in Requests : Claimed(pc[s]) => Claimed(pc'[s])
    BY <2>1 DEF Claimed
  <2>4. \A s \in Workers : Held(s)' => Held(s)
    BY <2>1, <2>2, WorkersAreRequests DEF Held
  <2>5. \A s \in Workers : ExitToSend(s) => ExitToSend(s)'
    BY <2>1, <2>2, WorkersAreRequests DEF ExitToSend
  <2>. QED
    BY <2>1, <2>2, <2>3, <2>4, <2>5 DEF DropInv, Reused
<1>25. ASSUME NEW i \in Instances, SweepIdleQueue(i) PROVE DropInv'
  BY <1>25 DEF SweepIdleQueue, DropInv, Held, Reused, ExitToSend
<1>26. CASE LockExpires
  BY <1>26 DEF LockExpires, DropInv, Held, Reused, ExitToSend
<1>27. CASE UNCHANGED vars
  BY <1>27 DEF vars, DropInv, Held, Reused, ExitToSend
<1> QED
  BY <1>1, <1>2, <1>3, <1>4, <1>5, <1>6, <1>7, <1>8, <1>9, <1>10, <1>11, <1>12, <1>13,
     <1>14, <1>15, <1>16, <1>17, <1>18, <1>19, <1>20, <1>21, <1>22, <1>23, <1>24, <1>25,
     <1>26, <1>27, <1>28
  DEF Next, Wait, Hold, Idle

\* A worker answers and nothing goes out only when another batch had the same epoch:
\* that of its process before a restart or a sweep, or that of another process
\* (message_queue.go:1153).
THEOREM DropsNeedAReusedEpoch == ASSUME RemoteConstants PROVE Spec => []DroppedOnlyOnReusedEpoch
<1>1. Init => DropInv
  BY WorkersAreRequests DEF Init, DropInv, Held
<1>2. RemoteInv /\ Kept /\ DropInv /\ [Next]_vars => DropInv'
  BY DropNext DEF RemoteInv, Kept
<1>3. DropInv => DroppedOnlyOnReusedEpoch
  BY WorkersAreRequests DEF DropInv, Held, Reused, ExitToSend, DroppedOnlyOnReusedEpoch
<1> QED
  BY <1>1, <1>2, <1>3, RemoteAlways, KeptAlways, PTL DEF Spec

=============================================================================
