--------------------------- MODULE BatchedAnswers ---------------------------
(***************************************************************************)
(* What the merge queue promises for the messages of one customer: they    *)
(* wait, a batch of waiting messages is taken, that batch is answered as a *)
(* whole, and only then the next one is taken.  No message is taken twice  *)
(* and none is forgotten.                                                  *)
(***************************************************************************)
CONSTANT Messages

VARIABLE status     \* what became of each message

States == {"absent", "waiting", "taken", "answered"}

Init == status = [m \in Messages |-> "absent"]

Arrive(m) ==
    /\ status[m] = "absent"
    /\ status' = [status EXCEPT ![m] = "waiting"]

\* One batch at a time: nothing else is being answered.
Take(S) ==
    /\ S # {} /\ \A m \in S : status[m] = "waiting"
    /\ \A m \in Messages : status[m] # "taken"
    /\ status' = [m \in Messages |-> IF m \in S THEN "taken" ELSE status[m]]

Answer ==
    /\ \E m \in Messages : status[m] = "taken"
    /\ status' = [m \in Messages |-> IF status[m] = "taken" THEN "answered" ELSE status[m]]

Next ==
    \/ \E m \in Messages : Arrive(m)
    \/ \E S \in SUBSET Messages : Take(S)
    \/ Answer

Spec == Init /\ [][Next]_status
=============================================================================
