------------------------- MODULE MCRemoteMergeQueue -------------------------
(* Model-checking instances of RemoteMergeQueue: see the Remote*.cfg files. *)
EXTENDS RemoteMergeQueue, TLC

CONSTANTS r1, r2, r3, i1, i2

ThreeRequests == {r1, r2, r3}
TwoWorkers    == {r1, r3}
TwoInstances  == {i1, i2}

\* r1 and r3 come to the first process, r2 to the second.
TwoHomes == [r \in Requests |-> IF r \in {r1, r3} THEN i1 ELSE i2]
OneInstance   == {i1}
OneHome  == [r \in Requests |-> i1]

\* Requests of one process and one kind are interchangeable.
Symmetry == Permutations({r1, r3})
=============================================================================
