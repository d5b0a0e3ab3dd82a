---------------------------- MODULE MCMergeQueue ----------------------------
(* Model-checking instances of MergeQueue: see the Queue*.cfg files. *)
EXTENDS MergeQueue, TLC

CONSTANTS m1, m2, m3, m4, m5, s1, s2

FiveMessages == {m1, m2, m3, m4, m5}
OneSimple    == {s1}
TwoSimple    == {s1, s2}
ThreeAndOne  == {m1, m2, m3} \union OneSimple
FiveAndTwo   == FiveMessages \union TwoSimple

\* Messages of one kind are interchangeable; used in runs without liveness.
Symmetry == Permutations(FiveMessages) \union Permutations(TwoSimple)
=============================================================================
