-------------------------- MODULE MCBillingOrders --------------------------
(***************************************************************************)
(* Small instances of BillingOrders: one order with every failure, or an   *)
(* order x and two upgrades of it without the payment provider.            *)
(***************************************************************************)
EXTENDS BillingOrders, TLC

CONSTANTS x, u, v, h1, h2, rec

OneOrder == {x}
ThreeOrders == {x, u, v}
EachItsOwn == [o \in Orders |-> o]
AllPsp == [o \in Orders |-> "psp"]
MockBase == [o \in Orders |-> IF o = x THEN "mock" ELSE "manual"]
AllManual == [o \in Orders |-> "manual"]
TwoHandlers == {h1, h2}
Symmetry == Permutations({h1, h2})
UpgradeSymmetry == Permutations({h1, h2}) \cup Permutations({u, v})
============================================================================
