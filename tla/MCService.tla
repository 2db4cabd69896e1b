----------------------------- MODULE MCService ------------------------------
(***************************************************************************)
(* Instances of Service for TLC.                                           *)
(***************************************************************************)
EXTENDS TLC, ServiceInvariants, LaneRefinement

CONSTANTS w1, w2, pA, pB

OneWallet  == pA :> w1
TwoWallets == pA :> w1 @@ pB :> w2

ById(r) == [key |-> "id", req |-> r]

\* A request and an event behind it that Postgres refuses.
ThenRefused == <<ById(1), [key |-> "refused", req |-> 1]>>

OutOfOrder == <<ById(2), ById(1)>>
=============================================================================
