------------------------------ MODULE MCTicker ------------------------------
(***************************************************************************)
(* Instances of Ticker for TLC.                                            *)
(***************************************************************************)
EXTENDS TLC, LaneRefinement

CONSTANTS w1, w2, pA, pB

OneWallet    == pA :> w1
TwoWallets   == pA :> w1 @@ pB :> w2
TwoReplicas  == pA :> w1 @@ pB :> w1
=============================================================================
