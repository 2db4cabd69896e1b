------------------------------ MODULE GasPrice ------------------------------
(***************************************************************************)
(* The gas price of a request: chosen when Tick submits it and raised each *)
(* time Tick boosts it (internal/ticker/loop.go), in the integer           *)
(* arithmetic of math/big.  Ticker leaves prices out.                      *)
(***************************************************************************)
EXTENDS Naturals

CONSTANTS
    Suggestion, \* what SuggestGasPrice may answer, in wei
    MaxBoosts   \* bound: boosts of one request

ASSUME GasPriceAssumption ==
    /\ Suggestion \subseteq Nat
    /\ MaxBoosts \in Nat

VARIABLES
    price,  \* gas_price of the row
    boosts  \* boosts so far

vars == <<price, boosts>>

SubmitPrice(s) == 2 * s

\* Variant: exactly ten percent more, rounded down.
BumpTenPercent(old) == (old * 110) \div 100

\* "Have to increase the old price by at least 10%": a fifth more, rounded down.
NewBar(old) == (old * 120) \div 100

BoostPrice(old, s) ==
    IF NewBar(old) > 2 * s THEN NewBar(old) ELSE 2 * s

Init ==
    /\ \E s \in Suggestion : price = SubmitPrice(s)
    /\ boosts = 0

Boost ==
    /\ boosts < MaxBoosts
    /\ \E s \in Suggestion : price' = BoostPrice(price, s)
    /\ boosts' = boosts + 1

Spec == Init /\ [][Boost]_vars

\* "Have to increase the old price by at least 10% to replace the
\* transaction" (loop.go:171): every boost does, over any run of market prices
\* and whatever the division rounds away, or the node refuses it as
\* underpriced.
RaisesEnough ==
    [][10 * price' >= 11 * price /\ price' > price]_vars
=============================================================================
