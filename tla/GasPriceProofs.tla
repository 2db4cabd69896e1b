--------------------------- MODULE GasPriceProofs ---------------------------
(***************************************************************************)
(* When a boost raises the price enough to replace the transaction.        *)
(***************************************************************************)
EXTENDS GasPrice, TLAPS

\* From 5 wei on, a fifth rounded down is still a tenth.
LEMMA NewBarRaises ==
    ASSUME NEW old \in Nat, old >= 5
    PROVE  /\ NewBar(old) \in Nat
           /\ 10 * NewBar(old) >= 11 * old
           /\ NewBar(old) > old
BY DEF NewBar

\* A price at or above one that raises enough raises enough.
LEMMA AboveRaises ==
    ASSUME NEW old \in Nat, NEW bar \in Nat, NEW new \in Nat,
           10 * bar >= 11 * old, new >= bar
    PROVE  10 * new >= 11 * old
OBVIOUS

\* Every boost replaces its transaction (loop.go:171-177) as long as the node
\* suggests 3 wei or more.
THEOREM BoostsReplace ==
    ASSUME \A s \in Suggestion : s >= 3 PROVE Spec => RaisesEnough
<1> DEFINE Inv == price \in Nat /\ price >= 5
<1>1. Init => Inv
  BY GasPriceAssumption DEF Init, SubmitPrice
<1>2. ASSUME Inv, Boost
      PROVE  Inv' /\ 10 * price' >= 11 * price /\ price' > price
  <2>1. PICK s \in Suggestion : price' = BoostPrice(price, s)
    BY <1>2 DEF Boost
  <2>2. /\ s \in Nat /\ NewBar(price) \in Nat
        /\ 10 * NewBar(price) >= 11 * price /\ NewBar(price) > price
    BY <1>2, NewBarRaises, GasPriceAssumption
  <2>3. price' \in Nat /\ price' >= NewBar(price)
    BY <2>1, <2>2 DEF BoostPrice
  <2>4. price \in Nat /\ price >= 5
    BY <1>2
  <2>5. price' > price /\ price' >= 5
    BY <2>2, <2>3, <2>4
  <2>6. 10 * price' >= 11 * price
    BY ONLY <2>2, <2>3, <2>4, AboveRaises, Zenon
  <2> QED
    BY <2>3, <2>5, <2>6
<1>3. Inv /\ [Boost]_vars => Inv'
  BY <1>2 DEF vars
<1>4. Inv /\ [Boost]_vars => [10 * price' >= 11 * price /\ price' > price]_vars
  BY <1>2
<1> QED
  BY <1>1, <1>3, <1>4, PTL DEF Spec, RaisesEnough
=============================================================================
