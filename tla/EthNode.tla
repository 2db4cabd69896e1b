------------------------------- MODULE EthNode -------------------------------
(***************************************************************************)
(* The Ethereum node behind the EthClient interface, as far as the ticker  *)
(* can tell: a canonical chain that grows and is reorganised, the          *)
(* transactions the network has accepted, and the nonce discipline of an   *)
(* account.  External to the repository; modelled from the calls the       *)
(* ticker makes.                                                           *)
(*                                                                         *)
(* An accepted transaction stays known to the network: a replaced or       *)
(* reorganised transaction can still be mined while its nonce is unused.   *)
(***************************************************************************)
EXTENDS MetaTransactions

CONSTANTS
    MaxReorgDepth,  \* deepest reorg the network performs
    MaxReorgs,      \* bound: reorgs in a behaviour
    MaxSlow,        \* bound: empty blocks mined while nothing is confirming
    QuietAfter      \* bound: empty blocks mined on top of an inclusion

ASSUME EthNodeAssumption ==
    /\ MaxReorgDepth \in Nat
    /\ MaxReorgs \in Nat
    /\ MaxSlow \in Nat
    /\ QuietAfter \in Nat

VARIABLES
    head,   \* number of the latest block
    era,    \* reorgs so far
    slow,   \* empty blocks charged to MaxSlow
    tx,     \* accepted transaction of each hash, or Null
    incl    \* receipt of each hash on the canonical chain, or Null

nodeVars == <<head, era, slow, tx, incl>>

NodeTypeOK ==
    /\ head \in Nat
    /\ era \in Nat
    /\ slow \in Nat
    /\ tx \in [Hash -> Tx \union {Null}]
    /\ incl \in [Hash -> Receipt \union {Null}]

NodeInit ==
    /\ head = 1
    /\ era = 0
    /\ slow = 0
    /\ tx = [h \in Hash |-> Null]
    /\ incl = [h \in Hash |-> Null]

Accepted == {h \in Hash : tx[h] # Null}
OnChain  == {h \in Hash : incl[h] # Null}
Waiting  == Accepted \ OnChain

SameSlot(g, h) == tx[g].wallet = tx[h].wallet /\ tx[g].nonce = tx[h].nonce

\* Nonces are consumed once and in order, so a set of transactions can be on
\* chain together when no two share a slot and none skips a nonce.
Executable(S) ==
    /\ \A g, h \in S : SameSlot(g, h) => g = h
    /\ \A h \in S : \A n \in 0 .. tx[h].nonce - 1 :
            \E g \in S : tx[g].wallet = tx[h].wallet /\ tx[g].nonce = n

NonceUsed(w, n) ==
    \E h \in Accepted \cap OnChain : tx[h].wallet = w /\ tx[h].nonce = n

\* PendingNonceAt: the first nonce no known transaction of w takes.
PendingNonce(w, n) ==
    LET taken(m) == \E h \in Accepted : tx[h].wallet = w /\ tx[h].nonce = m
    IN  ~ taken(n) /\ \A m \in 0 .. n - 1 : taken(m)

\* SendTransaction(h): refused as "nonce too low" when the slot is spent.
Accept(h, t) ==
    /\ ~ NonceUsed(t.wallet, t.nonce)
    /\ tx' = [tx EXCEPT ![h] = t]
    /\ UNCHANGED <<head, era, slow, incl>>

Refuse(t) ==
    /\ NonceUsed(t.wallet, t.nonce)
    /\ UNCHANGED nodeVars

\* A block that includes the waiting transactions B.
MineBlock(B) ==
    /\ B # {}
    /\ B \subseteq Waiting
    /\ Executable(OnChain \union B)
    /\ head' = head + 1
    /\ incl' = [h \in Hash |-> IF h \in B THEN [num |-> head + 1, era |-> era]
                                          ELSE incl[h]]
    /\ UNCHANGED <<era, slow, tx>>

\* An empty block on top of an inclusion that is still being confirmed.
ConfirmBlock ==
    /\ \E h \in OnChain : head < incl[h].num + QuietAfter
    /\ head' = head + 1
    /\ UNCHANGED <<era, slow, tx, incl>>

\* An empty block while transactions wait.
SlowBlock ==
    /\ Waiting # {}
    /\ slow < MaxSlow
    /\ slow' = slow + 1
    /\ head' = head + 1
    /\ UNCHANGED <<era, tx, incl>>

\* The last d blocks are replaced by d others.  The transactions in B are on
\* the new branch in block b; the replaced ones not in B wait again.
Reorg(d, b, B) ==
    LET replaced == {h \in OnChain : incl[h].num + d > head}
        kept     == OnChain \ replaced
    IN  /\ era < MaxReorgs
        /\ d < head
        /\ replaced # {}
        /\ B \subseteq Accepted \ kept
        /\ Executable(kept \union B)
        /\ era' = era + 1
        /\ incl' = [h \in Hash |->
                      IF h \in B THEN [num |-> b, era |-> era + 1]
                      ELSE IF h \in replaced THEN Null ELSE incl[h]]
        /\ UNCHANGED <<head, slow, tx>>

Chain ==
    \/ \E B \in SUBSET Hash : MineBlock(B)
    \/ ConfirmBlock
    \/ SlowBlock
    \/ \E d \in 1 .. MaxReorgDepth : \E b \in (head + 1 - d) .. head :
          \E B \in SUBSET Hash : Reorg(d, b, B)
=============================================================================
