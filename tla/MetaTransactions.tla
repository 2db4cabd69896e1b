-------------------------- MODULE MetaTransactions --------------------------
(***************************************************************************)
(* The values the meta-transaction processor passes between its parts:     *)
(* rows of meta_transaction_requests, signed transactions, receipts and    *)
(* status messages.                                                        *)
(***************************************************************************)
EXTENDS Naturals

CONSTANTS
    Request,    \* request ids; ordered, as KSUID strings are
    Wallet,     \* wallet indices
    MaxTxs,     \* bound: transactions that can ever be signed
    Null        \* SQL NULL, "no row", "not found"

Hash  == 1 .. MaxTxs
Nonce == 0 .. MaxTxs

\* A receipt keeps the block number and the block hash. Blocks mined after a
\* reorg have other hashes than the ones they replace: era tells them apart.
Receipt == [num : Nat, era : Nat]

\* A signed transaction: the request it executes, its sender and its nonce.
Tx == [req : Request, wallet : Wallet, nonce : Nonce]

\* models.MetaTransactionRequest. `mined' holds MinedBlockNumber and
\* MinedBlockHash, which the code always writes together. To, Data, GasPrice,
\* the timestamps and SubmittedBlockHash steer nothing here.
Row == [wallet    : Wallet,
        nonce     : Nonce \union {Null},
        hash      : Hash \union {Null},
        submitted : Nat \union {Null},
        mined     : Receipt \union {Null},
        boosted   : Nat \union {Null}]

\* A status event; a Failed event carries no transaction hash.
Message == [type : {"Submitted", "Mined", "Confirmed", "Failed"},
            req  : Request,
            hash : Hash \union {Null}]

Submitted(r, h) == [type |-> "Submitted", req |-> r, hash |-> h]
Mined(r, h)     == [type |-> "Mined",     req |-> r, hash |-> h]
Confirmed(r, h) == [type |-> "Confirmed", req |-> r, hash |-> h]
Failed(r)       == [type |-> "Failed",    req |-> r, hash |-> Null]

ASSUME MetaTransactionsAssumption ==
    /\ Request \subseteq Nat
    /\ MaxTxs \in Nat
    /\ Null \notin Nat
    /\ Null \notin Row
    /\ Null \notin Receipt
    /\ Null \notin Tx
    /\ Null \notin Request
=============================================================================
