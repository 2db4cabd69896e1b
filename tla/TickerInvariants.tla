-------------------------- MODULE TickerInvariants --------------------------
(***************************************************************************)
(* The strengthenings that make the safety properties of Ticker inductive. *)
(***************************************************************************)
EXTENDS Ticker

\* Every watcher of a wallet is the only one: one replica of the service.
OneWatcherPerWallet ==
    \A p, q \in Watcher : WalletOf[p] = WalletOf[q] => p = q

\* A submitted row has the nonce and the hash it was sent with.
RowShape(row) ==
    row.submitted # Null => row.nonce # Null /\ row.hash # Null

\* Steps that hold a row.
HoldStep == SubmitStep \union {"submitted", "failed", "deleteFailed"}

\* What a tick has read by the time it reaches a step.
TickShape(t) ==
    /\ t.step \in ActiveStep \union HoldStep => t.id \in Request /\ t.row \in Row
    /\ t.step \in ActiveStep => t.row.submitted # Null /\ RowShape(t.row)
    /\ t.step \in {"sendSubmit", "recordSubmit"} => t.row.nonce # Null
    /\ t.step = "recordSubmit" => t.row.hash # Null

Shapes ==
    /\ \A r \in Request : rows[r] # Null => RowShape(rows[r])
    /\ \A p \in Watcher : TickShape(tick[p])

TypeInv == TypeOK /\ Shapes

\* A watcher following a submitted row holds the row as it is stored; one
\* that is about to submit finds its wallet without a submitted row, and the
\* row it holds is still there.
Lane(p, t) ==
    /\ t.step \in ActiveStep =>
         rows[t.id] = t.row /\ t.row.wallet = WalletOf[p]
    /\ t.step \in SubmitStep \union {"pick"} => Active(WalletOf[p]) = {}
    /\ t.step \in SubmitStep \union {"failed", "deleteFailed"} =>
         rows[t.id] # Null /\ rows[t.id].wallet = WalletOf[p]

Lanes == \A p \in Watcher : Lane(p, tick[p])

OneActiveInv == TypeInv /\ AtMostOneActive /\ Lanes

\* A hash is signed for one request; every place that names it agrees.
HashOwners ==
    /\ \A h \in Hash : tx[h] # Null => tx[h].req = signedFor[h]
    /\ \A r \in Request : rows[r] # Null /\ rows[r].hash # Null =>
            signedFor[rows[r].hash] = r
    /\ \A p \in Watcher : tick[p].step \in ActiveStep \union {"recordSubmit"} =>
            signedFor[tick[p].row.hash] = tick[p].id

\* The canonical chain holds accepted transactions only, up to the head.
ChainShape ==
    \A h \in OnChain : tx[h] # Null /\ incl[h].num <= head

\* h is buried where no reorg of at most ConfirmationBlocks blocks reaches.
Buried(h) == h \in OnChain /\ incl[h].num + ConfirmationBlocks <= head

\* What is confirmed, or about to be, is buried.
ConfirmedBuried ==
    /\ \A m \in Reported : m.type = "Confirmed" =>
            m.hash \in Hash /\ Buried(m.hash) /\ signedFor[m.hash] = m.req
    /\ \A p \in Watcher : /\ tick[p].head <= head
                          /\ tick[p].step \in {"confirmed", "deleteConfirmed"} =>
                                Buried(tick[p].row.hash)

FinalInv == TypeInv /\ HashOwners /\ ChainShape /\ ConfirmedBuried
-----------------------------------------------------------------------------
(* Transactions and the nonces they take.                                  *)

\* All requests are at one wallet.
SingleWallet == \A v, w \in Wallet : v = w

\* The row that p holds is stored at its wallet.  Where there is no other
\* wallet, the row may have been deleted under p, and inserted again.
AtHome(p, r) == SingleWallet \/ (rows[r] # Null /\ rows[r].wallet = WalletOf[p])

\* What is left of Lane when rows are deleted by others: nothing but the row
\* that p holds is submitted at its wallet.
Front(p, t) ==
    /\ t.step \in ActiveStep => Active(WalletOf[p]) \subseteq {t.id}
    /\ t.step \in SubmitStep \union {"pick"} => Active(WalletOf[p]) = {}
    /\ t.step \in ActiveStep \union SubmitStep \union {"failed", "deleteFailed"} =>
            AtHome(p, t.id)

Fronts == \A p \in Watcher : Front(p, tick[p])

\* Where a watcher stands with the transaction it sends: what it follows has
\* been sent under the nonce it holds, the nonce it has asked for is still
\* free, the transaction it has sent is accepted, and the boost it has signed
\* is not sent yet.
SlotTick(p, t) ==
    /\ t.step \in ActiveStep => \E h \in Accepted : tx[h] = TxOf(t, WalletOf[p])
    /\ t.step = "sendSubmit" => \A h \in Accepted :
            tx[h].wallet = WalletOf[p] => tx[h].nonce # t.row.nonce
    /\ t.step \in {"recordSubmit", "submitted"} =>
            t.row.hash \in Accepted /\ tx[t.row.hash] = TxOf(t, WalletOf[p])
    /\ t.step = "sendBoost" => tx[t.row.hash] = Null /\ signedFor[t.row.hash] = t.id

SlotTicks == \A p \in Watcher : SlotTick(p, tick[p])

\* A submitted row keeps the nonce of a transaction that was sent for it.
RowSlots ==
    \A w \in Wallet : \A r \in Active(w) : \E h \in Accepted :
        tx[h] = [req |-> r, wallet |-> w, nonce |-> rows[r].nonce]

\* Steps that hold a request to be sent.
BeforeSend == {"submitHead", "prepareSubmit", "sendSubmit"}

\* r waits in the table and no watcher has just sent it.
Unsent(r) ==
    /\ rows[r] # Null /\ rows[r].submitted = Null
    /\ \A p \in Watcher : tick[p].step = "recordSubmit" => tick[p].id # r

\* A request that waits has an execution to its credit: the one it was
\* inserted for, or the one a fault made the table forget.
Credits ==
    \A r \in Request :
        Cardinality(Slots(r)) + (IF Unsent(r) THEN 1 ELSE 0) <= inserts[r] + faults

\* Only a signed transaction is sent.
SentSigned == \A h \in Accepted : signedFor[h] # Null

SlotCore ==
    /\ TypeInv /\ AtMostOneActive /\ Fronts
    /\ SentSigned /\ SlotTicks /\ RowSlots /\ OneRequestPerNonce

SlotInv == OneActiveInv /\ SlotCore /\ Credits

-----------------------------------------------------------------------------
(* Without boosts.                                                         *)

BoostStep == {"prepareBoost", "recordBoost", "sendBoost"}

\* No watcher boosts, and what is given up was not submitted.
Unboosted ==
    \A p \in Watcher :
        /\ tick[p].step \notin BoostStep
        /\ tick[p].step \in {"failed", "deleteFailed"} =>
                rows[tick[p].id].submitted = Null

OneTxPerNonce == \A g, h \in Accepted : SameSlot(g, h) => g = h

\* A submitted row names the transaction that was sent for it.
RowTxs ==
    \A w \in Wallet : \A r \in Active(w) :
        /\ rows[r].hash \in Accepted
        /\ tx[rows[r].hash] = [req |-> r, wallet |-> w, nonce |-> rows[r].nonce]

SingleInv == SlotInv /\ Unboosted /\ OneTxPerNonce /\ RowTxs

\* What was inserted once and reported Failed is about to be deleted, or is.
FailedGone ==
    \A r \in Request :
        /\ rows[r] # Null => inserts[r] # 0
        /\ Failed(r) \in Reported => inserts[r] # 0
        /\ Failed(r) \in Reported /\ inserts[r] = 1 /\ faults = 0 /\ rows[r] # Null =>
                \E p \in Watcher : tick[p].step = "deleteFailed" /\ tick[p].id = r

FailedInv == SingleInv /\ FailedGone /\ FailedNotSent

\* A tick that has sent h and has not announced it yet.
Announces(t, h) == t.step \in {"recordSubmit", "submitted"} /\ t.row.hash = h

\* Sent, not announced, and no watcher is on its way to announce it.
Silent ==
    {h \in Accepted : /\ Submitted(tx[h].req, h) \notin Reported
                      /\ \A p \in Watcher : ~ Announces(tick[p], h)}

\* A transaction is reported Mined for the request it executes, after the tick
\* that sent it.
MinedLater ==
    \A r \in Request, h \in Hash : Mined(r, h) \in Reported =>
        /\ h \in Accepted /\ tx[h].req = r
        /\ \A p \in Watcher : ~ Announces(tick[p], h)

AnnounceInv == SingleInv /\ MinedLater /\ Cardinality(Silent) <= faults
=============================================================================
