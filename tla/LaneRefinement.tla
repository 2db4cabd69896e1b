--------------------------- MODULE LaneRefinement ---------------------------
(***************************************************************************)
(* The ticker implements WalletLane: a wallet's queue is its rows without  *)
(* a submitted block number, its lane the row with one.                    *)
(***************************************************************************)
EXTENDS TickerInvariants

QueueOf == [w \in Wallet |-> RowsOf(w) \ Active(w)]
LaneOf  == [w \in Wallet |-> {[req |-> r, hash |-> rows[r].hash] : r \in Active(w)}]

WL == INSTANCE WalletLane WITH queue <- QueueOf, lane <- LaneOf, told <- Reported

\* Every behaviour of the ticker, with its faults, retries and reorgs, is one
\* the wallet's promise allows: one transaction under way, every event about
\* the transaction that is under way when it is sent, Mined before Confirmed,
\* and no request dropped without its outcome (loop.go:103-458).
ImplementsLane == WL!LaneSpec

\* What a tick that runs as t on wallet w has told, of the messages msgs and
\* the table tbl, by the time it reaches a step.
Told(w, t, tbl, msgs) ==
    /\ t.step = "submitted" =>
         /\ t.id \in Request /\ tbl[t.id] # Null /\ tbl[t.id].wallet = w
         /\ tbl[t.id].submitted # Null /\ tbl[t.id].hash = t.row.hash
    /\ t.step \in {"recordMoved", "confirmed"} => t.row.mined # Null
    /\ t.step \in {"prepareBoost", "recordBoost"} => t.row.mined = Null
    /\ t.step = "recordMined" => Mined(t.id, t.row.hash) \in msgs
    /\ t.step = "deleteConfirmed" => Confirmed(t.id, t.row.hash) \in msgs
    /\ t.step = "deleteFailed" => Failed(t.id) \in msgs

\* The mined columns are those of a submitted transaction reported Mined.
MinedTold ==
    \A r \in Request : rows[r] # Null /\ rows[r].mined # Null =>
        rows[r].submitted # Null /\ Mined(r, rows[r].hash) \in Reported

\* Only signed hashes are stored and told, and one that is not recorded yet
\* was never told.
TellsSigned ==
    /\ \A m \in Reported : m.hash # Null => signedFor[m.hash] # Null
    /\ \A r \in Request : rows[r] # Null /\ rows[r].hash # Null =>
            signedFor[rows[r].hash] # Null
    /\ \A p \in Watcher : tick[p].step = "recordSubmit" =>
            /\ signedFor[tick[p].row.hash] # Null
            /\ \A m \in Reported : m.req = tick[p].id => m.hash # tick[p].row.hash

\* The strengthening the refinement and its corollaries rest on: what each
\* tick, row and hash owes to the messages sent before (loop.go:263-458).
TellInv ==
    /\ OneActiveInv
    /\ \A p \in Watcher : Told(WalletOf[p], tick[p], rows, Reported)
    /\ MinedTold
    /\ TellsSigned
    /\ ConfirmedAfterMined
=============================================================================
