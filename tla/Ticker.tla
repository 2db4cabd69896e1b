------------------------------- MODULE Ticker -------------------------------
(***************************************************************************)
(* Watcher.Tick (internal/ticker/loop.go): the loop that takes the oldest  *)
(* request of a wallet, submits it, follows it until it is confirmed, and  *)
(* deletes it.  Each call out of Tick (SQL, RPC, Kafka) is a step of its   *)
(* own, so that every other actor can move between two calls; the code     *)
(* between two calls belongs to the step before it.                        *)
(*                                                                         *)
(* A tick keeps nothing when it returns, so a watcher is its local         *)
(* variables while a tick runs, and Idle otherwise.                        *)
(*                                                                         *)
(* A definition marked "Variant" is a deliberately wrong form of the one   *)
(* after it, which shows that a property notices the difference; nothing   *)
(* in the specification uses it.                                           *)
(***************************************************************************)
EXTENDS FiniteSets, RequestStore, StatusTopic, EthNode

CONSTANTS
    Watcher,            \* running Watchers, over all replicas of the service
    WalletOf,           \* walletIndex of each Watcher
    ConfirmationBlocks,
    BoostAfterBlocks,
    DisableBoosting,
    MaxFaults,          \* bound: failed calls, lost events and crashes
    MaxInserts          \* bound: insertions of one request

ASSUME TickerAssumption ==
    /\ WalletOf \in [Watcher -> Wallet]
    /\ ConfirmationBlocks \in Nat
    /\ BoostAfterBlocks \in Nat
    /\ DisableBoosting \in BOOLEAN
    /\ MaxFaults \in Nat
    /\ MaxInserts \in Nat

VARIABLES
    tick,       \* the locals of each Watcher's running tick
    signedFor,  \* history: the request each hash was signed for, or Null
    faults      \* faults so far

localVars == <<tick, signedFor, faults>>
vars == <<storeVars, statusVars, nodeVars, localVars>>

\* The call each step is about to make.
ActiveStep == {"head", "receipt", "clearMined", "prepareBoost", "recordBoost",
               "sendBoost", "mined", "recordMined", "confirmed",
               "deleteConfirmed", "recordMoved"}
SubmitStep == {"submitHead", "prepareSubmit", "sendSubmit", "recordSubmit"}
OtherStep  == {"idle", "pick", "submitted", "failed", "deleteFailed"}

\* id and row are activeTx or sendTx, head is headNum, rec the receipt.
Tick == [step : ActiveStep \union SubmitStep \union OtherStep,
         id   : Request \union {Null},
         row  : Row \union {Null},
         head : Nat,
         rec  : Receipt \union {Null}]

At(step) == [step |-> step, id |-> Null, row |-> Null, head |-> 0, rec |-> Null]
Idle == At("idle")

TypeOK ==
    /\ StoreTypeOK
    /\ StatusTypeOK
    /\ NodeTypeOK
    /\ tick \in [Watcher -> Tick]
    /\ signedFor \in [Hash -> Request \union {Null}]
    /\ faults \in Nat

Init ==
    /\ StoreInit
    /\ StatusInit
    /\ NodeInit
    /\ tick = [p \in Watcher |-> Idle]
    /\ signedFor = [h \in Hash |-> Null]
    /\ faults = 0

-----------------------------------------------------------------------------
(* Decisions Tick takes on what it has read.                               *)

LastSend(row) == IF row.boosted # Null THEN row.boosted ELSE row.submitted

BoostDue(t) == t.head >= LastSend(t.row) + BoostAfterBlocks

\* Variant: counts the block of the transaction itself.
DeepEnoughEarly(t, rec) == t.head + 1 >= rec.num + ConfirmationBlocks

DeepEnough(t, rec) == t.head >= rec.num + ConfirmationBlocks

\* Variant: gives a transaction up instead of waiting.
AfterMissingGivesUp(t) ==
    IF BoostDue(t) THEN [t EXCEPT !.step = "failed"] ELSE Idle

\* No receipt: boost when it is time to, or return.
AfterMissing(t) ==
    IF BoostDue(t) /\ ~ DisableBoosting THEN [t EXCEPT !.step = "prepareBoost"]
                                        ELSE Idle

\* Variant: deletes without reporting Confirmed.
AfterFoundSilent(t, rec) ==
    IF t.row.mined = Null THEN [t EXCEPT !.step = "mined", !.rec = rec]
    ELSE IF DeepEnough(t, rec) THEN [t EXCEPT !.step = "deleteConfirmed", !.rec = rec]
    ELSE IF rec # t.row.mined THEN [t EXCEPT !.step = "recordMoved", !.rec = rec]
    ELSE Idle

\* A receipt: report the inclusion once, then wait until it is deep enough.
AfterFound(t, rec) ==
    IF t.row.mined = Null THEN [t EXCEPT !.step = "mined", !.rec = rec]
    ELSE IF DeepEnough(t, rec) THEN [t EXCEPT !.step = "confirmed", !.rec = rec]
    ELSE IF rec # t.row.mined THEN [t EXCEPT !.step = "recordMoved", !.rec = rec]
    ELSE Idle

\* A new signature gives a new hash; the least unused one, without loss.
NewHash(h) ==
    /\ signedFor[h] = Null
    /\ \A g \in Hash : signedFor[g] = Null => h <= g

\* The watcher leaves `from' and continues as t.
Goto(p, from, t) ==
    /\ tick[p].step = from
    /\ tick' = [tick EXCEPT ![p] = t]

\* A call to the status producer, which may silently fail.
Report(m) ==
    \/ Deliver(m) /\ UNCHANGED faults
    \/ Lose(m) /\ faults < MaxFaults /\ faults' = faults + 1

-----------------------------------------------------------------------------
(* Following the submitted transaction of the wallet.                      *)

\* Variant: takes a mined transaction for a finished one.
ReadActiveUnmined(p) ==
    /\ \/ /\ \A r \in Active(WalletOf[p]) : rows[r].mined # Null
          /\ Goto(p, "idle", At("pick"))
       \/ \E r \in Active(WalletOf[p]) :
             Goto(p, "idle", [At("head") EXCEPT !.id = r, !.row = rows[r]])
    /\ UNCHANGED <<storeVars, statusVars, nodeVars, signedFor, faults>>

\* Query for a submitted row of the wallet: any of them, there is no ORDER BY.
ReadActive(p) ==
    /\ \/ /\ Active(WalletOf[p]) = {}
          /\ Goto(p, "idle", At("pick"))
       \/ \E r \in Active(WalletOf[p]) :
             Goto(p, "idle", [At("head") EXCEPT !.id = r, !.row = rows[r]])
    /\ UNCHANGED <<storeVars, statusVars, nodeVars, signedFor, faults>>

ReadHead(p) ==
    /\ Goto(p, "head", [tick[p] EXCEPT !.step = "receipt", !.head = head])
    /\ UNCHANGED <<storeVars, statusVars, nodeVars, signedFor, faults>>

ReadReceipt(p) ==
    /\ LET t   == tick[p]
           rec == incl[t.row.hash]
       IN  Goto(p, "receipt",
                IF rec # Null THEN AfterFound(t, rec)
                ELSE IF t.row.mined # Null THEN [t EXCEPT !.step = "clearMined"]
                ELSE AfterMissing(t))
    /\ UNCHANGED <<storeVars, statusVars, nodeVars, signedFor, faults>>

\* Variant: clears the block number and leaves the block hash.
ClearMinedHalf(p) ==
    /\ Goto(p, "clearMined", AfterMissing([tick[p] EXCEPT !.row.mined = Null]))
    /\ Update(tick[p].id, [rows[tick[p].id] EXCEPT !.mined.num = Null])
    /\ UNCHANGED <<statusVars, nodeVars, signedFor, faults>>

\* Variant: leaves the mined columns alone.
ClearMinedNot(p) ==
    /\ Goto(p, "clearMined", AfterMissing(tick[p]))
    /\ UNCHANGED <<storeVars, statusVars, nodeVars, signedFor, faults>>

\* The transaction left the canonical chain.
ClearMined(p) ==
    /\ Goto(p, "clearMined", AfterMissing([tick[p] EXCEPT !.row.mined = Null]))
    /\ Update(tick[p].id, [rows[tick[p].id] EXCEPT !.mined = Null])
    /\ UNCHANGED <<statusVars, nodeVars, signedFor, faults>>

\* Variant: drops a reverting request without reporting it.
PrepareBoostSilent(p) ==
    /\ \/ Goto(p, "prepareBoost", [tick[p] EXCEPT !.step = "recordBoost"])
       \/ Goto(p, "prepareBoost", [tick[p] EXCEPT !.step = "deleteFailed"])
    /\ UNCHANGED <<storeVars, statusVars, nodeVars, signedFor, faults>>

\* SuggestGasPrice, then EstimateGas, which succeeds or reports a revert.
PrepareBoost(p) ==
    /\ \/ Goto(p, "prepareBoost", [tick[p] EXCEPT !.step = "recordBoost"])
       \/ Goto(p, "prepareBoost", [tick[p] EXCEPT !.step = "failed"])
    /\ UNCHANGED <<storeVars, statusVars, nodeVars, signedFor, faults>>

\* Variant: signs the boost under the next free nonce.
RecordBoostFresh(p) ==
    LET t == tick[p]
    IN  \E h \in Hash, n \in Nonce :
          /\ NewHash(h)
          /\ PendingNonce(WalletOf[p], n)
          /\ Goto(p, "recordBoost", [t EXCEPT !.step = "sendBoost",
                                              !.row.hash = h,
                                              !.row.nonce = n,
                                              !.row.boosted = t.head])
          /\ signedFor' = [signedFor EXCEPT ![h] = t.id]
          /\ Update(t.id, [rows[t.id] EXCEPT !.hash = h,
                                             !.nonce = n,
                                             !.boosted = t.head])
          /\ UNCHANGED <<statusVars, nodeVars, faults>>

\* Sign under the old nonce and record the boost before it is sent.
RecordBoost(p) ==
    LET t == tick[p]
    IN  \E h \in Hash :
          /\ NewHash(h)
          /\ Goto(p, "recordBoost", [t EXCEPT !.step = "sendBoost",
                                              !.row.hash = h,
                                              !.row.boosted = t.head])
          /\ signedFor' = [signedFor EXCEPT ![h] = t.id]
          /\ Update(t.id, [rows[t.id] EXCEPT !.hash = h,
                                             !.nonce = t.row.nonce,
                                             !.boosted = t.head])
          /\ UNCHANGED <<statusVars, nodeVars, faults>>

\* The transaction t.row describes, as it goes to the node.
TxOf(t, w) == [req |-> t.id, wallet |-> w, nonce |-> t.row.nonce]

\* Tick returns the result of SendTransaction.
SendBoost(p) ==
    LET t == tick[p]
    IN  /\ Goto(p, "sendBoost", Idle)
        /\ \/ Accept(t.row.hash, TxOf(t, WalletOf[p]))
           \/ Refuse(TxOf(t, WalletOf[p]))
        /\ UNCHANGED <<storeVars, statusVars, signedFor, faults>>

PublishMined(p) ==
    /\ Goto(p, "mined", [tick[p] EXCEPT !.step = "recordMined"])
    /\ Report(Mined(tick[p].id, tick[p].row.hash))
    /\ UNCHANGED <<storeVars, nodeVars, signedFor>>

\* Variant: the whitelist lacks the mined columns.
RecordMinedNot(p) ==
    /\ Goto(p, "recordMined", Idle)
    /\ UNCHANGED <<storeVars, statusVars, nodeVars, signedFor, faults>>

RecordMined(p) ==
    /\ Goto(p, "recordMined", Idle)
    /\ Update(tick[p].id, [rows[tick[p].id] EXCEPT !.mined = tick[p].rec])
    /\ UNCHANGED <<statusVars, nodeVars, signedFor, faults>>

RecordMoved(p) ==
    /\ Goto(p, "recordMoved", Idle)
    /\ Update(tick[p].id, [rows[tick[p].id] EXCEPT !.mined = tick[p].rec])
    /\ UNCHANGED <<statusVars, nodeVars, signedFor, faults>>

PublishConfirmed(p) ==
    /\ Goto(p, "confirmed", [tick[p] EXCEPT !.step = "deleteConfirmed"])
    /\ Report(Confirmed(tick[p].id, tick[p].row.hash))
    /\ UNCHANGED <<storeVars, nodeVars, signedFor>>

\* ... and fall through to maybe submitting something else.
DeleteConfirmed(p) ==
    /\ Goto(p, "deleteConfirmed", At("pick"))
    /\ Delete(tick[p].id)
    /\ UNCHANGED <<statusVars, nodeVars, signedFor, faults>>

-----------------------------------------------------------------------------
(* Submitting the next request of the wallet.                              *)

\* Variant: the query forgets the wallet.
PickNextAny(p) ==
    /\ \/ /\ \A r \in Request : rows[r] = Null
          /\ Goto(p, "pick", Idle)
       \/ \E r \in First({s \in Request : rows[s] # Null}) :
             Goto(p, "pick", [At("submitHead") EXCEPT !.id = r, !.row = rows[r]])
    /\ UNCHANGED <<storeVars, statusVars, nodeVars, signedFor, faults>>

PickNext(p) ==
    /\ \/ /\ RowsOf(WalletOf[p]) = {}
          /\ Goto(p, "pick", Idle)
       \/ \E r \in First(RowsOf(WalletOf[p])) :
             Goto(p, "pick", [At("submitHead") EXCEPT !.id = r, !.row = rows[r]])
    /\ UNCHANGED <<storeVars, statusVars, nodeVars, signedFor, faults>>

ReadSubmitHead(p) ==
    /\ Goto(p, "submitHead", [tick[p] EXCEPT !.step = "prepareSubmit", !.head = head])
    /\ UNCHANGED <<storeVars, statusVars, nodeVars, signedFor, faults>>

\* Variant: NonceAt, which ignores pending transactions.
PrepareSubmitLatest(p) ==
    /\ \/ \E n \in Nonce :
            /\ ~ NonceUsed(WalletOf[p], n)
            /\ \A m \in 0 .. n - 1 : NonceUsed(WalletOf[p], m)
            /\ Goto(p, "prepareSubmit", [tick[p] EXCEPT !.step = "sendSubmit",
                                                        !.row.nonce = n])
       \/ Goto(p, "prepareSubmit", [tick[p] EXCEPT !.step = "failed"])
    /\ UNCHANGED <<storeVars, statusVars, nodeVars, signedFor, faults>>

\* PendingNonceAt, SuggestGasPrice, EstimateGas.
PrepareSubmit(p) ==
    /\ \/ \E n \in Nonce :
            /\ PendingNonce(WalletOf[p], n)
            /\ Goto(p, "prepareSubmit", [tick[p] EXCEPT !.step = "sendSubmit",
                                                        !.row.nonce = n])
       \/ Goto(p, "prepareSubmit", [tick[p] EXCEPT !.step = "failed"])
    /\ UNCHANGED <<storeVars, statusVars, nodeVars, signedFor, faults>>

\* Sign and send; nothing about the transaction is stored yet.
SendSubmit(p) ==
    LET t == tick[p]
    IN  /\ \/ \E h \in Hash :
                /\ NewHash(h)
                /\ Goto(p, "sendSubmit", [t EXCEPT !.step = "recordSubmit",
                                                   !.row.hash = h])
                /\ Accept(h, TxOf(t, WalletOf[p]))
                /\ signedFor' = [signedFor EXCEPT ![h] = t.id]
           \/ /\ Goto(p, "sendSubmit", Idle)
              /\ Refuse(TxOf(t, WalletOf[p]))
              /\ UNCHANGED signedFor
        /\ UNCHANGED <<storeVars, statusVars, faults>>

\* Variant: the whitelist lacks submitted_block_number.
RecordSubmitHash(p) ==
    LET t == tick[p]
    IN  /\ Goto(p, "recordSubmit", [t EXCEPT !.step = "submitted"])
        /\ Update(t.id, [rows[t.id] EXCEPT !.nonce = t.row.nonce,
                                           !.hash = t.row.hash])
        /\ UNCHANGED <<statusVars, nodeVars, signedFor, faults>>

\* Variant: returns without announcing the submission.
RecordSubmitSilent(p) ==
    LET t == tick[p]
    IN  /\ Goto(p, "recordSubmit", Idle)
        /\ Update(t.id, [rows[t.id] EXCEPT !.submitted = t.head,
                                           !.nonce = t.row.nonce,
                                           !.hash = t.row.hash])
        /\ UNCHANGED <<statusVars, nodeVars, signedFor, faults>>

RecordSubmit(p) ==
    LET t == tick[p]
    IN  /\ Goto(p, "recordSubmit", [t EXCEPT !.step = "submitted"])
        /\ Update(t.id, [rows[t.id] EXCEPT !.submitted = t.head,
                                           !.nonce = t.row.nonce,
                                           !.hash = t.row.hash])
        /\ UNCHANGED <<statusVars, nodeVars, signedFor, faults>>

PublishSubmitted(p) ==
    /\ Goto(p, "submitted", Idle)
    /\ Report(Submitted(tick[p].id, tick[p].row.hash))
    /\ UNCHANGED <<storeVars, nodeVars, signedFor>>

-----------------------------------------------------------------------------
(* EstimateGas reported a revert, on a first submission or on a boost.     *)

PublishFailed(p) ==
    /\ Goto(p, "failed", [tick[p] EXCEPT !.step = "deleteFailed"])
    /\ Report(Failed(tick[p].id))
    /\ UNCHANGED <<storeVars, nodeVars, signedFor>>

DeleteFailed(p) ==
    /\ Goto(p, "deleteFailed", Idle)
    /\ Delete(tick[p].id)
    /\ UNCHANGED <<statusVars, nodeVars, signedFor, faults>>

-----------------------------------------------------------------------------
\* Signing fails once MaxTxs signatures are out: the bound ends a tick the way
\* an error of sender.Sign does.
SignFails(p) ==
    /\ tick[p].step \in {"recordBoost", "sendSubmit"}
    /\ \A h \in Hash : signedFor[h] # Null
    /\ tick' = [tick EXCEPT ![p] = Idle]
    /\ UNCHANGED <<storeVars, statusVars, nodeVars, signedFor, faults>>

\* A call fails, its context is cancelled on SIGTERM, or the process dies:
\* the tick is over and its locals are gone.  A call that took effect but
\* whose answer was lost is the step followed by Abort.
Abort(p) ==
    /\ tick[p].step # "idle"
    /\ faults < MaxFaults
    /\ faults' = faults + 1
    /\ tick' = [tick EXCEPT ![p] = Idle]
    /\ UNCHANGED <<storeVars, statusVars, nodeVars, signedFor>>

\* The consumer stores a request under a wallet of its choice.  Kafka may
\* deliver a request again at any time.
Arrive(r, w) ==
    /\ inserts[r] < MaxInserts
    /\ Upsert(r, w)
    /\ UNCHANGED <<statusVars, nodeVars, localVars>>

Step(p) ==
    \/ ReadActive(p) \/ ReadHead(p) \/ ReadReceipt(p) \/ ClearMined(p)
    \/ PrepareBoost(p) \/ RecordBoost(p) \/ SendBoost(p)
    \/ PublishMined(p) \/ RecordMined(p) \/ RecordMoved(p)
    \/ PublishConfirmed(p) \/ DeleteConfirmed(p)
    \/ PickNext(p) \/ ReadSubmitHead(p) \/ PrepareSubmit(p)
    \/ SendSubmit(p) \/ RecordSubmit(p) \/ PublishSubmitted(p)
    \/ PublishFailed(p) \/ DeleteFailed(p) \/ SignFails(p)

ChainStep ==
    /\ Chain
    /\ UNCHANGED <<storeVars, statusVars, localVars>>

Next ==
    \/ \E p \in Watcher : Step(p) \/ Abort(p)
    \/ \E r \in Request, w \in Wallet : Arrive(r, w)
    \/ ChainStep

Spec == Init /\ [][Next]_vars

-----------------------------------------------------------------------------
(* Properties.                                                             *)

\* "There's at most one submitted transaction per wallet" (loop.go:103): Tick
\* queries One row without an order and follows whatever it gets.
AtMostOneActive ==
    \A w \in Wallet : \A r, s \in Active(w) : r = s

\* The nonces a request has been sent under.  Each is an execution at most.
Slots(r) == {<<tx[h].wallet, tx[h].nonce>> : h \in {g \in Accepted : tx[g].req = r}}

\* A request is executed once for each time it is inserted.  Only a fault in
\* the window between SendTransaction and the Update that records it
\* (loop.go:430-448) makes Tick send it again under another nonce; boosts
\* reuse the nonce and add no execution.
ExecutionsBounded ==
    \A r \in Request : Cardinality(Slots(r)) <= inserts[r] + faults

\* Two requests never compete for a nonce, so none displaces the other: the
\* nonce of PendingNonceAt (loop.go:353) is still free when it is used
\* (loop.go:430), and a boost (loop.go:217) reuses the nonce of its request.
OneRequestPerNonce ==
    \A g, h \in Accepted : SameSlot(g, h) => tx[g].req = tx[h].req

\* A Confirmed event (loop.go:299) is final: the transaction it names is on
\* the canonical chain, executes the request it names, and no later reorg
\* takes it off, as long as reorgs are no deeper than ConfirmationBlocks,
\* although the head it was judged by was read before the receipt.
ConfirmedFinal ==
    \A m \in Reported : m.type = "Confirmed" =>
        m.hash \in OnChain /\ tx[m.hash].req = m.req

\* The producer sees Mined for a hash before Confirmed for it (loop.go:263),
\* over crashes, boosts and reorgs between the two ticks.
ConfirmedAfterMined ==
    \A m \in Reported : m.type = "Confirmed" => Mined(m.req, m.hash) \in Reported

\* A row leaves the table only after its outcome was handed to the producer:
\* Confirmed for the very hash in the row, or Failed (loop.go:205, 299, 395).
DropsAreReported ==
    [][\A r \in Request : rows[r] # Null /\ rows'[r] = Null =>
         \/ Failed(r) \in Reported
         \/ Confirmed(r, rows[r].hash) \in Reported]_vars

\* The slot of a submitted row is spent only by the transaction whose hash
\* the row holds, so the receipt query (loop.go:133) finds the execution.
NoOrphanedInclusion ==
    \A w \in Wallet : \A r \in Active(w) :
        NonceUsed(w, rows[r].nonce) => rows[r].hash \in OnChain

\* Without faults and boosts, a request inserted once and reported Failed
\* (loop.go:395) was never sent.
FailedNotSent ==
    \A r \in Request :
        Failed(r) \in Reported /\ inserts[r] = 1 /\ faults = 0 => Slots(r) = {}

\* The transactions clients learn of only when they are mined.
Unannounced ==
    {h \in Hash : \E r \in Request : /\ Mined(r, h) \in Reported
                                    /\ Submitted(r, h) \notin Reported}

\* Without boosts, which are never announced, a client learns of a submission
\* before it learns of its inclusion: every transaction reported Mined without
\* Submitted is due to a fault of its own, between the Update that records it
\* and the event (loop.go:448-453).
UnannouncedBounded == Cardinality(Unannounced) <= faults

\* "Transaction not included yet" (loop.go:138): the transaction a boost is
\* about to overwrite in the table is not on chain.
NotIncludedYet ==
    \A p \in Watcher :
        tick[p].step = "recordBoost" => tick[p].row.hash \notin OnChain

-----------------------------------------------------------------------------
(* Fairness.  main.go starts a time.Ticker for each Watcher, so a Watcher   *)
(* ticks for ever and its calls return or time out; the network mines what *)
(* it has accepted and keeps producing blocks.  Faults, redeliveries and   *)
(* reorgs are finite in number and never forced.                           *)

Fairness ==
    /\ \A p \in Watcher : WF_vars(Step(p))
    /\ WF_vars((\E B \in SUBSET Hash : MineBlock(B)) /\ ChainStep)
    /\ WF_vars(ConfirmBlock /\ ChainStep)

FairSpec == Spec /\ Fairness

\* Every stored request leaves the table in the end.
Settles ==
    \A r \in Request : rows[r] # Null ~> rows[r] = Null

\* Every submission the client was told of is reported Confirmed in the end,
\* whatever faults and reorgs come in between.
SubmittedGetsConfirmed ==
    \A r \in Request, h \in Hash :
        Submitted(r, h) \in Reported ~> Confirmed(r, h) \in Reported
=============================================================================
