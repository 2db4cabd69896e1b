---------------------------- MODULE TickerProofs ----------------------------
(***************************************************************************)
(* Proofs about Ticker for all values of its constants.                    *)
(***************************************************************************)
EXTENDS TickerInvariants, TLAPS

USE MetaTransactionsAssumption, EthNodeAssumption, TickerAssumption

\* A step of p replaces the locals of p and of nobody else.
LEMMA GotoLocals ==
    ASSUME tick \in [Watcher -> Tick], NEW p \in Watcher, NEW from, NEW t \in Tick,
           Goto(p, from, t)
    PROVE  /\ tick[p].step = from
           /\ tick' \in [Watcher -> Tick]
           /\ tick'[p] = t
           /\ \A q \in Watcher : q # p => tick'[q] = tick[q]
BY DEF Goto

\* Updating a row keeps the table well formed when the new row is.
LEMMA UpdateShape ==
    ASSUME TypeInv, NEW r \in Request, NEW new, Update(r, new),
           rows[r] # Null => new \in Row /\ RowShape(new)
    PROVE  /\ StoreTypeOK'
           /\ \A s \in Request : rows'[s] # Null => RowShape(rows'[s])
BY DEF TypeInv, TypeOK, StoreTypeOK, Shapes, Update

\* Deleting a row keeps the table well formed.
LEMMA DeleteShape ==
    ASSUME TypeInv, NEW r \in Request, Delete(r)
    PROVE  /\ StoreTypeOK'
           /\ \A s \in Request : rows'[s] # Null => RowShape(rows'[s])
BY DEF TypeInv, TypeOK, StoreTypeOK, Shapes, Delete

\* A report adds one status message and at most one fault.
LEMMA ReportType ==
    ASSUME StatusTypeOK, faults \in Nat, NEW m \in Message, Report(m)
    PROVE  /\ StatusTypeOK'
           /\ faults' \in Nat
           /\ Reported' = Reported \union {m}
BY DEF Report, Deliver, Lose, StatusTypeOK, Reported

\* Every step of the chain keeps the node's state well formed.
LEMMA ChainType ==
    ASSUME NodeTypeOK, Chain
    PROVE  NodeTypeOK'
<1>1. ASSUME NEW B \in SUBSET Hash, MineBlock(B) PROVE NodeTypeOK'
  BY <1>1 DEF MineBlock, NodeTypeOK, Receipt
<1>2. ASSUME ConfirmBlock PROVE NodeTypeOK'
  BY <1>2 DEF ConfirmBlock, NodeTypeOK
<1>3. ASSUME SlowBlock PROVE NodeTypeOK'
  BY <1>3 DEF SlowBlock, NodeTypeOK
<1>4. ASSUME NEW d \in 1 .. MaxReorgDepth, NEW b \in (head + 1 - d) .. head,
             NEW B \in SUBSET Hash, Reorg(d, b, B)
      PROVE  NodeTypeOK'
  BY <1>4 DEF Reorg, NodeTypeOK, Receipt
<1> QED
  BY <1>1, <1>2, <1>3, <1>4 DEF Chain

LEMMA IdleShape == /\ Idle \in Tick
                   /\ At("pick") \in Tick
                   /\ TickShape(Idle)
                   /\ TickShape(At("pick"))
BY DEF Idle, At, Tick, TickShape, ActiveStep, SubmitStep, OtherStep, HoldStep

-----------------------------------------------------------------------------
(* Type correctness.                                                       *)

\* The type invariant holds after a step of p once the table, the node, the
\* status topic and p's new locals are well formed.
LEMMA TypeInvFrom ==
    ASSUME TypeInv, NEW p \in Watcher, NEW from, NEW t \in Tick,
           Goto(p, from, t), TickShape(t),
           StoreTypeOK', StatusTypeOK', NodeTypeOK',
           \A r \in Request : rows'[r] # Null => RowShape(rows'[r]),
           signedFor' \in [Hash -> Request \union {Null}], faults' \in Nat
    PROVE  TypeInv'
<1>1. tick \in [Watcher -> Tick]
  BY DEF TypeInv, TypeOK
<1>2. /\ tick' \in [Watcher -> Tick]
      /\ tick'[p] = t
      /\ \A q \in Watcher : q # p => tick'[q] = tick[q]
  BY <1>1, GotoLocals
<1>3. \A q \in Watcher : TickShape(tick'[q])
  BY <1>2 DEF TypeInv, Shapes
<1>4. Shapes'
  BY <1>3 DEF Shapes, TickShape, RowShape
<1> QED
  BY <1>2, <1>4 DEF TypeInv, TypeOK

\* Steps that only read leave the table, the topic and the node alone.
LEMMA TypeInvRead ==
    ASSUME TypeInv, NEW p \in Watcher, NEW from, NEW t \in Tick,
           Goto(p, from, t), TickShape(t),
           UNCHANGED <<storeVars, statusVars, nodeVars, signedFor, faults>>
    PROVE  TypeInv'
<1>1. /\ StoreTypeOK' /\ StatusTypeOK' /\ NodeTypeOK'
      /\ signedFor' \in [Hash -> Request \union {Null}] /\ faults' \in Nat
  BY DEF TypeInv, TypeOK, StoreTypeOK, StatusTypeOK, NodeTypeOK,
         storeVars, statusVars, nodeVars
<1>2. \A r \in Request : rows'[r] # Null => RowShape(rows'[r])
  BY DEF TypeInv, Shapes, storeVars
<1> QED
  BY <1>1, <1>2, TypeInvFrom

\* The locals after each decision of Tick are well formed.
LEMMA DecisionShape ==
    ASSUME NEW t \in Tick, t.row \in Row, t.id \in Request,
           t.row.submitted # Null, RowShape(t.row)
    PROVE  /\ AfterMissing(t) \in Tick /\ TickShape(AfterMissing(t))
           /\ \A rec \in Receipt : /\ AfterFound(t, rec) \in Tick
                                   /\ TickShape(AfterFound(t, rec))
<1>1. \A s \in {"prepareBoost", "clearMined"} :
        [t EXCEPT !.step = s] \in Tick /\ TickShape([t EXCEPT !.step = s])
  BY DEF Tick, TickShape, ActiveStep, SubmitStep, OtherStep, HoldStep
<1>2. \A rec \in Receipt, s \in {"mined", "confirmed", "recordMoved"} :
        /\ [t EXCEPT !.step = s, !.rec = rec] \in Tick
        /\ TickShape([t EXCEPT !.step = s, !.rec = rec])
  <2> SUFFICES ASSUME NEW rec \in Receipt, NEW s \in {"mined", "confirmed", "recordMoved"}
               PROVE  /\ [t EXCEPT !.step = s, !.rec = rec] \in Tick
                      /\ TickShape([t EXCEPT !.step = s, !.rec = rec])
    OBVIOUS
  <2> DEFINE u == [t EXCEPT !.step = s, !.rec = rec]
  <2>1. u \in Tick /\ u.step = s /\ u.id = t.id /\ u.row = t.row
    BY DEF Tick, ActiveStep
  <2> HIDE DEF u
  <2>2. TickShape(u)
    BY <2>1 DEF TickShape, ActiveStep, SubmitStep, HoldStep
  <2> QED
    BY <2>1, <2>2 DEF u
<1> QED
  BY <1>1, <1>2, IdleShape DEF AfterMissing, AfterFound

\* Every step of a watcher preserves the type invariant.
LEMMA TypeStep ==
    ASSUME TypeInv, NEW p \in Watcher, Step(p)
    PROVE  TypeInv'
<1> DEFINE t == tick[p]
<1>0. /\ t \in Tick /\ TickShape(t)
      /\ tick \in [Watcher -> Tick]
      /\ StoreTypeOK /\ StatusTypeOK /\ NodeTypeOK
      /\ signedFor \in [Hash -> Request \union {Null}] /\ faults \in Nat
      /\ \A r \in Request : rows[r] # Null => rows[r] \in Row /\ RowShape(rows[r])
      /\ WalletOf[p] \in Wallet
  BY DEF TypeInv, TypeOK, Shapes, StoreTypeOK
<1> HIDE DEF t
<1>1. CASE ReadActive(p)
  <2>1. CASE Goto(p, "idle", At("pick"))
    BY <1>1, <2>1, IdleShape, TypeInvRead DEF ReadActive
  <2>2. ASSUME NEW r \in Active(WalletOf[p]),
               Goto(p, "idle", [At("head") EXCEPT !.id = r, !.row = rows[r]])
        PROVE  TypeInv'
    <3> DEFINE u == [At("head") EXCEPT !.id = r, !.row = rows[r]]
    <3>1. r \in Request /\ rows[r] \in Row /\ RowShape(rows[r]) /\ rows[r].submitted # Null
      BY <1>0, <2>2 DEF Active, RowsOf
    <3>2. u \in Tick /\ TickShape(u)
      BY <3>1 DEF At, Tick, TickShape, ActiveStep, SubmitStep, OtherStep, HoldStep
    <3> QED
      BY <1>1, <2>2, <3>2, TypeInvRead DEF ReadActive
  <2> QED
    BY <1>1, <2>1, <2>2 DEF ReadActive
<1>2. CASE ReadHead(p)
  <2> DEFINE u == [t EXCEPT !.step = "receipt", !.head = head]
  <2>1. Goto(p, "head", u) /\ t.step = "head"
    BY <1>2 DEF ReadHead, Goto, t
  <2>2. u \in Tick /\ TickShape(u)
    BY <1>0, <2>1 DEF NodeTypeOK, Tick, TickShape, ActiveStep, SubmitStep, OtherStep, HoldStep
  <2> QED
    BY <1>2, <2>1, <2>2, TypeInvRead DEF ReadHead
<1>3. CASE ReadReceipt(p)
  <2> DEFINE rec == incl[t.row.hash]
             u == IF rec # Null THEN AfterFound(t, rec)
                  ELSE IF t.row.mined # Null THEN [t EXCEPT !.step = "clearMined"]
                  ELSE AfterMissing(t)
  <2>1. Goto(p, "receipt", u) /\ t.step = "receipt"
    BY <1>3 DEF ReadReceipt, Goto, t
  <2>2. /\ t.id \in Request /\ t.row \in Row /\ t.row.submitted # Null
        /\ RowShape(t.row) /\ t.row.hash \in Hash
    BY <1>0, <2>1 DEF TickShape, RowShape, Row, ActiveStep
  <2>3. rec # Null => rec \in Receipt
    BY <1>0, <2>2 DEF NodeTypeOK
  <2>4. [t EXCEPT !.step = "clearMined"] \in Tick /\ TickShape([t EXCEPT !.step = "clearMined"])
    BY <1>0, <2>2 DEF Tick, TickShape, ActiveStep, SubmitStep, OtherStep, HoldStep
  <2>5. u \in Tick /\ TickShape(u)
    BY <1>0, <2>2, <2>3, <2>4, DecisionShape
  <2> QED
    BY <1>3, <2>1, <2>5, TypeInvRead DEF ReadReceipt
<1>4. CASE ClearMined(p)
  <2> DEFINE u == [t EXCEPT !.row.mined = Null]
             new == [rows[t.id] EXCEPT !.mined = Null]
  <2>1. Goto(p, "clearMined", AfterMissing(u)) /\ t.step = "clearMined" /\ Update(t.id, new)
    BY <1>4 DEF ClearMined, Goto, t
  <2>2. t.id \in Request /\ t.row \in Row /\ t.row.submitted # Null /\ RowShape(t.row)
    BY <1>0, <2>1 DEF TickShape, ActiveStep
  <2>3. u \in Tick /\ u.row \in Row /\ u.id \in Request /\ u.row.submitted # Null /\ RowShape(u.row)
    BY <1>0, <2>2 DEF Tick, Row, RowShape
  <2>4. AfterMissing(u) \in Tick /\ TickShape(AfterMissing(u))
    BY <2>3, DecisionShape
  <2>5. rows[t.id] # Null => new \in Row /\ RowShape(new)
    BY <1>0, <2>2 DEF Row, RowShape
  <2>6. StoreTypeOK' /\ \A r \in Request : rows'[r] # Null => RowShape(rows'[r])
    BY <2>1, <2>2, <2>5, UpdateShape
  <2>7. StatusTypeOK' /\ NodeTypeOK' /\ UNCHANGED <<signedFor, faults>>
    BY <1>0, <1>4 DEF ClearMined, StatusTypeOK, NodeTypeOK, statusVars, nodeVars
  <2> QED
    BY <1>0, <2>1, <2>4, <2>6, <2>7, TypeInvFrom
<1>5. CASE PrepareBoost(p)
  <2>1. PICK s \in {"recordBoost", "failed"} :
           Goto(p, "prepareBoost", [t EXCEPT !.step = s]) /\ t.step = "prepareBoost"
    BY <1>5 DEF PrepareBoost, Goto, t
  <2>2. [t EXCEPT !.step = s] \in Tick /\ TickShape([t EXCEPT !.step = s])
    BY <1>0, <2>1 DEF Tick, TickShape, ActiveStep, SubmitStep, OtherStep, HoldStep
  <2> QED
    BY <1>5, <2>1, <2>2, TypeInvRead DEF PrepareBoost
<1>6. CASE RecordBoost(p)
  <2>1. PICK h \in Hash :
          /\ Goto(p, "recordBoost", [t EXCEPT !.step = "sendBoost", !.row.hash = h,
                                               !.row.boosted = t.head])
          /\ signedFor' = [signedFor EXCEPT ![h] = t.id]
          /\ Update(t.id, [rows[t.id] EXCEPT !.hash = h, !.nonce = t.row.nonce,
                                             !.boosted = t.head])
    BY <1>6 DEF RecordBoost, t
  <2> DEFINE u == [t EXCEPT !.step = "sendBoost", !.row.hash = h, !.row.boosted = t.head]
             new == [rows[t.id] EXCEPT !.hash = h, !.nonce = t.row.nonce, !.boosted = t.head]
  <2>2. t.step = "recordBoost"
    BY <2>1 DEF Goto, t
  <2>3. /\ t.id \in Request /\ t.row \in Row /\ t.row.submitted # Null
        /\ t.row.nonce # Null /\ t.head \in Nat /\ h # Null
    BY <1>0, <2>2 DEF TickShape, RowShape, ActiveStep, Tick, Hash
  <2>4. u \in Tick /\ TickShape(u)
    BY <1>0, <2>3 DEF Row, RowShape, Tick, TickShape, ActiveStep, SubmitStep, OtherStep, HoldStep
  <2>5. rows[t.id] # Null => new \in Row /\ RowShape(new)
    BY <1>0, <2>3 DEF Row, RowShape
  <2>6. StoreTypeOK' /\ \A r \in Request : rows'[r] # Null => RowShape(rows'[r])
    BY <2>1, <2>3, <2>5, UpdateShape
  <2>7. StatusTypeOK' /\ NodeTypeOK' /\ UNCHANGED faults
    BY <1>0, <1>6 DEF RecordBoost, StatusTypeOK, NodeTypeOK, statusVars, nodeVars
  <2>8. signedFor' \in [Hash -> Request \union {Null}]
    BY <1>0, <2>1, <2>3
  <2> QED
    BY <1>0, <2>1, <2>4, <2>6, <2>7, <2>8, TypeInvFrom
<1>7. CASE SendBoost(p)
  <2> DEFINE x == TxOf(t, WalletOf[p])
  <2>1. /\ Goto(p, "sendBoost", Idle) /\ t.step = "sendBoost"
        /\ Accept(t.row.hash, x) \/ Refuse(x)
    BY <1>7 DEF SendBoost, Goto, t
  <2>2. t.id \in Request /\ t.row \in Row /\ t.row.nonce # Null /\ t.row.hash # Null
    BY <1>0, <2>1 DEF TickShape, RowShape, ActiveStep
  <2>3. x \in Tx /\ t.row.hash \in Hash
    BY <1>0, <2>2 DEF TxOf, Tx, Row
  <2>4. NodeTypeOK'
    BY <1>0, <2>1, <2>3 DEF Accept, Refuse, NodeTypeOK, nodeVars
  <2>5. /\ StoreTypeOK' /\ StatusTypeOK' /\ UNCHANGED <<signedFor, faults>>
        /\ \A r \in Request : rows'[r] # Null => RowShape(rows'[r])
    BY <1>0, <1>7 DEF SendBoost, StoreTypeOK, StatusTypeOK, storeVars, statusVars
  <2> QED
    BY <1>0, <2>1, <2>4, <2>5, IdleShape, TypeInvFrom
<1>8. CASE PublishMined(p)
  <2> DEFINE u == [t EXCEPT !.step = "recordMined"]
             m == Mined(t.id, t.row.hash)
  <2>1. Goto(p, "mined", u) /\ t.step = "mined" /\ Report(m)
    BY <1>8 DEF PublishMined, Goto, t
  <2>2. t.id \in Request /\ t.row.hash \in Hash \union {Null}
    BY <1>0, <2>1 DEF TickShape, ActiveStep, HoldStep, Row
  <2>3. u \in Tick /\ TickShape(u)
    BY <1>0, <2>1, IdleShape DEF Tick, TickShape, ActiveStep, SubmitStep, OtherStep, HoldStep
  <2>4. m \in Message
    BY <2>2 DEF Message, Mined
  <2>5. StatusTypeOK' /\ faults' \in Nat
    BY <1>0, <2>1, <2>4, ReportType
  <2>6. /\ StoreTypeOK' /\ NodeTypeOK' /\ UNCHANGED signedFor
        /\ \A r \in Request : rows'[r] # Null => RowShape(rows'[r])
    BY <1>0, <1>8 DEF PublishMined, StoreTypeOK, NodeTypeOK, storeVars, nodeVars
  <2> QED
    BY <1>0, <2>1, <2>3, <2>5, <2>6, TypeInvFrom
<1>9. CASE RecordMined(p)
  <2> DEFINE u == Idle
             new == [rows[t.id] EXCEPT !.mined = t.rec]
  <2>1. Goto(p, "recordMined", u) /\ t.step = "recordMined" /\ Update(t.id, new)
    BY <1>9 DEF RecordMined, Goto, t
  <2>2. t.id \in Request /\ t.rec \in Receipt \union {Null}
    BY <1>0, <2>1 DEF TickShape, ActiveStep, SubmitStep, HoldStep, Tick
  <2>3. u \in Tick /\ TickShape(u)
    BY <1>0, <2>1, IdleShape DEF Tick, TickShape, ActiveStep, SubmitStep, OtherStep, HoldStep
  <2>4. rows[t.id] # Null => new \in Row /\ RowShape(new)
    BY <1>0, <2>2 DEF Row, RowShape
  <2>5. StoreTypeOK' /\ \A r \in Request : rows'[r] # Null => RowShape(rows'[r])
    BY <2>1, <2>2, <2>4, UpdateShape
  <2>6. StatusTypeOK' /\ NodeTypeOK' /\ UNCHANGED <<signedFor, faults>>
    BY <1>0, <1>9 DEF RecordMined, StatusTypeOK, NodeTypeOK, statusVars, nodeVars
  <2> QED
    BY <1>0, <2>1, <2>3, <2>5, <2>6, TypeInvFrom
<1>10. CASE RecordMoved(p)
  <2> DEFINE u == Idle
             new == [rows[t.id] EXCEPT !.mined = t.rec]
  <2>1. Goto(p, "recordMoved", u) /\ t.step = "recordMoved" /\ Update(t.id, new)
    BY <1>10 DEF RecordMoved, Goto, t
  <2>2. t.id \in Request /\ t.rec \in Receipt \union {Null}
    BY <1>0, <2>1 DEF TickShape, ActiveStep, SubmitStep, HoldStep, Tick
  <2>3. u \in Tick /\ TickShape(u)
    BY <1>0, <2>1, IdleShape DEF Tick, TickShape, ActiveStep, SubmitStep, OtherStep, HoldStep
  <2>4. rows[t.id] # Null => new \in Row /\ RowShape(new)
    BY <1>0, <2>2 DEF Row, RowShape
  <2>5. StoreTypeOK' /\ \A r \in Request : rows'[r] # Null => RowShape(rows'[r])
    BY <2>1, <2>2, <2>4, UpdateShape
  <2>6. StatusTypeOK' /\ NodeTypeOK' /\ UNCHANGED <<signedFor, faults>>
    BY <1>0, <1>10 DEF RecordMoved, StatusTypeOK, NodeTypeOK, statusVars, nodeVars
  <2> QED
    BY <1>0, <2>1, <2>3, <2>5, <2>6, TypeInvFrom
<1>11. CASE PublishConfirmed(p)
  <2> DEFINE u == [t EXCEPT !.step = "deleteConfirmed"]
             m == Confirmed(t.id, t.row.hash)
  <2>1. Goto(p, "confirmed", u) /\ t.step = "confirmed" /\ Report(m)
    BY <1>11 DEF PublishConfirmed, Goto, t
  <2>2. t.id \in Request /\ t.row.hash \in Hash \union {Null}
    BY <1>0, <2>1 DEF TickShape, ActiveStep, HoldStep, Row
  <2>3. u \in Tick /\ TickShape(u)
    BY <1>0, <2>1, IdleShape DEF Tick, TickShape, ActiveStep, SubmitStep, OtherStep, HoldStep
  <2>4. m \in Message
    BY <2>2 DEF Message, Confirmed
  <2>5. StatusTypeOK' /\ faults' \in Nat
    BY <1>0, <2>1, <2>4, ReportType
  <2>6. /\ StoreTypeOK' /\ NodeTypeOK' /\ UNCHANGED signedFor
        /\ \A r \in Request : rows'[r] # Null => RowShape(rows'[r])
    BY <1>0, <1>11 DEF PublishConfirmed, StoreTypeOK, NodeTypeOK, storeVars, nodeVars
  <2> QED
    BY <1>0, <2>1, <2>3, <2>5, <2>6, TypeInvFrom
<1>12. CASE DeleteConfirmed(p)
  <2>1. Goto(p, "deleteConfirmed", At("pick")) /\ t.step = "deleteConfirmed" /\ Delete(t.id)
    BY <1>12 DEF DeleteConfirmed, Goto, t
  <2>2. t.id \in Request
    BY <1>0, <2>1 DEF TickShape, ActiveStep, HoldStep
  <2>3. StoreTypeOK' /\ \A r \in Request : rows'[r] # Null => RowShape(rows'[r])
    BY <2>1, <2>2, DeleteShape
  <2>4. StatusTypeOK' /\ NodeTypeOK' /\ UNCHANGED <<signedFor, faults>>
    BY <1>0, <1>12 DEF DeleteConfirmed, StatusTypeOK, NodeTypeOK, statusVars, nodeVars
  <2> QED
    BY <1>0, <2>1, <2>3, <2>4, IdleShape, TypeInvFrom
<1>13. CASE PickNext(p)
  <2>1. CASE Goto(p, "pick", Idle)
    BY <1>13, <2>1, IdleShape, TypeInvRead DEF PickNext
  <2>2. ASSUME NEW r \in First(RowsOf(WalletOf[p])),
               Goto(p, "pick", [At("submitHead") EXCEPT !.id = r, !.row = rows[r]])
        PROVE  TypeInv'
    <3> DEFINE u == [At("submitHead") EXCEPT !.id = r, !.row = rows[r]]
    <3>1. r \in Request /\ rows[r] \in Row
      BY <1>0, <2>2 DEF First, RowsOf
    <3>2. u \in Tick /\ TickShape(u)
      BY <3>1 DEF At, Tick, TickShape, ActiveStep, SubmitStep, OtherStep, HoldStep
    <3> QED
      BY <1>13, <2>2, <3>2, TypeInvRead DEF PickNext
  <2> QED
    BY <1>13, <2>1, <2>2 DEF PickNext
<1>14. CASE ReadSubmitHead(p)
  <2> DEFINE u == [t EXCEPT !.step = "prepareSubmit", !.head = head]
  <2>1. Goto(p, "submitHead", u) /\ t.step = "submitHead"
    BY <1>14 DEF ReadSubmitHead, Goto, t
  <2>2. u \in Tick /\ TickShape(u)
    BY <1>0, <2>1 DEF NodeTypeOK, Tick, TickShape, ActiveStep, SubmitStep, OtherStep, HoldStep
  <2> QED
    BY <1>14, <2>1, <2>2, TypeInvRead DEF ReadSubmitHead
<1>15. CASE PrepareSubmit(p)
  <2>1. ASSUME NEW n \in Nonce,
               Goto(p, "prepareSubmit", [t EXCEPT !.step = "sendSubmit", !.row.nonce = n])
        PROVE  TypeInv'
    <3> DEFINE u == [t EXCEPT !.step = "sendSubmit", !.row.nonce = n]
    <3>1. t.step = "prepareSubmit" /\ n # Null
      BY <2>1 DEF Goto, t, Nonce
    <3>2. t.id \in Request /\ t.row \in Row
      BY <1>0, <3>1 DEF TickShape, SubmitStep, HoldStep
    <3>3. u \in Tick /\ TickShape(u)
      BY <1>0, <3>1, <3>2 DEF Row, Tick, TickShape, ActiveStep, SubmitStep, OtherStep, HoldStep
    <3> QED
      BY <1>15, <2>1, <3>3, TypeInvRead DEF PrepareSubmit
  <2>2. CASE Goto(p, "prepareSubmit", [t EXCEPT !.step = "failed"])
    <3>1. t.step = "prepareSubmit"
      BY <2>2 DEF Goto, t
    <3>2. [t EXCEPT !.step = "failed"] \in Tick /\ TickShape([t EXCEPT !.step = "failed"])
      BY <1>0, <3>1 DEF Tick, TickShape, ActiveStep, SubmitStep, OtherStep, HoldStep
    <3> QED
      BY <1>15, <2>2, <3>2, TypeInvRead DEF PrepareSubmit
  <2> QED
    BY <1>15, <2>1, <2>2 DEF PrepareSubmit, t
<1>16. CASE SendSubmit(p)
  <2> DEFINE x == TxOf(t, WalletOf[p])
  <2>1. /\ StoreTypeOK' /\ StatusTypeOK' /\ UNCHANGED faults
        /\ \A r \in Request : rows'[r] # Null => RowShape(rows'[r])
    BY <1>0, <1>16 DEF SendSubmit, StoreTypeOK, StatusTypeOK, storeVars, statusVars
  <2>2. ASSUME NEW h \in Hash, Accept(h, x),
               Goto(p, "sendSubmit", [t EXCEPT !.step = "recordSubmit", !.row.hash = h]),
               signedFor' = [signedFor EXCEPT ![h] = t.id]
        PROVE  TypeInv'
    <3> DEFINE u == [t EXCEPT !.step = "recordSubmit", !.row.hash = h]
    <3>1. t.step = "sendSubmit" /\ h # Null
      BY <2>2 DEF Goto, t, Hash
    <3>2. t.id \in Request /\ t.row \in Row /\ t.row.nonce # Null
      BY <1>0, <3>1 DEF TickShape, SubmitStep, HoldStep
    <3>3. u \in Tick /\ TickShape(u)
      BY <1>0, <3>1, <3>2 DEF Row, Tick, TickShape, ActiveStep, SubmitStep, OtherStep, HoldStep
    <3>4. x \in Tx
      BY <1>0, <3>2 DEF TxOf, Tx, Row
    <3>5. NodeTypeOK' /\ signedFor' \in [Hash -> Request \union {Null}]
      BY <1>0, <2>2, <3>2, <3>4 DEF Accept, NodeTypeOK
    <3> QED
      BY <1>0, <2>1, <2>2, <3>3, <3>5, TypeInvFrom
  <2>3. ASSUME Refuse(x), Goto(p, "sendSubmit", Idle), UNCHANGED signedFor
        PROVE  TypeInv'
    <3>1. NodeTypeOK'
      BY <1>0, <2>3 DEF Refuse, NodeTypeOK, nodeVars
    <3> QED
      BY <1>0, <2>1, <2>3, <3>1, IdleShape, TypeInvFrom
  <2> QED
    BY <1>16, <2>2, <2>3 DEF SendSubmit, t
<1>17. CASE RecordSubmit(p)
  <2> DEFINE u == [t EXCEPT !.step = "submitted"]
             new == [rows[t.id] EXCEPT !.submitted = t.head, !.nonce = t.row.nonce,
                                       !.hash = t.row.hash]
  <2>1. Goto(p, "recordSubmit", u) /\ t.step = "recordSubmit" /\ Update(t.id, new)
    BY <1>17 DEF RecordSubmit, Goto, t
  <2>2. /\ t.id \in Request /\ t.row \in Row /\ t.head \in Nat
        /\ t.row.nonce # Null /\ t.row.hash # Null
    BY <1>0, <2>1 DEF TickShape, ActiveStep, SubmitStep, HoldStep, Tick
  <2>3. u \in Tick /\ TickShape(u)
    BY <1>0, <2>1, IdleShape DEF Tick, TickShape, ActiveStep, SubmitStep, OtherStep, HoldStep
  <2>4. rows[t.id] # Null => new \in Row /\ RowShape(new)
    BY <1>0, <2>2 DEF Row, RowShape
  <2>5. StoreTypeOK' /\ \A r \in Request : rows'[r] # Null => RowShape(rows'[r])
    BY <2>1, <2>2, <2>4, UpdateShape
  <2>6. StatusTypeOK' /\ NodeTypeOK' /\ UNCHANGED <<signedFor, faults>>
    BY <1>0, <1>17 DEF RecordSubmit, StatusTypeOK, NodeTypeOK, statusVars, nodeVars
  <2> QED
    BY <1>0, <2>1, <2>3, <2>5, <2>6, TypeInvFrom
<1>18. CASE PublishSubmitted(p)
  <2> DEFINE u == Idle
             m == Submitted(t.id, t.row.hash)
  <2>1. Goto(p, "submitted", u) /\ t.step = "submitted" /\ Report(m)
    BY <1>18 DEF PublishSubmitted, Goto, t
  <2>2. t.id \in Request /\ t.row.hash \in Hash \union {Null}
    BY <1>0, <2>1 DEF TickShape, ActiveStep, HoldStep, Row
  <2>3. u \in Tick /\ TickShape(u)
    BY <1>0, <2>1, IdleShape DEF Tick, TickShape, ActiveStep, SubmitStep, OtherStep, HoldStep
  <2>4. m \in Message
    BY <2>2 DEF Message, Submitted
  <2>5. StatusTypeOK' /\ faults' \in Nat
    BY <1>0, <2>1, <2>4, ReportType
  <2>6. /\ StoreTypeOK' /\ NodeTypeOK' /\ UNCHANGED signedFor
        /\ \A r \in Request : rows'[r] # Null => RowShape(rows'[r])
    BY <1>0, <1>18 DEF PublishSubmitted, StoreTypeOK, NodeTypeOK, storeVars, nodeVars
  <2> QED
    BY <1>0, <2>1, <2>3, <2>5, <2>6, TypeInvFrom
<1>19. CASE PublishFailed(p)
  <2> DEFINE u == [t EXCEPT !.step = "deleteFailed"]
             m == Failed(t.id)
  <2>1. Goto(p, "failed", u) /\ t.step = "failed" /\ Report(m)
    BY <1>19 DEF PublishFailed, Goto, t
  <2>2. t.id \in Request
    BY <1>0, <2>1 DEF TickShape, ActiveStep, HoldStep, Row
  <2>3. u \in Tick /\ TickShape(u)
    BY <1>0, <2>1, IdleShape DEF Tick, TickShape, ActiveStep, SubmitStep, OtherStep, HoldStep
  <2>4. m \in Message
    BY <2>2 DEF Message, Failed
  <2>5. StatusTypeOK' /\ faults' \in Nat
    BY <1>0, <2>1, <2>4, ReportType
  <2>6. /\ StoreTypeOK' /\ NodeTypeOK' /\ UNCHANGED signedFor
        /\ \A r \in Request : rows'[r] # Null => RowShape(rows'[r])
    BY <1>0, <1>19 DEF PublishFailed, StoreTypeOK, NodeTypeOK, storeVars, nodeVars
  <2> QED
    BY <1>0, <2>1, <2>3, <2>5, <2>6, TypeInvFrom
<1>20. CASE DeleteFailed(p)
  <2>1. Goto(p, "deleteFailed", Idle) /\ t.step = "deleteFailed" /\ Delete(t.id)
    BY <1>20 DEF DeleteFailed, Goto, t
  <2>2. t.id \in Request
    BY <1>0, <2>1 DEF TickShape, ActiveStep, HoldStep
  <2>3. StoreTypeOK' /\ \A r \in Request : rows'[r] # Null => RowShape(rows'[r])
    BY <2>1, <2>2, DeleteShape
  <2>4. StatusTypeOK' /\ NodeTypeOK' /\ UNCHANGED <<signedFor, faults>>
    BY <1>0, <1>20 DEF DeleteFailed, StatusTypeOK, NodeTypeOK, statusVars, nodeVars
  <2> QED
    BY <1>0, <2>1, <2>3, <2>4, IdleShape, TypeInvFrom
<1>21. CASE SignFails(p)
  <2>1. Goto(p, t.step, Idle)
    BY <1>21 DEF SignFails, Goto, t
  <2> QED
    BY <1>21, <2>1, IdleShape, TypeInvRead DEF SignFails
<1> QED
  BY <1>1, <1>2, <1>3, <1>4, <1>5, <1>6, <1>7, <1>8, <1>9, <1>10, <1>11, <1>12,
     <1>13, <1>14, <1>15, <1>16, <1>17, <1>18, <1>19, <1>20, <1>21 DEF Step

\* Every step of the system preserves the type invariant.
LEMMA TypeNext ==
    ASSUME TypeInv, [Next]_vars
    PROVE  TypeInv'
<1>1. ASSUME NEW p \in Watcher, Step(p) PROVE TypeInv'
  BY <1>1, TypeStep
<1>2. ASSUME NEW p \in Watcher, Abort(p) PROVE TypeInv'
  <2>1. Goto(p, tick[p].step, Idle)
    BY <1>2 DEF Abort, Goto
  <2>2. /\ StoreTypeOK' /\ StatusTypeOK' /\ NodeTypeOK'
        /\ signedFor' \in [Hash -> Request \union {Null}] /\ faults' \in Nat
        /\ \A r \in Request : rows'[r] # Null => RowShape(rows'[r])
    BY <1>2 DEF Abort, TypeInv, TypeOK, Shapes, StoreTypeOK, StatusTypeOK, NodeTypeOK,
                storeVars, statusVars, nodeVars
  <2> QED
    BY <2>1, <2>2, IdleShape, TypeInvFrom
<1>3. ASSUME NEW r \in Request, NEW w \in Wallet, Arrive(r, w) PROVE TypeInv'
  <2>1. NewRow(w) \in Row /\ RowShape(NewRow(w))
    BY DEF NewRow, Row, RowShape
  <2>2. StoreTypeOK' /\ \A s \in Request : rows'[s] # Null => RowShape(rows'[s])
    BY <1>3, <2>1 DEF Arrive, Upsert, OnConflict, TypeInv, TypeOK, Shapes, StoreTypeOK, storeVars
  <2> QED
    BY <1>3, <2>2 DEF Arrive, TypeInv, TypeOK, Shapes, StatusTypeOK, NodeTypeOK,
                      statusVars, nodeVars, localVars, TickShape
<1>4. ASSUME ChainStep PROVE TypeInv'
  <2>1. NodeTypeOK'
    BY <1>4, ChainType DEF ChainStep, TypeInv, TypeOK
  <2> QED
    BY <1>4, <2>1 DEF ChainStep, TypeInv, TypeOK, Shapes, StoreTypeOK, StatusTypeOK,
                      storeVars, statusVars, localVars, RowShape, TickShape
<1>5. CASE UNCHANGED vars
  BY <1>5 DEF vars, TypeInv, TypeOK, Shapes, StoreTypeOK, StatusTypeOK, NodeTypeOK,
              storeVars, statusVars, nodeVars, localVars, RowShape, TickShape
<1> QED
  BY <1>1, <1>2, <1>3, <1>4, <1>5 DEF Next

\* The type invariant holds initially.
LEMMA TypeInit == Init => TypeInv
<1> SUFFICES ASSUME Init PROVE TypeInv
  OBVIOUS
<1>1. TypeOK
  BY IdleShape DEF Init, StoreInit, StatusInit, NodeInit, TypeOK, StoreTypeOK,
                   StatusTypeOK, NodeTypeOK
<1>2. Shapes
  BY IdleShape DEF Init, StoreInit, Shapes
<1> QED
  BY <1>1, <1>2 DEF TypeInv

\* Type correctness of the watcher, the table, the status topic and the node,
\* for any number of watchers, wallets and requests: in particular Tick never
\* asks for the receipt of, or signs under the nonce of, a NULL column.
THEOREM TypeCorrect == Spec => []TypeOK
<1>1. TypeInv => TypeOK
  BY DEF TypeInv
<1> QED
  BY <1>1, TypeInit, TypeNext, PTL DEF Spec

-----------------------------------------------------------------------------
(* One watcher per wallet keeps the wallet's queue a lane with at most one   *)
(* submitted request.                                                      *)

\* A step of p that leaves the table alone keeps the lanes when p's new locals
\* fit the lane of p.
LEMMA LaneRead ==
    ASSUME OneActiveInv, TypeInv', NEW p \in Watcher, NEW from, NEW u \in Tick,
           Goto(p, from, u), UNCHANGED rows, Lane(p, u)
    PROVE  OneActiveInv'
<1>1. tick \in [Watcher -> Tick]
  BY DEF OneActiveInv, TypeInv, TypeOK
<1>2. /\ tick'[p] = u
      /\ \A q \in Watcher : q # p => tick'[q] = tick[q]
  BY <1>1, GotoLocals
<1>3. \A w : Active(w)' = Active(w)
  BY DEF Active, RowsOf
<1>4. AtMostOneActive'
  BY <1>3 DEF OneActiveInv, AtMostOneActive
<1>5. ASSUME NEW q \in Watcher PROVE Lane(q, tick[q])'
  <2>1. Lane(q, tick'[q])
    BY <1>2 DEF OneActiveInv, Lanes
  <2> QED
    BY <2>1, <1>3 DEF Lane
<1> QED
  BY <1>4, <1>5 DEF OneActiveInv, Lanes

\* A step of p that writes or deletes a row r of its own wallet keeps the
\* lanes of the other watchers, and its own when it ends or follows r.
LEMMA LaneWrite ==
    ASSUME OneWatcherPerWallet, OneActiveInv, TypeInv',
           NEW p \in Watcher, NEW from, NEW u \in Tick, Goto(p, from, u),
           NEW r \in Request, rows[r] # Null, rows[r].wallet = WalletOf[p],
           NEW new \in Row \union {Null}, new # Null => new.wallet = WalletOf[p],
           rows' = [rows EXCEPT ![r] = new],
           u.step \notin SubmitStep \union {"failed", "deleteFailed"},
           u.step \in ActiveStep => u.id = r /\ u.row = new /\ new # Null,
           u.step = "pick" => new = Null,
           new # Null \/ u.step = "pick" => Active(WalletOf[p]) \subseteq {r}
    PROVE  OneActiveInv'
<1>1. tick \in [Watcher -> Tick] /\ rows \in [Request -> Row \union {Null}]
  BY DEF OneActiveInv, TypeInv, TypeOK, StoreTypeOK
<1>2. /\ tick'[p] = u
      /\ \A q \in Watcher : q # p => tick'[q] = tick[q]
  BY <1>1, GotoLocals
<1>3. /\ rows'[r] = new
      /\ \A s \in Request : s # r => rows'[s] = rows[s]
  BY <1>1
<1>4. \A w : w # WalletOf[p] => Active(w)' = Active(w)
  BY <1>3 DEF Active, RowsOf
<1>5. /\ Active(WalletOf[p])' \subseteq Active(WalletOf[p]) \union {r}
      /\ new = Null => Active(WalletOf[p])' \subseteq Active(WalletOf[p]) \ {r}
  BY <1>3 DEF Active, RowsOf
<1>6. AtMostOneActive'
  <2> SUFFICES ASSUME NEW w \in Wallet, NEW a \in Active(w)', NEW b \in Active(w)'
               PROVE  a = b
    BY DEF AtMostOneActive
  <2>1. CASE w = WalletOf[p]
    BY <2>1, <1>5 DEF OneActiveInv, AtMostOneActive
  <2>2. CASE w # WalletOf[p]
    BY <2>2, <1>4 DEF OneActiveInv, AtMostOneActive
  <2> QED
    BY <2>1, <2>2
<1>7. ASSUME NEW q \in Watcher, q # p PROVE Lane(q, tick[q])'
  <2>1. WalletOf[q] # WalletOf[p]
    BY <1>7 DEF OneWatcherPerWallet
  <2>2. Lane(q, tick[q]) /\ TickShape(tick[q]) /\ tick'[q] = tick[q]
    BY <1>2, <1>7 DEF OneActiveInv, Lanes, TypeInv, Shapes
  <2>3. Active(WalletOf[q])' = Active(WalletOf[q])
    BY <2>1, <1>4
  <2>4. tick[q].step \in ActiveStep \union SubmitStep \union {"failed", "deleteFailed"} =>
          tick[q].id \in Request /\ tick[q].id # r
    BY <2>1, <2>2 DEF Lane, TickShape, HoldStep
  <2> QED
    BY <2>2, <2>3, <2>4, <1>3 DEF Lane
<1>8. Lane(p, tick[p])'
  BY <1>2, <1>3, <1>5 DEF Lane, SubmitStep, ActiveStep
<1> QED
  BY <1>6, <1>7, <1>8 DEF OneActiveInv, Lanes

\* Every step of a watcher preserves the lanes.
LEMMA LaneStep ==
    ASSUME OneWatcherPerWallet, OneActiveInv, TypeInv', NEW p \in Watcher, Step(p)
    PROVE  OneActiveInv'
<1> DEFINE t == tick[p]
           w == WalletOf[p]
<1>0. /\ t \in Tick /\ TickShape(t) /\ Lane(p, t)
      /\ tick \in [Watcher -> Tick] /\ NodeTypeOK
      /\ \A r \in Request : rows[r] # Null => rows[r] \in Row
      /\ w \in Wallet
      /\ \A a, b \in Active(w) : a = b
  BY DEF OneActiveInv, TypeInv, TypeOK, Shapes, Lanes, StoreTypeOK, AtMostOneActive
<1>a. Lane(p, Idle)
  BY DEF Lane, Idle, At, ActiveStep, SubmitStep
<1> HIDE DEF t
\* What p knows of the row it follows.
<1>b. ASSUME t.step \in ActiveStep
      PROVE  /\ t.id \in Request /\ rows[t.id] # Null /\ rows[t.id] = t.row
             /\ t.row \in Row /\ t.row.wallet = w /\ t.row.submitted # Null
             /\ Active(w) \subseteq {t.id}
  <2>1. /\ t.id \in Request /\ rows[t.id] # Null /\ rows[t.id] = t.row
        /\ t.row \in Row /\ t.row.wallet = w /\ t.row.submitted # Null
    BY <1>0, <1>b DEF TickShape, Lane
  <2>2. t.id \in Active(w)
    BY <2>1 DEF Active, RowsOf
  <2> QED
    BY <2>1, <2>2, <1>0
\* p goes on following its row, without writing.
<1>c. ASSUME NEW u \in Tick, t.step \in ActiveStep, u.step \in ActiveStep \union {"failed"},
             u.id = t.id, u.row = t.row
      PROVE  Lane(p, u)
  BY <1>c, <1>b DEF Lane, ActiveStep, SubmitStep
\* p goes on submitting the row it holds.
<1>d. ASSUME NEW u \in Tick, t.step \in SubmitStep, u.step \in SubmitStep \union {"failed"},
             u.id = t.id
      PROVE  Lane(p, u)
  BY <1>d, <1>0 DEF Lane, ActiveStep, SubmitStep
<1>1. CASE ReadActive(p)
  <2>1. CASE Active(w) = {} /\ Goto(p, "idle", At("pick"))
    <3>1. Lane(p, At("pick"))
      BY <2>1 DEF Lane, At, ActiveStep, SubmitStep
    <3> QED
      BY <1>1, <2>1, <3>1, IdleShape, LaneRead DEF ReadActive, storeVars
  <2>2. ASSUME NEW r \in Active(w),
               Goto(p, "idle", [At("head") EXCEPT !.id = r, !.row = rows[r]])
        PROVE  OneActiveInv'
    <3> DEFINE u == [At("head") EXCEPT !.id = r, !.row = rows[r]]
    <3>1. r \in Request /\ rows[r] \in Row /\ rows[r].wallet = w
      BY <1>0, <2>2 DEF Active, RowsOf
    <3>2. u \in Tick /\ Lane(p, u)
      BY <3>1 DEF At, Tick, Lane, ActiveStep, SubmitStep, OtherStep
    <3> QED
      BY <1>1, <2>2, <3>2, LaneRead DEF ReadActive, storeVars
  <2> QED
    BY <1>1, <2>1, <2>2 DEF ReadActive
<1>2. CASE ReadHead(p)
  <2> DEFINE u == [t EXCEPT !.step = "receipt", !.head = head]
  <2>1. Goto(p, "head", u) /\ t.step \in ActiveStep
    BY <1>2 DEF ReadHead, Goto, t, ActiveStep
  <2>2. u \in Tick /\ u.step \in ActiveStep /\ u.id = t.id /\ u.row = t.row
    BY <1>0 DEF NodeTypeOK, Tick, ActiveStep
  <2>3. Lane(p, u)
    BY <1>c, <2>1, <2>2
  <2> QED
    BY <1>2, <2>1, <2>2, <2>3, LaneRead DEF ReadHead, storeVars
<1>3. CASE ReadReceipt(p)
  <2> DEFINE rec == incl[t.row.hash]
             u == IF rec # Null THEN AfterFound(t, rec)
                  ELSE IF t.row.mined # Null THEN [t EXCEPT !.step = "clearMined"]
                  ELSE AfterMissing(t)
  <2>1. Goto(p, "receipt", u) /\ t.step = "receipt"
    BY <1>3 DEF ReadReceipt, Goto, t
  <2>2. /\ t.id \in Request /\ t.row \in Row /\ t.row.submitted # Null
        /\ RowShape(t.row) /\ t.row.hash \in Hash
    BY <1>0, <2>1 DEF TickShape, RowShape, Row, ActiveStep
  <2>3. rec # Null => rec \in Receipt
    BY <1>0, <2>2 DEF NodeTypeOK
  <2>4. u \in Tick
    BY <1>0, <2>2, <2>3, DecisionShape DEF Tick, ActiveStep
  <2>5. u = Idle \/ (u.step \in ActiveStep /\ u.id = t.id /\ u.row = t.row)
    BY <1>0 DEF AfterFound, AfterMissing, Tick, ActiveStep
  <2>6. Lane(p, u)
    BY <1>a, <1>c, <2>1, <2>4, <2>5 DEF ActiveStep
  <2> QED
    BY <1>3, <2>1, <2>4, <2>6, LaneRead DEF ReadReceipt, storeVars
<1>4. CASE ClearMined(p)
  <2> DEFINE v == [t EXCEPT !.row.mined = Null]
             u == AfterMissing(v)
             new == [rows[t.id] EXCEPT !.mined = Null]
  <2>1. Goto(p, "clearMined", u) /\ t.step \in ActiveStep /\ Update(t.id, new)
    BY <1>4 DEF ClearMined, Goto, t, ActiveStep
  <2>2. new \in Row /\ new.wallet = w /\ new # Null /\ rows' = [rows EXCEPT ![t.id] = new]
    BY <1>b, <2>1 DEF Row, Update
  <2>3. v \in Tick /\ v.id = t.id /\ v.row = new
    BY <1>0, <1>b, <2>1, <2>2 DEF Tick
  <2>4. u = Idle \/ (u = [v EXCEPT !.step = "prepareBoost"])
    BY DEF AfterMissing
  <2> HIDE DEF u, v, new
  <2>5. u \in Tick /\ u.step \in {"idle", "prepareBoost"}
        /\ (u.step \in ActiveStep => u.id = t.id /\ u.row = new)
    BY <2>3, <2>4, IdleShape DEF Tick, ActiveStep, SubmitStep, OtherStep, Idle, At
  <2> QED
    BY <1>b, <2>1, <2>2, <2>5, LaneWrite DEF SubmitStep, ActiveStep
<1>5. CASE PrepareBoost(p)
  <2>1. PICK s \in {"recordBoost", "failed"} :
           Goto(p, "prepareBoost", [t EXCEPT !.step = s]) /\ t.step = "prepareBoost"
    BY <1>5 DEF PrepareBoost, Goto, t
  <2> DEFINE u == [t EXCEPT !.step = s]
  <2>2. u \in Tick /\ Lane(p, u)
    BY <1>0, <1>c, <2>1 DEF Tick, ActiveStep, SubmitStep, OtherStep
  <2> QED
    BY <1>5, <2>1, <2>2, LaneRead DEF PrepareBoost, storeVars
<1>6. CASE RecordBoost(p)
  <2>1. PICK h \in Hash :
          /\ Goto(p, "recordBoost", [t EXCEPT !.step = "sendBoost", !.row.hash = h,
                                               !.row.boosted = t.head])
          /\ Update(t.id, [rows[t.id] EXCEPT !.hash = h, !.nonce = t.row.nonce,
                                             !.boosted = t.head])
    BY <1>6 DEF RecordBoost, t
  <2> DEFINE u == [t EXCEPT !.step = "sendBoost", !.row.hash = h, !.row.boosted = t.head]
             new == [rows[t.id] EXCEPT !.hash = h, !.nonce = t.row.nonce, !.boosted = t.head]
  <2>2. t.step \in ActiveStep /\ t.head \in Nat
    BY <1>0, <2>1 DEF Goto, t, ActiveStep, Tick
  <2>3. new \in Row /\ new.wallet = w /\ new # Null /\ rows' = [rows EXCEPT ![t.id] = new]
    <3>1. new \in Row /\ new.wallet = w /\ new # Null /\ rows[t.id] # Null
      <4>1. /\ rows[t.id] \in Row /\ rows[t.id].wallet = w /\ rows[t.id] # Null
            /\ t.row.nonce \in Nonce \union {Null}
        BY <1>b, <2>2 DEF Row
      <4>2. new \in Row /\ new.wallet = rows[t.id].wallet
        BY <2>2, <4>1 DEF Row
      <4> HIDE DEF new
      <4> QED
        BY <1>b, <2>2, <4>1, <4>2
    <3> HIDE DEF new
    <3> QED
      BY <2>1, <3>1 DEF Update, new
  <2>4. u.row = [t.row EXCEPT !.hash = h, !.boosted = t.head]
    BY <1>0 DEF Tick
  <2>5. u.row = new
    BY <1>b, <2>2, <2>4 DEF Row
  <2>6. u.id = t.id /\ u.step = "sendBoost"
    BY <1>0 DEF Tick
  <2>7. u \in Tick
    BY <1>0, <2>3, <2>5 DEF Tick, ActiveStep, SubmitStep, OtherStep
  <2>8. Goto(p, "recordBoost", u)
    BY <2>1
  <2> HIDE DEF u, new
  <2> QED
    BY <1>b, <2>2, <2>3, <2>5, <2>6, <2>7, <2>8, LaneWrite DEF SubmitStep, ActiveStep
<1>7. CASE SendBoost(p)
  BY <1>7, <1>a, IdleShape, LaneRead DEF SendBoost, storeVars
<1>8. CASE PublishMined(p)
  <2> DEFINE u == [t EXCEPT !.step = "recordMined"]
  <2>1. Goto(p, "mined", u) /\ t.step = "mined"
    BY <1>8 DEF PublishMined, Goto, t
  <2>2. u \in Tick /\ Lane(p, u)
    BY <1>0, <1>c, <2>1 DEF Tick, ActiveStep, SubmitStep, OtherStep
  <2> QED
    BY <1>8, <2>1, <2>2, LaneRead DEF PublishMined, storeVars
<1>9. CASE RecordMined(p)
  <2> DEFINE new == [rows[t.id] EXCEPT !.mined = t.rec]
  <2>1. Goto(p, "recordMined", Idle) /\ t.step \in ActiveStep /\ Update(t.id, new)
    BY <1>9 DEF RecordMined, Goto, t, ActiveStep
  <2>2. new \in Row /\ new.wallet = w /\ new # Null /\ rows' = [rows EXCEPT ![t.id] = new]
    BY <1>0, <1>b, <2>1 DEF Row, Tick, Update
  <2>3. Idle.step = "idle"
    BY DEF Idle, At
  <2> QED
    BY <1>b, <2>1, <2>2, <2>3, IdleShape, LaneWrite DEF SubmitStep, ActiveStep
<1>10. CASE RecordMoved(p)
  <2> DEFINE new == [rows[t.id] EXCEPT !.mined = t.rec]
  <2>1. Goto(p, "recordMoved", Idle) /\ t.step \in ActiveStep /\ Update(t.id, new)
    BY <1>10 DEF RecordMoved, Goto, t, ActiveStep
  <2>2. new \in Row /\ new.wallet = w /\ new # Null /\ rows' = [rows EXCEPT ![t.id] = new]
    BY <1>0, <1>b, <2>1 DEF Row, Tick, Update
  <2>3. Idle.step = "idle"
    BY DEF Idle, At
  <2> QED
    BY <1>b, <2>1, <2>2, <2>3, IdleShape, LaneWrite DEF SubmitStep, ActiveStep
<1>11. CASE PublishConfirmed(p)
  <2> DEFINE u == [t EXCEPT !.step = "deleteConfirmed"]
  <2>1. Goto(p, "confirmed", u) /\ t.step = "confirmed"
    BY <1>11 DEF PublishConfirmed, Goto, t
  <2>2. u \in Tick /\ Lane(p, u)
    BY <1>0, <1>c, <2>1 DEF Tick, ActiveStep, SubmitStep, OtherStep
  <2> QED
    BY <1>11, <2>1, <2>2, LaneRead DEF PublishConfirmed, storeVars
<1>12. CASE DeleteConfirmed(p)
  <2>1. Goto(p, "deleteConfirmed", At("pick")) /\ t.step \in ActiveStep /\ Delete(t.id)
    BY <1>12 DEF DeleteConfirmed, Goto, t, ActiveStep
  <2>2. At("pick").step = "pick" /\ rows' = [rows EXCEPT ![t.id] = Null]
    BY <2>1 DEF At, Delete
  <2> QED
    BY <1>b, <2>1, <2>2, IdleShape, LaneWrite DEF SubmitStep, ActiveStep
<1>13. CASE PickNext(p)
  <2>1. CASE Goto(p, "pick", Idle)
    BY <1>13, <2>1, <1>a, IdleShape, LaneRead DEF PickNext, storeVars
  <2>2. ASSUME NEW r \in First(RowsOf(w)),
               Goto(p, "pick", [At("submitHead") EXCEPT !.id = r, !.row = rows[r]])
        PROVE  OneActiveInv'
    <3> DEFINE u == [At("submitHead") EXCEPT !.id = r, !.row = rows[r]]
    <3>1. r \in Request /\ rows[r] \in Row /\ rows[r] # Null /\ rows[r].wallet = w
      BY <1>0, <2>2 DEF First, RowsOf
    <3>2. Active(w) = {}
      BY <1>0, <2>2 DEF Goto, t, Lane
    <3>3. u \in Tick /\ Lane(p, u)
      BY <3>1, <3>2 DEF At, Tick, Lane, ActiveStep, SubmitStep, OtherStep
    <3> QED
      BY <1>13, <2>2, <3>3, LaneRead DEF PickNext, storeVars
  <2> QED
    BY <1>13, <2>1, <2>2 DEF PickNext
<1>14. CASE ReadSubmitHead(p)
  <2> DEFINE u == [t EXCEPT !.step = "prepareSubmit", !.head = head]
  <2>1. Goto(p, "submitHead", u) /\ t.step = "submitHead"
    BY <1>14 DEF ReadSubmitHead, Goto, t
  <2>2. u \in Tick /\ u.step \in SubmitStep /\ u.id = t.id
    BY <1>0 DEF NodeTypeOK, Tick, SubmitStep
  <2>3. Lane(p, u)
    BY <1>d, <2>1, <2>2 DEF SubmitStep
  <2> QED
    BY <1>14, <2>1, <2>2, <2>3, LaneRead DEF ReadSubmitHead, storeVars
<1>15. CASE PrepareSubmit(p)
  <2>1. ASSUME NEW n \in Nonce,
               Goto(p, "prepareSubmit", [t EXCEPT !.step = "sendSubmit", !.row.nonce = n])
        PROVE  OneActiveInv'
    <3> DEFINE u == [t EXCEPT !.step = "sendSubmit", !.row.nonce = n]
    <3>1. t.step = "prepareSubmit"
      BY <2>1 DEF Goto, t
    <3>2. t.row \in Row
      BY <1>0, <3>1 DEF TickShape, SubmitStep, HoldStep
    <3>3. u \in Tick /\ u.step \in SubmitStep /\ u.id = t.id
      BY <1>0, <3>2 DEF Row, Tick, SubmitStep
    <3>4. Lane(p, u)
      BY <1>d, <3>1, <3>3 DEF SubmitStep
    <3> QED
      BY <1>15, <2>1, <3>3, <3>4, LaneRead DEF PrepareSubmit, storeVars
  <2>2. CASE Goto(p, "prepareSubmit", [t EXCEPT !.step = "failed"])
    <3> DEFINE u == [t EXCEPT !.step = "failed"]
    <3>1. t.step = "prepareSubmit"
      BY <2>2 DEF Goto, t
    <3>2. u \in Tick /\ Lane(p, u)
      BY <1>0, <1>d, <3>1 DEF Tick, SubmitStep, OtherStep
    <3> QED
      BY <1>15, <2>2, <3>2, LaneRead DEF PrepareSubmit, storeVars
  <2> QED
    BY <1>15, <2>1, <2>2 DEF PrepareSubmit, t
<1>16. CASE SendSubmit(p)
  <2>1. ASSUME NEW h \in Hash,
               Goto(p, "sendSubmit", [t EXCEPT !.step = "recordSubmit", !.row.hash = h])
        PROVE  OneActiveInv'
    <3> DEFINE u == [t EXCEPT !.step = "recordSubmit", !.row.hash = h]
    <3>1. t.step = "sendSubmit"
      BY <2>1 DEF Goto, t
    <3>2. t.row \in Row
      BY <1>0, <3>1 DEF TickShape, SubmitStep, HoldStep
    <3>3. u \in Tick /\ u.step \in SubmitStep /\ u.id = t.id
      BY <1>0, <3>2 DEF Row, Tick, SubmitStep
    <3>4. Lane(p, u)
      BY <1>d, <3>1, <3>3 DEF SubmitStep
    <3> QED
      BY <1>16, <2>1, <3>3, <3>4, LaneRead DEF SendSubmit, storeVars
  <2>2. CASE Goto(p, "sendSubmit", Idle)
    BY <1>16, <2>2, <1>a, IdleShape, LaneRead DEF SendSubmit, storeVars
  <2> QED
    BY <1>16, <2>1, <2>2 DEF SendSubmit, t
<1>17. CASE RecordSubmit(p)
  <2> DEFINE u == [t EXCEPT !.step = "submitted"]
             new == [rows[t.id] EXCEPT !.submitted = t.head, !.nonce = t.row.nonce,
                                       !.hash = t.row.hash]
  <2>1. Goto(p, "recordSubmit", u) /\ t.step = "recordSubmit" /\ Update(t.id, new)
    BY <1>17 DEF RecordSubmit, Goto, t
  <2>2. /\ t.id \in Request /\ t.row \in Row /\ t.head \in Nat
        /\ rows[t.id] # Null /\ rows[t.id].wallet = w /\ Active(w) = {}
    BY <1>0, <2>1 DEF TickShape, Lane, SubmitStep, HoldStep, Tick
  <2>3. new \in Row /\ new.wallet = w /\ rows' = [rows EXCEPT ![t.id] = new]
    BY <1>0, <2>1, <2>2 DEF Row, Update
  <2>4. u \in Tick /\ u.step = "submitted"
    BY <1>0, <2>1 DEF Tick, OtherStep
  <2> QED
    BY <2>1, <2>2, <2>3, <2>4, LaneWrite DEF SubmitStep, ActiveStep
<1>18. CASE PublishSubmitted(p)
  BY <1>18, <1>a, IdleShape, LaneRead DEF PublishSubmitted, storeVars
<1>19. CASE PublishFailed(p)
  <2> DEFINE u == [t EXCEPT !.step = "deleteFailed"]
  <2>1. Goto(p, "failed", u) /\ t.step = "failed"
    BY <1>19 DEF PublishFailed, Goto, t
  <2>2. u \in Tick /\ Lane(p, u)
    BY <1>0, <2>1 DEF Lane, Tick, ActiveStep, SubmitStep, OtherStep
  <2> QED
    BY <1>19, <2>1, <2>2, LaneRead DEF PublishFailed, storeVars
<1>20. CASE DeleteFailed(p)
  <2>1. Goto(p, "deleteFailed", Idle) /\ t.step = "deleteFailed" /\ Delete(t.id)
    BY <1>20 DEF DeleteFailed, Goto, t
  <2>2. t.id \in Request /\ rows[t.id] # Null /\ rows[t.id].wallet = w
    BY <1>0, <2>1 DEF TickShape, Lane, HoldStep
  <2>3. Idle.step = "idle" /\ rows' = [rows EXCEPT ![t.id] = Null]
    BY <2>1 DEF Idle, At, Delete
  <2> QED
    BY <2>1, <2>2, <2>3, IdleShape, LaneWrite DEF SubmitStep, ActiveStep
<1>21. CASE SignFails(p)
  <2>1. Goto(p, t.step, Idle)
    BY <1>21 DEF SignFails, Goto, t
  <2> QED
    BY <1>21, <2>1, <1>a, IdleShape, LaneRead DEF SignFails, storeVars
<1> QED
  BY <1>1, <1>2, <1>3, <1>4, <1>5, <1>6, <1>7, <1>8, <1>9, <1>10, <1>11, <1>12,
     <1>13, <1>14, <1>15, <1>16, <1>17, <1>18, <1>19, <1>20, <1>21 DEF Step

\* A step that inserts rows and ends ticks, and changes none of the rows there
\* are, preserves the lanes.
LEMMA LaneAside ==
    ASSUME OneActiveInv, TypeInv',
           \A p \in Watcher : tick'[p] \in {tick[p], Idle},
           \A r \in Request : rows[r] # Null => rows'[r] = rows[r],
           \A r \in Request : rows[r] = Null /\ rows'[r] # Null => rows'[r].submitted = Null
    PROVE  OneActiveInv'
<1>1. \A w : Active(w)' = Active(w)
  BY DEF Active, RowsOf
<1>2. AtMostOneActive'
  BY <1>1 DEF OneActiveInv, AtMostOneActive
<1>3. ASSUME NEW p \in Watcher PROVE Lane(p, tick[p])'
  <2>1. CASE tick'[p] = Idle
    BY <2>1 DEF Lane, Idle, At, ActiveStep, SubmitStep
  <2>2. CASE tick'[p] = tick[p]
    <3>1. Lane(p, tick[p]) /\ TickShape(tick[p])
      BY DEF OneActiveInv, Lanes, TypeInv, Shapes
    <3>2. tick[p].step \in ActiveStep => rows[tick[p].id] # Null
      BY <3>1 DEF Lane, TickShape
    <3> QED
      BY <1>1, <2>2, <3>1, <3>2 DEF Lane, TickShape, HoldStep
  <2> QED
    BY <2>1, <2>2
<1> QED
  BY <1>2, <1>3 DEF OneActiveInv, Lanes

\* Every step of the system preserves the lanes.
LEMMA LaneNext ==
    ASSUME OneWatcherPerWallet, OneActiveInv, [Next]_vars
    PROVE  OneActiveInv'
<1>0. TypeInv' /\ rows \in [Request -> Row \union {Null}] /\ tick \in [Watcher -> Tick]
  BY TypeNext DEF OneActiveInv, TypeInv, TypeOK, StoreTypeOK
<1>1. ASSUME NEW p \in Watcher, Step(p) PROVE OneActiveInv'
  BY <1>0, <1>1, LaneStep
<1>2. ASSUME NEW p \in Watcher, Abort(p) PROVE OneActiveInv'
  BY <1>0, <1>2, LaneAside DEF Abort, storeVars
<1>3. ASSUME NEW r \in Request, NEW w \in Wallet, Arrive(r, w) PROVE OneActiveInv'
  <2>1. /\ tick' = tick
        /\ rows' = rows \/ (rows[r] = Null /\ rows' = [rows EXCEPT ![r] = NewRow(w)])
    BY <1>0, <1>3 DEF Arrive, Upsert, OnConflict, storeVars, localVars
  <2>2. \A s \in Request : rows[s] # Null => rows'[s] = rows[s]
    BY <1>0, <2>1
  <2>3. \A s \in Request : rows'[s] \in {rows[s], NewRow(w)}
    BY <1>0, <2>1
  <2>4. NewRow(w).submitted = Null
    BY DEF NewRow
  <2> QED
    BY <1>0, <2>1, <2>2, <2>3, <2>4, LaneAside
<1>4. CASE ChainStep \/ UNCHANGED vars
  BY <1>0, <1>4, LaneAside DEF ChainStep, vars, storeVars, localVars
<1> QED
  BY <1>1, <1>2, <1>3, <1>4 DEF Next

\* The table is empty initially.
LEMMA LaneInit == Init => OneActiveInv
<1> SUFFICES ASSUME Init PROVE OneActiveInv
  OBVIOUS
<1>1. \A w : Active(w) = {}
  BY DEF Init, StoreInit, Active, RowsOf
<1>2. \A p \in Watcher : Lane(p, tick[p])
  BY DEF Init, Lane, Idle, At, ActiveStep, SubmitStep
<1> QED
  BY <1>1, <1>2, TypeInit DEF OneActiveInv, AtMostOneActive, Lanes

\* With one watcher per wallet (one replica of the service) the table never
\* holds two submitted rows of a wallet, over any faults, redeliveries,
\* boosts and reorgs: what the comment at loop.go:103 claims.
THEOREM AtMostOneSubmitted ==
    ASSUME OneWatcherPerWallet PROVE Spec => []AtMostOneActive
<1>1. Init => OneActiveInv
  BY LaneInit
<1>2. OneActiveInv /\ [Next]_vars => OneActiveInv'
  BY LaneNext
<1>3. OneActiveInv => AtMostOneActive
  BY DEF OneActiveInv
<1> QED
  BY <1>1, <1>2, <1>3, PTL DEF Spec

-----------------------------------------------------------------------------
(* A Confirmed event is final as long as no reorg is deeper than           *)
(* ConfirmationBlocks, with any number of watchers on a wallet.            *)

\* FinalInv holds after a step of p once every name of a hash agrees with the
\* request it was signed for and p confirms only what is buried.
LEMMA FinalFrom ==
    ASSUME FinalInv, TypeInv', NEW p \in Watcher, NEW from, NEW u \in Tick,
           Goto(p, from, u), UNCHANGED <<head, incl>>,
           \A h \in Hash : signedFor[h] # Null => signedFor'[h] = signedFor[h],
           \A h \in Hash : tx'[h] # Null => tx'[h].req = signedFor'[h],
           \A h \in Hash : tx[h] # Null => tx'[h] # Null,
           \A r \in Request : rows'[r] # Null /\ rows'[r].hash # Null =>
                signedFor'[rows'[r].hash] = r,
           u.step \in ActiveStep \union {"recordSubmit"} => signedFor'[u.row.hash] = u.id,
           u.head <= head,
           u.step \in {"confirmed", "deleteConfirmed"} => Buried(u.row.hash),
           \A m \in Reported' : \/ m \in Reported
                               \/ m.type # "Confirmed"
                               \/ /\ m.hash \in Hash /\ Buried(m.hash)
                                  /\ signedFor[m.hash] = m.req
    PROVE  FinalInv'
<1>1. tick \in [Watcher -> Tick]
  BY DEF FinalInv, TypeInv, TypeOK
<1>2. /\ tick'[p] = u
      /\ \A q \in Watcher : q # p => tick'[q] = tick[q]
  BY <1>1, GotoLocals
<1>3. \A h : Buried(h)' <=> Buried(h)
  BY DEF Buried, OnChain
<1>4. ChainShape'
  BY DEF FinalInv, ChainShape, OnChain
<1>5. ASSUME NEW q \in Watcher,
             tick'[q].step \in ActiveStep \union {"recordSubmit"}
      PROVE  signedFor'[tick'[q].row.hash] = tick'[q].id
  <2>1. CASE q = p
    BY <1>2, <1>5, <2>1
  <2>2. CASE q # p
    <3>1. tick'[q] = tick[q]
      BY <1>2, <2>2
    <3>2. TickShape(tick[q]) /\ signedFor[tick[q].row.hash] = tick[q].id
      BY <1>5, <3>1 DEF FinalInv, TypeInv, Shapes, HashOwners
    <3>3. tick[q].id \in Request /\ tick[q].row.hash \in Hash
      BY <1>5, <3>1, <3>2 DEF TickShape, RowShape, Row, HoldStep, SubmitStep
    <3> QED
      BY <3>1, <3>2, <3>3
  <2> QED
    BY <2>1, <2>2
<1>6. HashOwners'
  BY <1>5 DEF HashOwners
<1>7. ASSUME NEW m \in Reported', m.type = "Confirmed"
      PROVE  m.hash \in Hash /\ Buried(m.hash)' /\ signedFor'[m.hash] = m.req
  <2>1. m \in Message
    BY <1>7 DEF TypeInv, TypeOK, StatusTypeOK, Reported
  <2>2. m.hash \in Hash /\ Buried(m.hash) /\ signedFor[m.hash] = m.req
    BY <1>7 DEF FinalInv, ConfirmedBuried
  <2> QED
    BY <1>3, <2>1, <2>2 DEF Message
<1>8. \A q \in Watcher : /\ tick'[q].head <= head'
                         /\ tick'[q].step \in {"confirmed", "deleteConfirmed"} =>
                               Buried(tick'[q].row.hash)
  BY <1>2 DEF FinalInv, ConfirmedBuried
<1>9. ConfirmedBuried'
  BY <1>3, <1>7, <1>8 DEF ConfirmedBuried
<1> QED
  BY <1>4, <1>6, <1>9 DEF FinalInv

\* Steps of p that write no row, sign nothing and report no confirmation.
LEMMA FinalRead ==
    ASSUME FinalInv, TypeInv', NEW p \in Watcher, NEW from, NEW u \in Tick,
           Goto(p, from, u), UNCHANGED <<rows, head, incl, tx, signedFor>>,
           u.step \in ActiveStep \union {"recordSubmit"} => signedFor[u.row.hash] = u.id,
           u.head <= head,
           u.step \in {"confirmed", "deleteConfirmed"} => Buried(u.row.hash),
           \A m \in Reported' : m \in Reported \/ m.type # "Confirmed"
    PROVE  FinalInv'
<1>1. /\ \A h \in Hash : tx'[h] # Null => tx'[h].req = signedFor'[h]
      /\ \A r \in Request : rows'[r] # Null /\ rows'[r].hash # Null =>
                signedFor'[rows'[r].hash] = r
  BY DEF FinalInv, HashOwners
<1> QED
  BY <1>1, FinalFrom

\* The tick ends, or goes on to pick a row, with nothing in hand.
LEMMA FinalIdle ==
    ASSUME FinalInv, NEW u \in {Idle, At("pick")}
    PROVE  /\ u \in Tick /\ u.step \notin ActiveStep \union {"recordSubmit"}
           /\ u.step \notin {"confirmed", "deleteConfirmed"} /\ u.head <= head
BY IdleShape DEF Idle, At, ActiveStep, FinalInv, TypeInv, TypeOK, NodeTypeOK

\* A write of row r that stores a hash signed for r, or none.
LEMMA FinalWrite ==
    ASSUME FinalInv, NEW r \in Request, NEW new, Update(r, new),
           rows[r] # Null /\ new.hash # Null => signedFor'[new.hash] = r,
           \A h \in Hash : signedFor[h] # Null => signedFor'[h] = signedFor[h]
    PROVE  \A s \in Request : rows'[s] # Null /\ rows'[s].hash # Null =>
                signedFor'[rows'[s].hash] = s
<1>2. rows \in [Request -> Row \union {Null}]
  BY DEF FinalInv, TypeInv, TypeOK, StoreTypeOK
<1>1. \A s \in Request : rows[s] # Null /\ rows[s].hash # Null =>
          rows[s].hash \in Hash /\ signedFor[rows[s].hash] = s
  <2>1. \A s \in Request : rows[s] # Null /\ rows[s].hash # Null => rows[s].hash \in Hash
    BY <1>2 DEF Row
  <2> QED
    BY <2>1 DEF FinalInv, HashOwners
<1> QED
  BY <1>1, <1>2 DEF Update

\* Every step of a watcher preserves FinalInv.
LEMMA FinalStep ==
    ASSUME FinalInv, TypeInv', NEW p \in Watcher, Step(p)
    PROVE  FinalInv'
<1> DEFINE t == tick[p]
<1>0. /\ t \in Tick /\ TickShape(t) /\ t.head <= head
      /\ NodeTypeOK /\ StatusTypeOK
      /\ \A r \in Request : rows[r] # Null => rows[r] \in Row /\ RowShape(rows[r])
      /\ \A r \in Request : rows[r] # Null /\ rows[r].hash # Null =>
                signedFor[rows[r].hash] = r
      /\ t.step \in ActiveStep \union {"recordSubmit"} => signedFor[t.row.hash] = t.id
      /\ t.step \in {"confirmed", "deleteConfirmed"} => Buried(t.row.hash)
      /\ \A h \in Hash : tx[h] # Null => tx[h].req = signedFor[h]
      /\ faults \in Nat
  BY DEF FinalInv, TypeInv, TypeOK, Shapes, StoreTypeOK, HashOwners, ConfirmedBuried
<1> HIDE DEF t
\* p goes on following its row.
<1>a. ASSUME NEW s \in (ActiveStep \union {"failed"}) \ {"confirmed", "deleteConfirmed"},
             t.step \in ActiveStep, Goto(p, t.step, [t EXCEPT !.step = s]),
             UNCHANGED <<rows, head, incl, tx, signedFor>>,
             \A m \in Reported' : m \in Reported \/ m.type # "Confirmed"
      PROVE  FinalInv'
  <2> DEFINE u == [t EXCEPT !.step = s]
  <2>1. /\ u \in Tick /\ u.head = t.head /\ u.row = t.row /\ u.id = t.id /\ u.step = s
    BY <1>0 DEF Tick, OtherStep
  <2>2. /\ Goto(p, t.step, u)
        /\ u.step \in ActiveStep \union {"recordSubmit"} => signedFor[u.row.hash] = u.id
        /\ u.head <= head /\ u.step \notin {"confirmed", "deleteConfirmed"}
    BY <1>0, <1>a, <2>1 DEF ActiveStep
  <2> HIDE DEF u
  <2> QED
    BY <1>a, <2>1, <2>2, FinalRead
\* The tick ends and the table, the signatures and the node are as before.
<1>b. ASSUME NEW from, NEW u \in {Idle, At("pick")}, Goto(p, from, u),
             UNCHANGED <<rows, head, incl, tx, signedFor>>,
             \A m \in Reported' : m \in Reported \/ m.type # "Confirmed"
      PROVE  FinalInv'
  BY <1>b, FinalIdle, FinalRead
<1>1. CASE ReadActive(p)
  <2>0. UNCHANGED <<rows, head, incl, tx, signedFor, published, lost>>
    BY <1>1 DEF ReadActive, storeVars, statusVars, nodeVars
  <2>1. CASE Goto(p, "idle", At("pick"))
    BY <1>b, <2>0, <2>1 DEF Reported
  <2>2. ASSUME NEW r \in Active(WalletOf[p]),
               Goto(p, "idle", [At("head") EXCEPT !.id = r, !.row = rows[r]])
        PROVE  FinalInv'
    <3> DEFINE u == [At("head") EXCEPT !.id = r, !.row = rows[r]]
    <3>1. /\ r \in Request /\ rows[r] \in Row /\ rows[r].hash # Null
          /\ signedFor[rows[r].hash] = r
      BY <1>0, <2>2 DEF Active, RowsOf, RowShape
    <3>2. u \in Tick /\ u.id = r /\ u.row = rows[r] /\ u.step = "head" /\ u.head = 0
      BY <3>1 DEF At, Tick, ActiveStep, SubmitStep, OtherStep
    <3>3. 0 <= head
      BY <1>0 DEF NodeTypeOK
    <3>4. Goto(p, "idle", u)
      BY <2>2
    <3> HIDE DEF u
    <3> QED
      BY <2>0, <3>1, <3>2, <3>3, <3>4, FinalRead DEF Reported
  <2> QED
    BY <1>1, <2>1, <2>2 DEF ReadActive
<1>2. CASE ReadHead(p)
  <2> DEFINE u == [t EXCEPT !.step = "receipt", !.head = head]
  <2>0. UNCHANGED <<rows, head, incl, tx, signedFor, published, lost>>
    BY <1>2 DEF ReadHead, storeVars, statusVars, nodeVars
  <2>1. Goto(p, "head", u) /\ t.step \in ActiveStep
    BY <1>2 DEF ReadHead, Goto, t, ActiveStep
  <2>2. u \in Tick /\ u.head = head /\ u.row = t.row /\ u.id = t.id /\ u.step = "receipt"
    BY <1>0 DEF Tick, NodeTypeOK, ActiveStep
  <2>3. u.head <= head /\ signedFor[u.row.hash] = u.id
    BY <1>0, <2>1, <2>2 DEF NodeTypeOK
  <2> HIDE DEF u
  <2> QED
    BY <2>0, <2>1, <2>2, <2>3, FinalRead DEF Reported
<1>3. CASE ReadReceipt(p)
  <2> DEFINE rec == incl[t.row.hash]
             u == IF rec # Null THEN AfterFound(t, rec)
                  ELSE IF t.row.mined # Null THEN [t EXCEPT !.step = "clearMined"]
                  ELSE AfterMissing(t)
  <2>0. UNCHANGED <<rows, head, incl, tx, signedFor, published, lost>>
    BY <1>3 DEF ReadReceipt, storeVars, statusVars, nodeVars
  <2>1. Goto(p, "receipt", u) /\ t.step = "receipt"
    BY <1>3 DEF ReadReceipt, Goto, t
  <2>2. /\ t.id \in Request /\ t.row \in Row /\ t.row.submitted # Null
        /\ RowShape(t.row) /\ t.row.hash \in Hash
    BY <1>0, <2>1 DEF TickShape, RowShape, Row, ActiveStep
  <2>3. rec # Null => rec \in Receipt
    BY <1>0, <2>2 DEF NodeTypeOK
  <2>4. u \in Tick
    BY <1>0, <2>2, <2>3, DecisionShape DEF Tick, ActiveStep
  <2>5. \/ u = Idle
        \/ u.step \in ActiveStep /\ u.id = t.id /\ u.row = t.row /\ u.head = t.head
    BY <1>0 DEF AfterFound, AfterMissing, Tick, ActiveStep
  <2>6. /\ u.step # "deleteConfirmed"
        /\ u.step = "confirmed" => rec # Null /\ DeepEnough(t, rec)
    BY <1>0, <2>1 DEF AfterFound, AfterMissing, Tick, Idle, At
  <2>7. u.step = "confirmed" => Buried(t.row.hash)
    BY <1>0, <2>2, <2>3, <2>6 DEF DeepEnough, Buried, OnChain, NodeTypeOK, Receipt, Tick
  <2> HIDE DEF u, rec
  <2>8. CASE u = Idle
    BY <2>0, <2>1, <2>8, <1>b DEF Reported
  <2>9. CASE u # Idle
    BY <1>0, <2>0, <2>1, <2>4, <2>5, <2>6, <2>7, <2>9, FinalRead DEF Reported, ActiveStep
  <2> QED
    BY <2>8, <2>9
<1>4. CASE ClearMined(p)
  <2> DEFINE v == [t EXCEPT !.row.mined = Null]
             u == AfterMissing(v)
             new == [rows[t.id] EXCEPT !.mined = Null]
  <2>0. UNCHANGED <<head, incl, tx, signedFor, published, lost>>
    BY <1>4 DEF ClearMined, statusVars, nodeVars
  <2>1. Goto(p, "clearMined", u) /\ t.step \in ActiveStep /\ Update(t.id, new)
    BY <1>4 DEF ClearMined, Goto, t, ActiveStep
  <2>2. t.id \in Request /\ t.row \in Row
    BY <1>0, <2>1 DEF TickShape
  <2>3. rows[t.id] # Null => new.hash = rows[t.id].hash
    BY <1>0, <2>2 DEF Row
  <2>4. \A s \in Request : rows'[s] # Null /\ rows'[s].hash # Null =>
            signedFor'[rows'[s].hash] = s
    BY <1>0, <2>0, <2>1, <2>2, <2>3, FinalWrite
  <2>5. v \in Tick /\ v.id = t.id /\ v.row.hash = t.row.hash /\ v.head = t.head
    BY <1>0, <2>2 DEF Tick, Row
  <2>6. u = Idle \/ u = [v EXCEPT !.step = "prepareBoost"]
    BY DEF AfterMissing
  <2> HIDE DEF u, v, new
  <2>7. /\ u \in Tick /\ u.step \in {"idle", "prepareBoost"}
        /\ u.head <= head /\ (u.step \in ActiveStep => u.id = t.id /\ u.row.hash = t.row.hash)
    BY <1>0, <2>5, <2>6, FinalIdle DEF Tick, ActiveStep, SubmitStep, OtherStep, Idle, At
  <2> QED
    BY <1>0, <2>0, <2>1, <2>4, <2>7, FinalFrom DEF Reported
<1>5. CASE PrepareBoost(p)
  <2>1. PICK s \in {"recordBoost", "failed"} :
           Goto(p, t.step, [t EXCEPT !.step = s]) /\ t.step = "prepareBoost"
    BY <1>5 DEF PrepareBoost, Goto, t
  <2> QED
    BY <1>5, <2>1, <1>a DEF PrepareBoost, Reported, ActiveStep, storeVars, statusVars, nodeVars
<1>6. CASE RecordBoost(p)
  <2>0. UNCHANGED <<head, incl, tx, published, lost>>
    BY <1>6 DEF RecordBoost, statusVars, nodeVars
  <2>1. PICK h \in Hash :
          /\ signedFor[h] = Null
          /\ Goto(p, "recordBoost", [t EXCEPT !.step = "sendBoost", !.row.hash = h,
                                               !.row.boosted = t.head])
          /\ signedFor' = [signedFor EXCEPT ![h] = t.id]
          /\ Update(t.id, [rows[t.id] EXCEPT !.hash = h, !.nonce = t.row.nonce,
                                             !.boosted = t.head])
    BY <1>6 DEF RecordBoost, NewHash, t
  <2> DEFINE u == [t EXCEPT !.step = "sendBoost", !.row.hash = h, !.row.boosted = t.head]
             new == [rows[t.id] EXCEPT !.hash = h, !.nonce = t.row.nonce, !.boosted = t.head]
  <2>2. t.id \in Request /\ t.row \in Row /\ t.head \in Nat
    BY <1>0, <2>1 DEF Goto, t, TickShape, ActiveStep, Tick
  <2>3. /\ signedFor'[h] = t.id
        /\ \A g \in Hash : signedFor[g] # Null => signedFor'[g] = signedFor[g]
    BY <2>1 DEF FinalInv, TypeInv, TypeOK
  <2>4. rows[t.id] # Null => new.hash = h
    BY <1>0, <2>2 DEF Row
  <2>5. \A s \in Request : rows'[s] # Null /\ rows'[s].hash # Null =>
            signedFor'[rows'[s].hash] = s
    BY <2>1, <2>2, <2>3, <2>4, FinalWrite
  <2>6. \A g \in Hash : tx'[g] # Null => tx'[g].req = signedFor'[g]
    BY <1>0, <2>0, <2>3 DEF NodeTypeOK, Tx
  <2>7. /\ u \in Tick /\ u.step = "sendBoost" /\ u.id = t.id /\ u.row.hash = h
        /\ u.head = t.head
    BY <1>0, <2>2 DEF Tick, Row, ActiveStep
  <2>8. /\ Goto(p, "recordBoost", u) /\ u.head <= head
        /\ \A g \in Hash : tx[g] # Null => tx'[g] # Null
    BY <1>0, <2>0, <2>1, <2>7
  <2> HIDE DEF u
  <2> QED
    BY <2>0, <2>3, <2>5, <2>6, <2>7, <2>8, FinalFrom DEF Reported
<1>7. CASE SendBoost(p)
  <2> DEFINE x == TxOf(t, WalletOf[p])
  <2>0. UNCHANGED <<rows, signedFor, published, lost>>
    BY <1>7 DEF SendBoost, storeVars, statusVars
  <2>1. /\ Goto(p, "sendBoost", Idle) /\ t.step = "sendBoost"
        /\ Accept(t.row.hash, x) \/ Refuse(x)
    BY <1>7 DEF SendBoost, Goto, t
  <2>2. /\ t.id \in Request /\ t.row.hash \in Hash /\ signedFor[t.row.hash] = t.id
        /\ x.req = t.id /\ x \in Tx
    BY <1>0, <2>1 DEF TickShape, RowShape, Row, ActiveStep, TxOf, Tx
  <2>3. UNCHANGED <<head, incl>> /\ (tx' = tx \/ tx' = [tx EXCEPT ![t.row.hash] = x])
    BY <2>1 DEF Accept, Refuse, nodeVars
  <2>4. /\ \A g \in Hash : tx'[g] # Null => tx'[g].req = signedFor'[g]
        /\ \A g \in Hash : tx[g] # Null => tx'[g] # Null
    BY <1>0, <2>0, <2>2, <2>3 DEF NodeTypeOK
  <2> QED
    BY <1>0, <2>0, <2>1, <2>3, <2>4, FinalIdle, FinalFrom DEF Reported
<1>8. CASE PublishMined(p)
  <2>1. Goto(p, t.step, [t EXCEPT !.step = "recordMined"]) /\ t.step = "mined"
    BY <1>8 DEF PublishMined, Goto, t
  <2>2. t.id \in Request /\ t.row.hash \in Hash \union {Null}
    BY <1>0, <2>1 DEF TickShape, ActiveStep, Row
  <2>3. Mined(t.id, t.row.hash) \in Message /\ Mined(t.id, t.row.hash).type # "Confirmed"
    BY <2>2 DEF Mined, Message
  <2>4. \A m \in Reported' : m \in Reported \/ m.type # "Confirmed"
    BY <1>0, <1>8, <2>3, ReportType DEF PublishMined, t
  <2> QED
    BY <1>8, <2>1, <2>4, <1>a DEF PublishMined, ActiveStep, storeVars, nodeVars
<1>9. CASE RecordMined(p)
  <2> DEFINE new == [rows[t.id] EXCEPT !.mined = t.rec]
  <2>0. UNCHANGED <<head, incl, tx, signedFor, published, lost>>
    BY <1>9 DEF RecordMined, statusVars, nodeVars
  <2>1. Goto(p, "recordMined", Idle) /\ t.step \in ActiveStep /\ Update(t.id, new)
    BY <1>9 DEF RecordMined, Goto, t, ActiveStep
  <2>2. t.id \in Request
    BY <1>0, <2>1 DEF TickShape
  <2>3. rows[t.id] # Null => new.hash = rows[t.id].hash
    BY <1>0, <2>2 DEF Row
  <2>4. \A s \in Request : rows'[s] # Null /\ rows'[s].hash # Null =>
            signedFor'[rows'[s].hash] = s
    BY <1>0, <2>0, <2>1, <2>2, <2>3, FinalWrite
  <2> QED
    BY <1>0, <2>0, <2>1, <2>4, FinalIdle, FinalFrom DEF Reported
<1>10. CASE RecordMoved(p)
  <2> DEFINE new == [rows[t.id] EXCEPT !.mined = t.rec]
  <2>0. UNCHANGED <<head, incl, tx, signedFor, published, lost>>
    BY <1>10 DEF RecordMoved, statusVars, nodeVars
  <2>1. Goto(p, "recordMoved", Idle) /\ t.step \in ActiveStep /\ Update(t.id, new)
    BY <1>10 DEF RecordMoved, Goto, t, ActiveStep
  <2>2. t.id \in Request
    BY <1>0, <2>1 DEF TickShape
  <2>3. rows[t.id] # Null => new.hash = rows[t.id].hash
    BY <1>0, <2>2 DEF Row
  <2>4. \A s \in Request : rows'[s] # Null /\ rows'[s].hash # Null =>
            signedFor'[rows'[s].hash] = s
    BY <1>0, <2>0, <2>1, <2>2, <2>3, FinalWrite
  <2> QED
    BY <1>0, <2>0, <2>1, <2>4, FinalIdle, FinalFrom DEF Reported
<1>11. CASE PublishConfirmed(p)
  <2> DEFINE u == [t EXCEPT !.step = "deleteConfirmed"]
             c == Confirmed(t.id, t.row.hash)
  <2>0. UNCHANGED <<rows, head, incl, tx, signedFor>>
    BY <1>11 DEF PublishConfirmed, storeVars, nodeVars
  <2>1. Goto(p, "confirmed", u) /\ t.step = "confirmed" /\ Report(c)
    BY <1>11 DEF PublishConfirmed, Goto, t
  <2>2. /\ t.id \in Request /\ t.row.hash \in Hash /\ signedFor[t.row.hash] = t.id
        /\ Buried(t.row.hash)
    BY <1>0, <2>1 DEF TickShape, RowShape, Row, ActiveStep
  <2>3. c \in Message /\ c.hash = t.row.hash /\ c.req = t.id
    BY <2>2 DEF Confirmed, Message
  <2>4. Reported' = Reported \union {c}
    BY <1>0, <2>1, <2>3, ReportType
  <2>5. u \in Tick /\ u.row = t.row /\ u.id = t.id /\ u.head = t.head
    BY <1>0 DEF Tick, ActiveStep
  <2>6. /\ signedFor'[u.row.hash] = u.id /\ u.head <= head /\ Buried(u.row.hash)
        /\ \A h \in Hash : tx'[h] # Null => tx'[h].req = signedFor'[h]
        /\ \A r \in Request : rows'[r] # Null /\ rows'[r].hash # Null =>
                signedFor'[rows'[r].hash] = r
    BY <1>0, <2>0, <2>2, <2>5
  <2>7. \A m \in Reported' : \/ m \in Reported
                            \/ /\ m.hash \in Hash /\ Buried(m.hash)
                               /\ signedFor[m.hash] = m.req
    BY <2>2, <2>3, <2>4
  <2> HIDE DEF u, c
  <2> QED
    BY <2>0, <2>1, <2>5, <2>6, <2>7, FinalFrom
<1>12. CASE DeleteConfirmed(p)
  <2>0. UNCHANGED <<head, incl, tx, signedFor, published, lost>>
    BY <1>12 DEF DeleteConfirmed, statusVars, nodeVars
  <2>1. Goto(p, "deleteConfirmed", At("pick")) /\ Delete(t.id)
    BY <1>12 DEF DeleteConfirmed, t
  <2>2. \A s \in Request : rows'[s] # Null /\ rows'[s].hash # Null =>
            signedFor'[rows'[s].hash] = s
    BY <1>0, <2>0, <2>1 DEF Delete, FinalInv, TypeInv, TypeOK, StoreTypeOK
  <2> QED
    BY <1>0, <2>0, <2>1, <2>2, FinalIdle, FinalFrom DEF Reported
<1>13. CASE PickNext(p)
  <2>0. UNCHANGED <<rows, head, incl, tx, signedFor, published, lost>>
    BY <1>13 DEF PickNext, storeVars, statusVars, nodeVars
  <2>1. CASE Goto(p, "pick", Idle)
    BY <1>b, <2>0, <2>1 DEF Reported
  <2>2. ASSUME NEW r \in First(RowsOf(WalletOf[p])),
               Goto(p, "pick", [At("submitHead") EXCEPT !.id = r, !.row = rows[r]])
        PROVE  FinalInv'
    <3> DEFINE u == [At("submitHead") EXCEPT !.id = r, !.row = rows[r]]
    <3>1. r \in Request /\ rows[r] \in Row
      BY <1>0, <2>2 DEF First, RowsOf
    <3>2. u \in Tick /\ u.id = r /\ u.row = rows[r] /\ u.step = "submitHead" /\ u.head = 0
      BY <3>1 DEF At, Tick, ActiveStep, SubmitStep, OtherStep
    <3>3. 0 <= head
      BY <1>0 DEF NodeTypeOK
    <3>4. Goto(p, "pick", u)
      BY <2>2
    <3> HIDE DEF u
    <3> QED
      BY <2>0, <3>2, <3>3, <3>4, FinalRead DEF Reported, ActiveStep
  <2> QED
    BY <1>13, <2>1, <2>2 DEF PickNext
<1>14. CASE ReadSubmitHead(p)
  <2> DEFINE u == [t EXCEPT !.step = "prepareSubmit", !.head = head]
  <2>0. UNCHANGED <<rows, head, incl, tx, signedFor, published, lost>>
    BY <1>14 DEF ReadSubmitHead, storeVars, statusVars, nodeVars
  <2>1. Goto(p, "submitHead", u)
    BY <1>14 DEF ReadSubmitHead, t
  <2>2. u \in Tick /\ u.head = head /\ u.step = "prepareSubmit"
    BY <1>0 DEF Tick, NodeTypeOK, SubmitStep
  <2>3. u.head <= head
    BY <1>0, <2>2 DEF NodeTypeOK
  <2> HIDE DEF u
  <2> QED
    BY <2>0, <2>1, <2>2, <2>3, FinalRead DEF Reported, ActiveStep
<1>15. CASE PrepareSubmit(p)
  <2>0. UNCHANGED <<rows, head, incl, tx, signedFor, published, lost>>
    BY <1>15 DEF PrepareSubmit, storeVars, statusVars, nodeVars
  <2>1. PICK u : /\ Goto(p, "prepareSubmit", u)
                 /\ \/ u = [t EXCEPT !.step = "failed"]
                    \/ \E n \in Nonce : u = [t EXCEPT !.step = "sendSubmit", !.row.nonce = n]
    BY <1>15 DEF PrepareSubmit, t
  <2>2. t.row \in Row
    BY <1>0, <2>1 DEF Goto, t, TickShape, SubmitStep, HoldStep
  <2>3. \A n \in Nonce : [t.row EXCEPT !.nonce = n] \in Row
    BY <2>2 DEF Row
  <2>4. u \in Tick /\ u.step \in {"failed", "sendSubmit"} /\ u.head = t.head
    <3>1. CASE u = [t EXCEPT !.step = "failed"]
      BY <1>0, <3>1 DEF Tick, OtherStep
    <3>2. ASSUME NEW n \in Nonce, u = [t EXCEPT !.step = "sendSubmit", !.row.nonce = n]
          PROVE  u \in Tick /\ u.step = "sendSubmit" /\ u.head = t.head
      BY <1>0, <2>3, <3>2 DEF Tick, SubmitStep
    <3> QED
      BY <2>1, <3>1, <3>2
  <2> QED
    BY <1>0, <2>0, <2>1, <2>4, FinalRead DEF Reported, ActiveStep
<1>16. CASE SendSubmit(p)
  <2> DEFINE x == TxOf(t, WalletOf[p])
  <2>0. UNCHANGED <<rows, published, lost>>
    BY <1>16 DEF SendSubmit, storeVars, statusVars
  <2>1. ASSUME NEW h \in Hash, signedFor[h] = Null, Accept(h, x),
               Goto(p, "sendSubmit", [t EXCEPT !.step = "recordSubmit", !.row.hash = h]),
               signedFor' = [signedFor EXCEPT ![h] = t.id]
        PROVE  FinalInv'
    <3> DEFINE u == [t EXCEPT !.step = "recordSubmit", !.row.hash = h]
    <3>1. t.step = "sendSubmit"
      BY <2>1 DEF Goto, t
    <3>2. t.id \in Request /\ t.row \in Row /\ t.row.nonce # Null /\ x.req = t.id
      BY <1>0, <3>1 DEF TickShape, SubmitStep, HoldStep, TxOf
    <3>3. u \in Tick /\ u.row.hash = h /\ u.id = t.id /\ u.head = t.head /\ u.step = "recordSubmit"
      BY <1>0, <3>2 DEF Row, Tick, SubmitStep
    <3>4. x \in Tx
      BY <3>2 DEF TxOf, Tx, Row
    <3>5. /\ signedFor'[h] = t.id
          /\ \A g \in Hash : signedFor[g] # Null => signedFor'[g] = signedFor[g]
      BY <2>1 DEF FinalInv, TypeInv, TypeOK
    <3>6. /\ UNCHANGED <<head, incl>>
          /\ tx'[h] = x
          /\ \A g \in Hash : g # h => tx'[g] = tx[g]
      BY <1>0, <2>1 DEF Accept, NodeTypeOK
    <3>7. /\ \A g \in Hash : tx'[g] # Null => tx'[g].req = signedFor'[g]
          /\ \A g \in Hash : tx[g] # Null => tx'[g] # Null
      BY <1>0, <3>2, <3>4, <3>5, <3>6 DEF NodeTypeOK, Tx
    <3>8. \A s \in Request : rows'[s] # Null /\ rows'[s].hash # Null =>
              signedFor'[rows'[s].hash] = s
      BY <1>0, <2>0, <3>5 DEF Row
    <3>9. Goto(p, "sendSubmit", u) /\ u.head <= head
      BY <1>0, <2>1, <3>3
    <3> HIDE DEF u
    <3> QED
      BY <2>0, <3>3, <3>5, <3>6, <3>7, <3>8, <3>9, FinalFrom DEF Reported
  <2>2. ASSUME Refuse(x), Goto(p, "sendSubmit", Idle), UNCHANGED signedFor
        PROVE  FinalInv'
    BY <2>0, <2>2, <1>b DEF Refuse, nodeVars, Reported
  <2> QED
    BY <1>16, <2>1, <2>2 DEF SendSubmit, NewHash, t
<1>17. CASE RecordSubmit(p)
  <2> DEFINE u == [t EXCEPT !.step = "submitted"]
             new == [rows[t.id] EXCEPT !.submitted = t.head, !.nonce = t.row.nonce,
                                       !.hash = t.row.hash]
  <2>0. UNCHANGED <<head, incl, tx, signedFor, published, lost>>
    BY <1>17 DEF RecordSubmit, statusVars, nodeVars
  <2>1. Goto(p, "recordSubmit", u) /\ t.step = "recordSubmit" /\ Update(t.id, new)
    BY <1>17 DEF RecordSubmit, Goto, t
  <2>2. t.id \in Request /\ signedFor[t.row.hash] = t.id
    BY <1>0, <2>1 DEF TickShape, SubmitStep, HoldStep
  <2>3. rows[t.id] # Null => new.hash = t.row.hash
    BY <1>0, <2>2 DEF Row
  <2>4. \A s \in Request : rows'[s] # Null /\ rows'[s].hash # Null =>
            signedFor'[rows'[s].hash] = s
    BY <2>0, <2>1, <2>2, <2>3, FinalWrite
  <2>5. u \in Tick /\ u.head = t.head /\ u.step = "submitted"
    BY <1>0 DEF Tick, OtherStep
  <2> QED
    BY <1>0, <2>0, <2>1, <2>4, <2>5, FinalFrom DEF Reported, ActiveStep
<1>18. CASE PublishSubmitted(p)
  <2>1. t.step = "submitted" /\ t.id \in Request /\ t.row.hash \in Hash \union {Null}
    BY <1>0, <1>18 DEF PublishSubmitted, Goto, t, TickShape, HoldStep, Row
  <2>2. Submitted(t.id, t.row.hash) \in Message /\ Submitted(t.id, t.row.hash).type # "Confirmed"
    BY <2>1 DEF Submitted, Message
  <2>3. \A m \in Reported' : m \in Reported \/ m.type # "Confirmed"
    BY <1>0, <1>18, <2>2, ReportType DEF PublishSubmitted, t
  <2> QED
    BY <1>18, <2>3, <1>b DEF PublishSubmitted, storeVars, nodeVars
<1>19. CASE PublishFailed(p)
  <2> DEFINE u == [t EXCEPT !.step = "deleteFailed"]
  <2>1. Goto(p, "failed", u) /\ t.step = "failed" /\ t.id \in Request
    BY <1>0, <1>19 DEF PublishFailed, Goto, t, TickShape, HoldStep
  <2>2. Failed(t.id) \in Message /\ Failed(t.id).type # "Confirmed"
    BY <2>1 DEF Failed, Message
  <2>3. \A m \in Reported' : m \in Reported \/ m.type # "Confirmed"
    BY <1>0, <1>19, <2>2, ReportType DEF PublishFailed, t
  <2>4. u \in Tick /\ u.head = t.head /\ u.step = "deleteFailed"
    BY <1>0 DEF Tick, OtherStep
  <2> QED
    BY <1>0, <1>19, <2>1, <2>3, <2>4, FinalRead DEF PublishFailed, storeVars, nodeVars, ActiveStep
<1>20. CASE DeleteFailed(p)
  <2>0. UNCHANGED <<head, incl, tx, signedFor, published, lost>>
    BY <1>20 DEF DeleteFailed, statusVars, nodeVars
  <2>1. Goto(p, "deleteFailed", Idle) /\ Delete(t.id)
    BY <1>20 DEF DeleteFailed, t
  <2>2. \A s \in Request : rows'[s] # Null /\ rows'[s].hash # Null =>
            signedFor'[rows'[s].hash] = s
    BY <1>0, <2>0, <2>1 DEF Delete, FinalInv, TypeInv, TypeOK, StoreTypeOK
  <2> QED
    BY <1>0, <2>0, <2>1, <2>2, FinalIdle, FinalFrom DEF Reported
<1>21. CASE SignFails(p)
  <2>1. Goto(p, t.step, Idle)
    BY <1>21 DEF SignFails, Goto, t
  <2> QED
    BY <1>21, <2>1, <1>b DEF SignFails, Reported, storeVars, statusVars, nodeVars
<1> QED
  BY <1>1, <1>2, <1>3, <1>4, <1>5, <1>6, <1>7, <1>8, <1>9, <1>10, <1>11, <1>12,
     <1>13, <1>14, <1>15, <1>16, <1>17, <1>18, <1>19, <1>20, <1>21 DEF Step

\* No step of the chain unburies a transaction when reorgs are bounded by
\* ConfirmationBlocks.
LEMMA ChainKeepsBuried ==
    ASSUME MaxReorgDepth <= ConfirmationBlocks, NodeTypeOK, ChainShape, Chain
    PROVE  /\ ChainShape' /\ tx' = tx /\ head <= head'
           /\ \A h \in Hash : Buried(h) => Buried(h)'
<1>1. ASSUME NEW B \in SUBSET Hash, MineBlock(B)
      PROVE  /\ ChainShape' /\ tx' = tx /\ head <= head'
             /\ \A h \in Hash : Buried(h) => Buried(h)'
  BY <1>1 DEF MineBlock, NodeTypeOK, ChainShape, Buried, OnChain, Waiting, Accepted, Receipt
<1>2. ASSUME ConfirmBlock \/ SlowBlock
      PROVE  /\ ChainShape' /\ tx' = tx /\ head <= head'
             /\ \A h \in Hash : Buried(h) => Buried(h)'
  BY <1>2 DEF ConfirmBlock, SlowBlock, NodeTypeOK, ChainShape, Buried, OnChain, Receipt
<1>3. ASSUME NEW d \in 1 .. MaxReorgDepth, NEW b \in (head + 1 - d) .. head,
             NEW B \in SUBSET Hash, Reorg(d, b, B)
      PROVE  /\ ChainShape' /\ tx' = tx /\ head <= head'
             /\ \A h \in Hash : Buried(h) => Buried(h)'
  <2> DEFINE replaced == {h \in OnChain : incl[h].num + d > head}
             kept     == OnChain \ replaced
  <2>1. /\ B \subseteq Accepted \ kept /\ tx' = tx /\ head' = head
        /\ incl' = [h \in Hash |->
                      IF h \in B THEN [num |-> b, era |-> era + 1]
                      ELSE IF h \in replaced THEN Null ELSE incl[h]]
    BY <1>3 DEF Reorg
  <2>2. \A h \in Hash : Buried(h) => h \in kept /\ h \notin B
    BY <2>1 DEF Buried, OnChain, NodeTypeOK, Receipt
  <2>3. \A h \in Hash : Buried(h) => Buried(h)'
    BY <2>1, <2>2 DEF Buried, OnChain
  <2>4. ChainShape'
    BY <2>1 DEF ChainShape, OnChain, Accepted, NodeTypeOK, Receipt
  <2> QED
    BY <2>1, <2>3, <2>4 DEF NodeTypeOK
<1> QED
  BY <1>1, <1>2, <1>3 DEF Chain

\* Every step of the system preserves FinalInv.
LEMMA FinalNext ==
    ASSUME MaxReorgDepth <= ConfirmationBlocks, FinalInv, [Next]_vars
    PROVE  FinalInv'
<1>0. TypeInv'
  BY TypeNext DEF FinalInv
<1>1. ASSUME NEW p \in Watcher, Step(p) PROVE FinalInv'
  BY <1>0, <1>1, FinalStep
<1>2. ASSUME NEW p \in Watcher, Abort(p) PROVE FinalInv'
  <2>1. Goto(p, tick[p].step, Idle)
    BY <1>2 DEF Abort, Goto
  <2>2. UNCHANGED <<rows, head, incl, tx, signedFor, published, lost>>
    BY <1>2 DEF Abort, storeVars, statusVars, nodeVars
  <2> QED
    BY <1>0, <2>1, <2>2, FinalIdle, FinalRead DEF Reported
<1>3. ASSUME NEW r \in Request, NEW w \in Wallet, Arrive(r, w) PROVE FinalInv'
  <2>1. UNCHANGED <<head, incl, tx, signedFor, published, lost, tick>>
    BY <1>3 DEF Arrive, statusVars, nodeVars, localVars
  <2>2. \A s \in Request : rows'[s] # Null /\ rows'[s].hash # Null =>
            signedFor'[rows'[s].hash] = s
    BY <1>3, <2>1 DEF Arrive, Upsert, OnConflict, NewRow, storeVars, FinalInv, HashOwners,
                      TypeInv, TypeOK, StoreTypeOK
  <2>3. HashOwners'
    BY <2>1, <2>2 DEF FinalInv, HashOwners
  <2> QED
    BY <1>0, <2>1, <2>3 DEF FinalInv, ChainShape, ConfirmedBuried, Buried, OnChain, Reported
<1>4. CASE ChainStep
  <2>1. UNCHANGED <<rows, signedFor, published, lost, tick>>
    BY <1>4 DEF ChainStep, storeVars, statusVars, localVars
  <2>2. /\ ChainShape' /\ tx' = tx /\ head <= head'
        /\ \A h \in Hash : Buried(h) => Buried(h)'
    BY <1>4, ChainKeepsBuried DEF ChainStep, FinalInv, TypeInv, TypeOK
  <2>3. HashOwners'
    BY <2>1, <2>2 DEF FinalInv, HashOwners
  <2>4. \A q \in Watcher : tick[q].head \in Nat /\ tick[q].head <= head'
    BY <1>0, <2>2 DEF FinalInv, ConfirmedBuried, TypeInv, TypeOK, NodeTypeOK, Tick
  <2>5. ASSUME NEW q \in Watcher, tick[q].step \in {"confirmed", "deleteConfirmed"}
        PROVE  Buried(tick[q].row.hash)'
    <3>1. Buried(tick[q].row.hash) /\ tick[q].row.hash \in Hash
      BY <2>5 DEF FinalInv, ConfirmedBuried, Buried, OnChain
    <3> QED
      BY <2>1, <2>2, <3>1
  <2>6. ConfirmedBuried'
    BY <2>1, <2>2, <2>4, <2>5 DEF FinalInv, ConfirmedBuried, Reported
  <2> QED
    BY <1>0, <2>2, <2>3, <2>6 DEF FinalInv
<1>5. CASE UNCHANGED vars
  BY <1>0, <1>5 DEF vars, storeVars, statusVars, nodeVars, localVars, FinalInv, HashOwners,
                    ChainShape, ConfirmedBuried, Buried, OnChain, Reported
<1> QED
  BY <1>1, <1>2, <1>3, <1>4, <1>5 DEF Next

\* Nothing is signed, mined or reported at the start.
LEMMA FinalInit == Init => FinalInv
<1> SUFFICES ASSUME Init PROVE FinalInv
  OBVIOUS
<1>1. TypeInv
  BY TypeInit
<1>2. HashOwners
  BY DEF Init, StoreInit, NodeInit, HashOwners, Idle, At, ActiveStep
<1>3. ChainShape
  BY DEF Init, NodeInit, ChainShape, OnChain
<1>4. ConfirmedBuried
  BY DEF Init, StatusInit, NodeInit, ConfirmedBuried, Reported, Idle, At
<1> QED
  BY <1>1, <1>2, <1>3, <1>4 DEF FinalInv

\* What is reported Confirmed, or about to be (loop.go:277-299), is buried
\* deeper than any reorg reaches, and every place that names a hash agrees on
\* the request it was signed for, for any number of watchers.
THEOREM FinalityInvariant ==
    ASSUME MaxReorgDepth <= ConfirmationBlocks PROVE Spec => []FinalInv
<1>1. FinalInv /\ [Next]_vars => FinalInv'
  BY FinalNext
<1> QED
  BY <1>1, FinalInit, PTL DEF Spec

\* A Confirmed event names a transaction that executes the request and stays
\* on the canonical chain (loop.go:277-299), for any number of watchers, when
\* reorgs are no deeper than ConfirmationBlocks.
THEOREM ConfirmedIsFinal ==
    ASSUME MaxReorgDepth <= ConfirmationBlocks PROVE Spec => []ConfirmedFinal
<1>1. FinalInv => ConfirmedFinal
  BY DEF FinalInv, ConfirmedBuried, ChainShape, HashOwners, ConfirmedFinal, Buried
<1> QED
  BY <1>1, FinalityInvariant, PTL
=============================================================================
