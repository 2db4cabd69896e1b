------------------------ MODULE LaneRefinementProofs ------------------------
(***************************************************************************)
(* The ticker implements WalletLane when no two watchers share a wallet,   *)
(* and what a client may conclude from the events it sees.                 *)
(***************************************************************************)
EXTENDS TickerProofs, LaneRefinement

USE MetaTransactionsAssumption, TickerAssumption

-----------------------------------------------------------------------------
(* The inductive invariant.                                                *)

\* A step of p that moves only p, between steps that owe nothing new.
LEMMA TellRead ==
    ASSUME TellInv, OneActiveInv', NEW p \in Watcher, NEW from, NEW u \in Tick,
           Goto(p, from, u), UNCHANGED <<rows, published, lost, signedFor>>,
           Told(WalletOf[p], u, rows, Reported), u.step # "recordSubmit"
    PROVE  TellInv'
<1>1. tick \in [Watcher -> Tick]
  BY DEF TellInv, OneActiveInv, TypeInv, TypeOK
<1>2. /\ tick'[p] = u
      /\ \A q \in Watcher : q # p => tick'[q] = tick[q]
  BY <1>1, GotoLocals
<1>3. Reported' = Reported
  BY DEF Reported
<1>4. \A q \in Watcher : Told(WalletOf[q], tick'[q], rows', Reported')
  BY <1>2, <1>3 DEF TellInv
<1>5. MinedTold' /\ ConfirmedAfterMined'
  BY <1>3 DEF TellInv, MinedTold, ConfirmedAfterMined
<1>6. TellsSigned'
  BY <1>2, <1>3 DEF TellInv, TellsSigned
<1> QED
  BY <1>4, <1>5, <1>6 DEF TellInv

\* A step of p that writes the row r of its wallet, or reports on r, or signs
\* for it, and pays what its next step, the row and the message owe.
LEMMA TellWrite ==
    ASSUME OneWatcherPerWallet, TellInv, OneActiveInv', NEW p \in Watcher,
           NEW from, NEW u \in Tick, Goto(p, from, u),
           NEW r \in Request, rows[r] # Null, rows[r].wallet = WalletOf[p],
           \A s \in Request : s # r => rows'[s] = rows[s],
           Reported \subseteq Reported',
           \A h \in Hash : signedFor[h] # Null => signedFor'[h] # Null,
           Told(WalletOf[p], u, rows', Reported'),
           rows'[r] # Null /\ rows'[r].mined # Null =>
                rows'[r].submitted # Null /\ Mined(r, rows'[r].hash) \in Reported',
           rows'[r] # Null /\ rows'[r].hash # Null => signedFor'[rows'[r].hash] # Null,
           u.step = "recordSubmit" =>
                /\ signedFor'[u.row.hash] # Null
                /\ \A m \in Reported' : m.req = u.id => m.hash # u.row.hash,
           \A m \in Reported' :
                \/ m \in Reported
                \/ /\ m.req = r
                   /\ m.hash # Null => signedFor'[m.hash] # Null
                   /\ m.type = "Confirmed" => Mined(r, m.hash) \in Reported
    PROVE  TellInv'
<1>1. /\ tick \in [Watcher -> Tick] /\ rows \in [Request -> Row \union {Null}]
      /\ Reported \subseteq Message
  BY DEF TellInv, OneActiveInv, TypeInv, TypeOK, StoreTypeOK, StatusTypeOK, Reported
<1>2. /\ tick'[p] = u
      /\ \A q \in Watcher : q # p => tick'[q] = tick[q]
  BY <1>1, GotoLocals
<1>3. \A q \in Watcher : q # p => WalletOf[q] # rows[r].wallet
  BY DEF OneWatcherPerWallet
<1>4. ASSUME NEW q \in Watcher PROVE Told(WalletOf[q], tick'[q], rows', Reported')
  <2>1. CASE q = p
    BY <1>2, <2>1
  <2>2. CASE q # p
    <3>1. Told(WalletOf[q], tick[q], rows, Reported)
      BY DEF TellInv
    <3>2. tick[q].step = "submitted" => tick[q].id # r
      BY <1>3, <2>2, <3>1 DEF Told
    <3> QED
      BY <1>2, <2>2, <3>1, <3>2 DEF Told
  <2> QED
    BY <2>1, <2>2
<1>5. MinedTold'
  BY DEF TellInv, MinedTold
<1>6. ConfirmedAfterMined'
  BY DEF TellInv, ConfirmedAfterMined, Mined
<1>7. \A m \in Reported' : m.hash # Null => signedFor'[m.hash] # Null
  BY <1>1 DEF TellInv, TellsSigned, Message
<1>8. \A s \in Request : rows'[s] # Null /\ rows'[s].hash # Null =>
          signedFor'[rows'[s].hash] # Null
  BY <1>1 DEF TellInv, TellsSigned, Row
<1>9. ASSUME NEW q \in Watcher, tick'[q].step = "recordSubmit"
      PROVE  /\ signedFor'[tick'[q].row.hash] # Null
             /\ \A m \in Reported' : m.req = tick'[q].id => m.hash # tick'[q].row.hash
  <2>1. CASE q = p
    BY <1>2, <1>9, <2>1
  <2>2. CASE q # p
    <3>1. tick'[q] = tick[q] /\ tick[q].step = "recordSubmit"
      BY <1>2, <1>9, <2>2
    <3>2. TickShape(tick[q]) /\ Lane(q, tick[q])
      BY DEF TellInv, OneActiveInv, TypeInv, Shapes, Lanes
    <3>3. tick[q].id # r /\ tick[q].row.hash \in Hash
      BY <1>3, <2>2, <3>1, <3>2 DEF Lane, TickShape, SubmitStep, HoldStep, Row
    <3> QED
      BY <3>1, <3>3 DEF TellInv, TellsSigned
  <2> QED
    BY <2>1, <2>2
<1>10. TellsSigned'
  BY <1>7, <1>8, <1>9 DEF TellsSigned
<1> QED
  BY <1>4, <1>5, <1>6, <1>10 DEF TellInv

\* What a watcher knows of the row it follows, or is about to submit.
LEMMA Held ==
    ASSUME TellInv, NEW p \in Watcher
    PROVE  /\ tick[p] \in Tick /\ TickShape(tick[p])
           /\ Told(WalletOf[p], tick[p], rows, Reported)
           /\ tick[p].step \in ActiveStep =>
                /\ tick[p].id \in Request /\ rows[tick[p].id] # Null
                /\ rows[tick[p].id] = tick[p].row /\ tick[p].row \in Row
                /\ tick[p].row.wallet = WalletOf[p]
                /\ tick[p].row.submitted # Null /\ tick[p].row.hash \in Hash
                /\ signedFor[tick[p].row.hash] # Null
           /\ tick[p].step \in SubmitStep \union {"failed", "deleteFailed"} =>
                /\ tick[p].id \in Request /\ rows[tick[p].id] # Null
                /\ rows[tick[p].id].wallet = WalletOf[p] /\ tick[p].row \in Row
           /\ tick[p].step \in SubmitStep => rows[tick[p].id].submitted = Null
           /\ tick[p].step = "submitted" =>
                /\ tick[p].id \in Request /\ rows[tick[p].id] # Null
                /\ rows[tick[p].id].wallet = WalletOf[p]
                /\ tick[p].row.hash \in Hash /\ signedFor[tick[p].row.hash] # Null
<1> DEFINE t == tick[p]
<1>1. /\ t \in Tick /\ TickShape(t) /\ Lane(p, t)
      /\ \A r \in Request : rows[r] # Null => rows[r] \in Row /\ RowShape(rows[r])
      /\ Told(WalletOf[p], t, rows, Reported) /\ TellsSigned
  BY DEF TellInv, OneActiveInv, TypeInv, TypeOK, StoreTypeOK, Shapes, Lanes
<1> HIDE DEF t
<1>2. ASSUME t.step \in ActiveStep
      PROVE  /\ t.id \in Request /\ rows[t.id] # Null
             /\ rows[t.id] = t.row /\ t.row \in Row /\ t.row.wallet = WalletOf[p]
             /\ t.row.submitted # Null /\ t.row.hash \in Hash /\ signedFor[t.row.hash] # Null
  <2>1. /\ t.id \in Request /\ t.row \in Row /\ rows[t.id] = t.row
        /\ t.row.wallet = WalletOf[p] /\ t.row.submitted # Null /\ RowShape(t.row)
    BY <1>1, <1>2 DEF TickShape, Lane
  <2>2. t.row.hash \in Hash
    BY <2>1 DEF RowShape, Row
  <2> QED
    BY <1>1, <2>1, <2>2 DEF TellsSigned, RowShape
<1>3. ASSUME t.step \in SubmitStep \union {"failed", "deleteFailed"}
      PROVE  /\ t.id \in Request /\ rows[t.id] # Null
             /\ rows[t.id].wallet = WalletOf[p] /\ t.row \in Row
  BY <1>1, <1>3 DEF TickShape, Lane, HoldStep
<1>4. ASSUME t.step \in SubmitStep PROVE rows[t.id].submitted = Null
  BY <1>1, <1>3, <1>4 DEF Lane, Active, RowsOf
<1>5. ASSUME t.step = "submitted"
      PROVE  /\ t.id \in Request /\ rows[t.id] # Null /\ rows[t.id].wallet = WalletOf[p]
             /\ t.row.hash \in Hash /\ signedFor[t.row.hash] # Null
  <2>1. /\ t.id \in Request /\ rows[t.id] # Null /\ rows[t.id].wallet = WalletOf[p]
        /\ rows[t.id].submitted # Null /\ rows[t.id].hash = t.row.hash
    BY <1>1, <1>5 DEF Told
  <2>2. rows[t.id].hash # Null /\ rows[t.id].hash \in Hash
    BY <1>1, <2>1 DEF RowShape, Row
  <2> QED
    BY <1>1, <2>1, <2>2 DEF TellsSigned
<1> QED
  BY <1>1, <1>2, <1>3, <1>4, <1>5 DEF t

\* Ending a tick, or going on to the next request, owes nothing.
LEMMA ToldIdle ==
    ASSUME NEW w, NEW tbl, NEW msgs
    PROVE  Told(w, Idle, tbl, msgs) /\ Told(w, At("pick"), tbl, msgs)
BY DEF Told, Idle, At

\* A report of p on the request it holds.
LEMMA TellReport ==
    ASSUME OneWatcherPerWallet, TellInv, OneActiveInv', NEW p \in Watcher,
           NEW from, NEW u \in Tick, Goto(p, from, u), NEW m \in Message, Report(m),
           UNCHANGED <<rows, signedFor>>,
           m.req \in Request, rows[m.req] # Null, rows[m.req].wallet = WalletOf[p],
           m.hash # Null => signedFor[m.hash] # Null,
           m.type = "Confirmed" => Mined(m.req, m.hash) \in Reported,
           u.step # "recordSubmit",
           Told(WalletOf[p], u, rows, Reported \union {m})
    PROVE  TellInv'
<1>1. Reported' = Reported \union {m}
  BY ReportType DEF TellInv, OneActiveInv, TypeInv, TypeOK
<1>2. Told(WalletOf[p], u, rows', Reported')
  BY <1>1
<1>3. /\ rows'[m.req] # Null /\ rows'[m.req].mined # Null =>
            rows'[m.req].submitted # Null /\ Mined(m.req, rows'[m.req].hash) \in Reported'
      /\ rows'[m.req] # Null /\ rows'[m.req].hash # Null =>
            signedFor'[rows'[m.req].hash] # Null
  BY <1>1 DEF TellInv, MinedTold, TellsSigned
<1> QED
  BY <1>1, <1>2, <1>3, TellWrite

\* A write of p to the row r of its wallet, without a report or a signature.
LEMMA TellUpdate ==
    ASSUME OneWatcherPerWallet, TellInv, OneActiveInv', NEW p \in Watcher,
           NEW from, NEW u \in Tick, Goto(p, from, u),
           NEW r \in Request, rows[r] # Null, rows[r].wallet = WalletOf[p],
           NEW new \in Row \union {Null}, rows' = [rows EXCEPT ![r] = new],
           UNCHANGED <<published, lost, signedFor>>,
           new # Null /\ new.mined # Null =>
                new.submitted # Null /\ Mined(r, new.hash) \in Reported,
           new # Null /\ new.hash # Null => signedFor[new.hash] # Null,
           u.step # "recordSubmit",
           Told(WalletOf[p], u, [rows EXCEPT ![r] = new], Reported)
    PROVE  TellInv'
<1>1. Reported' = Reported
  BY DEF Reported
<1>2. rows'[r] = new /\ \A s \in Request : s # r => rows'[s] = rows[s]
  BY DEF TellInv, OneActiveInv, TypeInv, TypeOK, StoreTypeOK
<1>3. Told(WalletOf[p], u, rows', Reported')
  BY <1>1
<1>4. /\ rows'[r] # Null /\ rows'[r].mined # Null =>
            rows'[r].submitted # Null /\ Mined(r, rows'[r].hash) \in Reported'
      /\ rows'[r] # Null /\ rows'[r].hash # Null => signedFor'[rows'[r].hash] # Null
  BY <1>1, <1>2
<1>5. /\ Reported \subseteq Reported' /\ \A m \in Reported' : m \in Reported
      /\ \A h \in Hash : signedFor[h] # Null => signedFor'[h] # Null
  BY <1>1
<1> QED
  BY <1>2, <1>3, <1>4, <1>5, TellWrite, Zenon

\* Every step of a watcher preserves the invariant.
LEMMA TellStep ==
    ASSUME OneWatcherPerWallet, TellInv, OneActiveInv', NEW p \in Watcher, Step(p)
    PROVE  TellInv'
<1> DEFINE t == tick[p]
           w == WalletOf[p]
<1>0. /\ t \in Tick /\ TickShape(t) /\ Told(w, t, rows, Reported) /\ NodeTypeOK
      /\ \A r \in Request : rows[r] # Null => rows[r] \in Row
      /\ rows \in [Request -> Row \union {Null}]
      /\ signedFor \in [Hash -> Request \union {Null}]
      /\ Null \notin Hash
  BY Held DEF TellInv, OneActiveInv, TypeInv, TypeOK, StoreTypeOK, Hash
<1>a. t.step \in ActiveStep =>
        /\ t.id \in Request /\ rows[t.id] # Null /\ rows[t.id] = t.row /\ t.row \in Row
        /\ t.row.wallet = w /\ t.row.submitted # Null /\ t.row.hash \in Hash
        /\ signedFor[t.row.hash] # Null
  BY Held
<1>b. t.step \in SubmitStep \union {"failed", "deleteFailed"} =>
        /\ t.id \in Request /\ rows[t.id] # Null /\ rows[t.id].wallet = w /\ t.row \in Row
  BY Held
<1>c. t.step \in SubmitStep => rows[t.id].submitted = Null
  BY Held
<1>d. t.step = "submitted" =>
        /\ t.id \in Request /\ rows[t.id] # Null /\ rows[t.id].wallet = w
        /\ t.row.hash \in Hash /\ signedFor[t.row.hash] # Null
  BY Held
<1>e. MinedTold /\ TellsSigned
  BY DEF TellInv
<1> HIDE DEF t
<1>1. CASE ReadActive(p)
  <2>1. CASE Goto(p, "idle", At("pick"))
    BY <1>1, <2>1, IdleShape, ToldIdle, TellRead DEF ReadActive, storeVars, statusVars, At
  <2>2. ASSUME NEW r \in Active(w),
               Goto(p, "idle", [At("head") EXCEPT !.id = r, !.row = rows[r]])
        PROVE  TellInv'
    <3> DEFINE u == [At("head") EXCEPT !.id = r, !.row = rows[r]]
    <3>1. r \in Request /\ rows[r] \in Row
      BY <1>0, <2>2 DEF Active, RowsOf
    <3>2. u \in Tick /\ u.step = "head"
      BY <3>1 DEF At, Tick, ActiveStep
    <3>3. Told(w, u, rows, Reported)
      BY <3>2 DEF Told
    <3> HIDE DEF u
    <3> QED
      BY <1>1, <2>2, <3>2, <3>3, TellRead DEF ReadActive, storeVars, statusVars, u
  <2> QED
    BY <1>1, <2>1, <2>2 DEF ReadActive
<1>2. CASE ReadHead(p)
  <2> DEFINE u == [t EXCEPT !.step = "receipt", !.head = head]
  <2>1. Goto(p, "head", u)
    BY <1>2 DEF ReadHead, t
  <2>2. u \in Tick /\ u.step = "receipt"
    BY <1>0 DEF NodeTypeOK, Tick, ActiveStep
  <2>3. Told(w, u, rows, Reported)
    BY <2>2 DEF Told
  <2> HIDE DEF u
  <2> QED
    BY <1>2, <2>1, <2>2, <2>3, TellRead DEF ReadHead, storeVars, statusVars
<1>3. CASE ReadReceipt(p)
  <2> DEFINE rec == incl[t.row.hash]
             u == IF rec # Null THEN AfterFound(t, rec)
                  ELSE IF t.row.mined # Null THEN [t EXCEPT !.step = "clearMined"]
                  ELSE AfterMissing(t)
  <2>1. Goto(p, "receipt", u) /\ t.step = "receipt"
    BY <1>3 DEF ReadReceipt, Goto, t
  <2>2. /\ t.id \in Request /\ t.row \in Row /\ t.row.submitted # Null
        /\ RowShape(t.row) /\ t.row.hash \in Hash
    BY <1>0, <1>a, <2>1 DEF TickShape, ActiveStep
  <2>3. rec # Null => rec \in Receipt
    BY <1>0, <2>2 DEF NodeTypeOK
  <2>4. u \in Tick
    BY <1>0, <2>2, <2>3, DecisionShape DEF Tick, ActiveStep
  <2>5. \/ u.step \in {"idle", "clearMined", "mined"}
        \/ u.step \in {"confirmed", "recordMoved"} /\ u.row = t.row /\ t.row.mined # Null
        \/ u.step = "prepareBoost" /\ u.row = t.row /\ t.row.mined = Null
    BY <1>0 DEF AfterFound, AfterMissing, Tick, ActiveStep, Idle, At
  <2>6. Told(w, u, rows, Reported) /\ u.step # "recordSubmit"
    BY <2>5 DEF Told
  <2> HIDE DEF u
  <2> QED
    BY <1>3, <2>1, <2>4, <2>6, TellRead DEF ReadReceipt, storeVars, statusVars
<1>4. CASE ClearMined(p)
  <2> DEFINE v == [t EXCEPT !.row.mined = Null]
             u == AfterMissing(v)
             new == [rows[t.id] EXCEPT !.mined = Null]
  <2>1. Goto(p, "clearMined", u) /\ t.step \in ActiveStep /\ Update(t.id, new)
    BY <1>4 DEF ClearMined, Goto, t, ActiveStep
  <2>2. /\ new \in Row /\ new.mined = Null /\ new.hash = t.row.hash
        /\ rows' = [rows EXCEPT ![t.id] = new]
    BY <1>a, <2>1 DEF Row, Update
  <2>3. v \in Tick /\ v.row = new
    BY <1>0, <1>a, <2>1, <2>2 DEF Tick
  <2>4. u = Idle \/ u = [v EXCEPT !.step = "prepareBoost"]
    BY DEF AfterMissing
  <2>5. u \in Tick /\ (u.step = "idle" \/ (u.step = "prepareBoost" /\ u.row = new))
    BY <2>3, <2>4, IdleShape DEF Tick, ActiveStep, SubmitStep, OtherStep, Idle, At
  <2>6. Told(w, u, [rows EXCEPT ![t.id] = new], Reported) /\ u.step # "recordSubmit"
    BY <2>2, <2>5 DEF Told
  <2>7. UNCHANGED <<published, lost, signedFor>>
    BY <1>4 DEF ClearMined, statusVars
  <2> HIDE DEF u, new
  <2> QED
    BY <1>a, <2>1, <2>2, <2>5, <2>6, <2>7, TellUpdate
<1>5. CASE PrepareBoost(p)
  <2>1. PICK s \in {"recordBoost", "failed"} :
           Goto(p, "prepareBoost", [t EXCEPT !.step = s]) /\ t.step = "prepareBoost"
    BY <1>5 DEF PrepareBoost, Goto, t
  <2> DEFINE u == [t EXCEPT !.step = s]
  <2>2. u \in Tick /\ u.step = s /\ u.row = t.row
    BY <1>0 DEF Tick, ActiveStep, OtherStep
  <2>3. Told(w, u, rows, Reported) /\ u.step # "recordSubmit"
    BY <1>0, <2>1, <2>2 DEF Told
  <2> HIDE DEF u
  <2> QED
    BY <1>5, <2>1, <2>2, <2>3, TellRead DEF PrepareBoost, storeVars, statusVars, u
<1>7. CASE SendBoost(p)
  <2>1. Idle.step # "recordSubmit"
    BY DEF Idle, At
  <2> QED
    BY <1>7, <2>1, IdleShape, ToldIdle, TellRead DEF SendBoost, storeVars, statusVars
<1>6. CASE RecordBoost(p)
  <2>1. PICK h \in Hash :
          /\ NewHash(h)
          /\ Goto(p, "recordBoost", [t EXCEPT !.step = "sendBoost", !.row.hash = h,
                                               !.row.boosted = t.head])
          /\ signedFor' = [signedFor EXCEPT ![h] = t.id]
          /\ Update(t.id, [rows[t.id] EXCEPT !.hash = h, !.nonce = t.row.nonce,
                                             !.boosted = t.head])
    BY <1>6 DEF RecordBoost, t
  <2> DEFINE u == [t EXCEPT !.step = "sendBoost", !.row.hash = h, !.row.boosted = t.head]
             new == [rows[t.id] EXCEPT !.hash = h, !.nonce = t.row.nonce, !.boosted = t.head]
  <2>2. t.step = "recordBoost" /\ t.step \in ActiveStep /\ t.head \in Nat
    BY <1>0, <2>1 DEF Goto, t, ActiveStep, Tick
  <2>3. /\ new \in Row /\ new.mined = Null /\ new.hash = h
        /\ rows' = [rows EXCEPT ![t.id] = new]
    BY <1>0, <1>a, <2>1, <2>2 DEF Row, Update, Told
  <2>4. u \in Tick /\ u.step = "sendBoost"
    <3>1. [t.row EXCEPT !.hash = h, !.boosted = t.head] \in Row
      BY <1>a, <2>2 DEF Row
    <3> QED
      BY <1>0, <3>1 DEF Tick, ActiveStep
  <2>5. Told(w, u, rows', Reported)
    BY <2>4 DEF Told
  <2>6. Reported' = Reported
    BY <1>6 DEF RecordBoost, statusVars, Reported
  <2>7. rows'[t.id] = new /\ \A s \in Request : s # t.id => rows'[s] = rows[s]
    BY <1>0, <1>a, <2>2, <2>3
  <2>8. /\ signedFor'[h] # Null
        /\ \A g \in Hash : signedFor[g] # Null => signedFor'[g] # Null
    BY <1>0, <1>a, <2>1, <2>2
  <2>9. Goto(p, "recordBoost", u)
    BY <2>1
  <2> HIDE DEF u, new
  <2>10. /\ rows'[t.id] # Null /\ rows'[t.id].mined # Null =>
              rows'[t.id].submitted # Null /\ Mined(t.id, rows'[t.id].hash) \in Reported'
         /\ rows'[t.id] # Null /\ rows'[t.id].hash # Null =>
              signedFor'[rows'[t.id].hash] # Null
         /\ u.step # "recordSubmit"
    BY <2>3, <2>4, <2>7, <2>8
  <2> QED
    BY <1>a, <2>2, <2>4, <2>5, <2>6, <2>7, <2>8, <2>9, <2>10, TellWrite
<1>8. CASE PublishMined(p)
  <2> DEFINE u == [t EXCEPT !.step = "recordMined"]
             m == Mined(t.id, t.row.hash)
  <2>1. /\ Goto(p, "mined", u) /\ t.step \in ActiveStep /\ Report(m)
        /\ UNCHANGED <<rows, signedFor>>
    BY <1>8 DEF PublishMined, Goto, t, ActiveStep, storeVars
  <2>2. /\ u \in Tick /\ u.step = "recordMined" /\ u.id = t.id /\ u.row = t.row
        /\ m \in Message /\ m.req = t.id /\ m.hash = t.row.hash /\ m.type = "Mined"
    BY <1>0, <1>a, <2>1 DEF Tick, ActiveStep, Message, Mined
  <2>3. Told(w, u, rows, Reported \union {m}) /\ u.step # "recordSubmit"
    BY <2>2 DEF Told
  <2> HIDE DEF u, m
  <2> QED
    BY <1>a, <2>1, <2>2, <2>3, TellReport
<1>9. CASE RecordMined(p) \/ RecordMoved(p)
  <2> DEFINE new == [rows[t.id] EXCEPT !.mined = t.rec]
  <2>1. /\ Goto(p, t.step, Idle) /\ t.step \in {"recordMined", "recordMoved"}
        /\ Update(t.id, new)
        /\ UNCHANGED <<published, lost, signedFor>>
    BY <1>9 DEF RecordMined, RecordMoved, Goto, t, statusVars
  <2>2. t.step \in ActiveStep
    BY <2>1 DEF ActiveStep
  <2>3. /\ new \in Row /\ rows' = [rows EXCEPT ![t.id] = new]
        /\ new.hash = t.row.hash /\ new.submitted = t.row.submitted
    BY <1>0, <1>a, <2>1, <2>2 DEF Row, Tick, Update
  <2>4. Mined(t.id, t.row.hash) \in Reported
    BY <1>0, <1>a, <1>e, <2>1, <2>2 DEF Told, MinedTold
  <2>5. Told(w, Idle, [rows EXCEPT ![t.id] = new], Reported) /\ Idle.step # "recordSubmit"
    BY ToldIdle DEF Idle, At
  <2> HIDE DEF new
  <2> QED
    BY <1>a, <2>1, <2>2, <2>3, <2>4, <2>5, IdleShape, TellUpdate
<1>11. CASE PublishConfirmed(p)
  <2> DEFINE u == [t EXCEPT !.step = "deleteConfirmed"]
             m == Confirmed(t.id, t.row.hash)
  <2>1. /\ Goto(p, "confirmed", u) /\ t.step = "confirmed" /\ t.step \in ActiveStep
        /\ Report(m) /\ UNCHANGED <<rows, signedFor>>
    BY <1>11 DEF PublishConfirmed, Goto, t, ActiveStep, storeVars
  <2>2. /\ u \in Tick /\ u.step = "deleteConfirmed" /\ u.id = t.id /\ u.row = t.row
        /\ m \in Message /\ m.req = t.id /\ m.hash = t.row.hash
    BY <1>0, <1>a, <2>1 DEF Tick, ActiveStep, Message, Confirmed
  <2>3. Told(w, u, rows, Reported \union {m}) /\ u.step # "recordSubmit"
    BY <2>2 DEF Told
  <2>4. Mined(t.id, t.row.hash) \in Reported
    BY <1>0, <1>a, <1>e, <2>1 DEF Told, MinedTold
  <2> HIDE DEF u, m
  <2> QED
    BY <1>a, <2>1, <2>2, <2>3, <2>4, TellReport
<1>12. CASE DeleteConfirmed(p)
  <2>1. /\ Goto(p, "deleteConfirmed", At("pick")) /\ t.step \in ActiveStep
        /\ rows' = [rows EXCEPT ![t.id] = Null]
        /\ UNCHANGED <<published, lost, signedFor>>
    BY <1>12 DEF DeleteConfirmed, Goto, t, ActiveStep, Delete, statusVars
  <2>2. /\ Told(w, At("pick"), [rows EXCEPT ![t.id] = Null], Reported)
        /\ At("pick").step # "recordSubmit"
    BY ToldIdle DEF At
  <2> QED
    BY <1>a, <2>1, <2>2, IdleShape, TellUpdate
<1>13. CASE PickNext(p)
  <2>1. CASE Goto(p, "pick", Idle)
    <3>1. Idle.step # "recordSubmit"
      BY DEF Idle, At
    <3> QED
      BY <1>13, <2>1, <3>1, IdleShape, ToldIdle, TellRead DEF PickNext, storeVars, statusVars
  <2>2. ASSUME NEW r \in First(RowsOf(w)),
               Goto(p, "pick", [At("submitHead") EXCEPT !.id = r, !.row = rows[r]])
        PROVE  TellInv'
    <3> DEFINE u == [At("submitHead") EXCEPT !.id = r, !.row = rows[r]]
    <3>1. r \in Request /\ rows[r] \in Row
      BY <1>0, <2>2 DEF First, RowsOf
    <3>2. u \in Tick /\ u.step = "submitHead"
      BY <3>1 DEF At, Tick, SubmitStep
    <3>3. Told(w, u, rows, Reported)
      BY <3>2 DEF Told
    <3> HIDE DEF u
    <3> QED
      BY <1>13, <2>2, <3>2, <3>3, TellRead DEF PickNext, storeVars, statusVars, u
  <2> QED
    BY <1>13, <2>1, <2>2 DEF PickNext
<1>14. CASE ReadSubmitHead(p)
  <2> DEFINE u == [t EXCEPT !.step = "prepareSubmit", !.head = head]
  <2>1. Goto(p, "submitHead", u)
    BY <1>14 DEF ReadSubmitHead, t
  <2>2. u \in Tick /\ u.step = "prepareSubmit"
    BY <1>0 DEF NodeTypeOK, Tick, SubmitStep
  <2>3. Told(w, u, rows, Reported)
    BY <2>2 DEF Told
  <2> HIDE DEF u
  <2> QED
    BY <1>14, <2>1, <2>2, <2>3, TellRead DEF ReadSubmitHead, storeVars, statusVars
<1>15. CASE PrepareSubmit(p)
  <2>1. ASSUME NEW n \in Nonce,
               Goto(p, "prepareSubmit", [t EXCEPT !.step = "sendSubmit", !.row.nonce = n])
        PROVE  TellInv'
    <3> DEFINE u == [t EXCEPT !.step = "sendSubmit", !.row.nonce = n]
    <3>1. t.step \in SubmitStep
      BY <2>1 DEF Goto, t, SubmitStep
    <3>2. [t.row EXCEPT !.nonce = n] \in Row
      BY <1>b, <3>1 DEF Row
    <3>3. u \in Tick /\ u.step = "sendSubmit"
      BY <1>0, <3>2 DEF Tick, SubmitStep
    <3>4. Told(w, u, rows, Reported)
      BY <3>3 DEF Told
    <3> HIDE DEF u
    <3> QED
      BY <1>15, <2>1, <3>3, <3>4, TellRead DEF PrepareSubmit, storeVars, statusVars, u
  <2>2. CASE Goto(p, "prepareSubmit", [t EXCEPT !.step = "failed"])
    <3> DEFINE u == [t EXCEPT !.step = "failed"]
    <3>1. u \in Tick /\ u.step = "failed"
      BY <1>0 DEF Tick, OtherStep
    <3>2. Told(w, u, rows, Reported)
      BY <3>1 DEF Told
    <3> HIDE DEF u
    <3> QED
      BY <1>15, <2>2, <3>1, <3>2, TellRead DEF PrepareSubmit, storeVars, statusVars, u
  <2> QED
    BY <1>15, <2>1, <2>2 DEF PrepareSubmit, t
<1>16. CASE SendSubmit(p)
  <2>1. ASSUME NEW h \in Hash, NewHash(h),
               Goto(p, "sendSubmit", [t EXCEPT !.step = "recordSubmit", !.row.hash = h]),
               signedFor' = [signedFor EXCEPT ![h] = t.id]
        PROVE  TellInv'
    <3> DEFINE u == [t EXCEPT !.step = "recordSubmit", !.row.hash = h]
    <3>1. t.step \in SubmitStep
      BY <2>1 DEF Goto, t, SubmitStep
    <3>2. [t.row EXCEPT !.hash = h] \in Row
      BY <1>b, <3>1 DEF Row
    <3>3. u \in Tick /\ u.step = "recordSubmit" /\ u.row.hash = h /\ u.id = t.id
      <4>1. u.row = [t.row EXCEPT !.hash = h] /\ [t.row EXCEPT !.hash = h].hash = h
        BY <1>0, <1>b, <3>1 DEF Tick, Row
      <4> QED
        BY <1>0, <3>2, <4>1 DEF Tick, SubmitStep
    <3>4. UNCHANGED <<rows, published, lost>> /\ Reported' = Reported
      BY <1>16 DEF SendSubmit, storeVars, statusVars, Reported
    <3>5. Told(w, u, rows', Reported')
      BY <3>3 DEF Told
    <3>6. /\ signedFor'[h] # Null
          /\ \A g \in Hash : signedFor[g] # Null => signedFor'[g] # Null
      BY <1>0, <1>b, <2>1, <3>1
    <3>7. \A m \in Reported : m.hash # h
      BY <1>0, <1>e, <2>1 DEF NewHash, TellsSigned
    <3>8. /\ rows'[t.id].mined # Null =>
                rows'[t.id].submitted # Null /\ Mined(t.id, rows'[t.id].hash) \in Reported'
          /\ rows'[t.id].hash # Null => signedFor'[rows'[t.id].hash] # Null
      BY <1>0, <1>b, <1>e, <3>1, <3>4, <3>6 DEF MinedTold, TellsSigned, Row
    <3>9. Goto(p, "sendSubmit", u)
      BY <2>1
    <3> HIDE DEF u
    <3> QED
      BY <1>b, <3>1, <3>3, <3>4, <3>5, <3>6, <3>7, <3>8, <3>9, TellWrite
  <2>2. CASE Goto(p, "sendSubmit", Idle) /\ UNCHANGED signedFor
    <3>1. Idle.step # "recordSubmit"
      BY DEF Idle, At
    <3> QED
      BY <1>16, <2>2, <3>1, IdleShape, ToldIdle, TellRead DEF SendSubmit, storeVars, statusVars
  <2> QED
    BY <1>16, <2>1, <2>2 DEF SendSubmit, t
<1>17. CASE RecordSubmit(p)
  <2> DEFINE u == [t EXCEPT !.step = "submitted"]
             new == [rows[t.id] EXCEPT !.submitted = t.head, !.nonce = t.row.nonce,
                                       !.hash = t.row.hash]
  <2>1. /\ Goto(p, "recordSubmit", u) /\ t.step = "recordSubmit" /\ Update(t.id, new)
        /\ UNCHANGED <<published, lost, signedFor>>
    BY <1>17 DEF RecordSubmit, Goto, t, statusVars
  <2>2. t.step \in SubmitStep /\ t.head \in Nat /\ signedFor[t.row.hash] # Null
    BY <1>0, <1>e, <2>1 DEF SubmitStep, Tick, TellsSigned, t
  <2>3. rows[t.id] \in Row /\ rows[t.id].mined = Null
    BY <1>0, <1>b, <1>c, <1>e, <2>2 DEF MinedTold
  <2>4. /\ new \in Row /\ new.mined = Null /\ new.hash = t.row.hash
        /\ new.submitted # Null /\ new.wallet = w
        /\ rows' = [rows EXCEPT ![t.id] = new]
    BY <1>b, <2>1, <2>2, <2>3 DEF Row, Update
  <2>5. u \in Tick /\ u.step = "submitted" /\ u.id = t.id /\ u.row = t.row
    BY <1>0, <2>1 DEF Tick, OtherStep
  <2>6. Told(w, u, [rows EXCEPT ![t.id] = new], Reported) /\ u.step # "recordSubmit"
    BY <1>0, <1>b, <2>2, <2>4, <2>5 DEF Told
  <2> HIDE DEF u, new
  <2> QED
    BY <1>b, <2>1, <2>2, <2>4, <2>5, <2>6, TellUpdate
<1>18. CASE PublishSubmitted(p)
  <2> DEFINE m == Submitted(t.id, t.row.hash)
  <2>1. /\ Goto(p, "submitted", Idle) /\ t.step = "submitted" /\ Report(m)
        /\ UNCHANGED <<rows, signedFor>>
    BY <1>18 DEF PublishSubmitted, Goto, t, storeVars
  <2>2. m \in Message /\ m.req = t.id /\ m.hash = t.row.hash /\ m.type = "Submitted"
    BY <1>d, <2>1 DEF Message, Submitted
  <2>3. Told(w, Idle, rows, Reported \union {m}) /\ Idle.step # "recordSubmit"
    BY ToldIdle DEF Idle, At
  <2> HIDE DEF m
  <2> QED
    BY <1>d, <2>1, <2>2, <2>3, IdleShape, TellReport
<1>19. CASE PublishFailed(p)
  <2> DEFINE u == [t EXCEPT !.step = "deleteFailed"]
             m == Failed(t.id)
  <2>1. /\ Goto(p, "failed", u) /\ t.step = "failed" /\ Report(m)
        /\ UNCHANGED <<rows, signedFor>>
    BY <1>19 DEF PublishFailed, Goto, t, storeVars
  <2>2. /\ u \in Tick /\ u.step = "deleteFailed" /\ u.id = t.id
        /\ m \in Message /\ m.req = t.id /\ m.hash = Null /\ m.type = "Failed"
    BY <1>0, <1>b, <2>1 DEF Tick, OtherStep, Message, Failed
  <2>3. Told(w, u, rows, Reported \union {m}) /\ u.step # "recordSubmit"
    BY <2>2 DEF Told
  <2> HIDE DEF u, m
  <2> QED
    BY <1>b, <2>1, <2>2, <2>3, TellReport
<1>20. CASE DeleteFailed(p)
  <2>1. /\ Goto(p, "deleteFailed", Idle) /\ t.step = "deleteFailed"
        /\ rows' = [rows EXCEPT ![t.id] = Null]
        /\ UNCHANGED <<published, lost, signedFor>>
    BY <1>20 DEF DeleteFailed, Goto, t, Delete, statusVars
  <2>2. /\ Told(w, Idle, [rows EXCEPT ![t.id] = Null], Reported)
        /\ Idle.step # "recordSubmit"
    BY ToldIdle DEF Idle, At
  <2> QED
    BY <1>b, <2>1, <2>2, IdleShape, TellUpdate
<1>21. CASE SignFails(p)
  <2>1. Goto(p, t.step, Idle) /\ Idle.step # "recordSubmit"
    BY <1>21 DEF SignFails, Goto, t, Idle, At
  <2> QED
    BY <1>21, <2>1, IdleShape, ToldIdle, TellRead DEF SignFails, storeVars, statusVars
<1> QED
  BY <1>1, <1>2, <1>3, <1>4, <1>5, <1>6, <1>7, <1>8, <1>9, <1>11, <1>12,
     <1>13, <1>14, <1>15, <1>16, <1>17, <1>18, <1>19, <1>20, <1>21 DEF Step

\* A step that inserts rows and ends ticks, and reports and signs nothing, owes
\* nothing.
LEMMA TellAside ==
    ASSUME TellInv, TypeInv', UNCHANGED <<published, lost, signedFor>>,
           \A p \in Watcher : tick'[p] \in {tick[p], Idle},
           \A r \in Request : rows[r] # Null => rows'[r] = rows[r],
           \A r \in Request : rows[r] = Null /\ rows'[r] # Null =>
                rows'[r].submitted = Null /\ rows'[r].mined = Null /\ rows'[r].hash = Null
    PROVE  TellInv'
<1>1. OneActiveInv'
  BY LaneAside DEF TellInv
<1>2. Reported' = Reported
  BY DEF Reported
<1>3. ASSUME NEW p \in Watcher PROVE Told(WalletOf[p], tick'[p], rows', Reported')
  <2>1. CASE tick'[p] = Idle
    BY <2>1, ToldIdle
  <2>2. CASE tick'[p] = tick[p]
    <3>1. Told(WalletOf[p], tick[p], rows, Reported)
      BY DEF TellInv
    <3> QED
      BY <1>2, <2>2, <3>1 DEF Told
  <2> QED
    BY <2>1, <2>2
<1>4. MinedTold'
  BY <1>2 DEF TellInv, MinedTold
<1>5. TellsSigned'
  BY <1>2 DEF TellInv, TellsSigned, Idle, At
<1>6. ConfirmedAfterMined'
  BY <1>2 DEF TellInv, ConfirmedAfterMined
<1> QED
  BY <1>1, <1>3, <1>4, <1>5, <1>6 DEF TellInv

\* Every step of the system preserves the invariant.
LEMMA TellNext ==
    ASSUME OneWatcherPerWallet, TellInv, [Next]_vars
    PROVE  TellInv'
<1>0. /\ OneActiveInv' /\ TypeInv'
      /\ rows \in [Request -> Row \union {Null}] /\ tick \in [Watcher -> Tick]
  BY LaneNext DEF TellInv, OneActiveInv, TypeInv, TypeOK, StoreTypeOK
<1>1. ASSUME NEW p \in Watcher, Step(p) PROVE TellInv'
  BY <1>0, <1>1, TellStep
<1>2. ASSUME NEW p \in Watcher, Abort(p) PROVE TellInv'
  <2>1. /\ UNCHANGED <<rows, published, lost, signedFor>>
        /\ \A q \in Watcher : tick'[q] \in {tick[q], Idle}
    BY <1>0, <1>2 DEF Abort, storeVars, statusVars
  <2> QED
    BY <1>0, <2>1, TellAside
<1>3. ASSUME NEW r \in Request, NEW w \in Wallet, Arrive(r, w) PROVE TellInv'
  <2>1. /\ UNCHANGED <<tick, signedFor, published, lost>>
        /\ rows' = rows \/ (rows[r] = Null /\ rows' = [rows EXCEPT ![r] = NewRow(w)])
    BY <1>0, <1>3 DEF Arrive, Upsert, OnConflict, storeVars, statusVars, localVars
  <2>2. \A s \in Request : rows[s] # Null => rows'[s] = rows[s]
    BY <1>0, <2>1
  <2>3. \A s \in Request : rows'[s] \in {rows[s], NewRow(w)}
    BY <1>0, <2>1
  <2>4. NewRow(w).submitted = Null /\ NewRow(w).mined = Null /\ NewRow(w).hash = Null
    BY DEF NewRow
  <2> QED
    BY <1>0, <2>1, <2>2, <2>3, <2>4, TellAside
<1>4. CASE ChainStep \/ UNCHANGED vars
  BY <1>0, <1>4, TellAside DEF ChainStep, vars, storeVars, statusVars, localVars
<1> QED
  BY <1>1, <1>2, <1>3, <1>4 DEF Next

LEMMA TellInit == Init => TellInv
<1> SUFFICES ASSUME Init PROVE TellInv
  OBVIOUS
<1>1. \A w : Active(w) = {}
  BY DEF Init, StoreInit, Active, RowsOf
<1>2. \A p \in Watcher : tick[p] = Idle /\ Lane(p, tick[p])
  BY DEF Init, Lane, Idle, At, ActiveStep, SubmitStep
<1>3. OneActiveInv
  BY <1>1, <1>2, TypeInit DEF OneActiveInv, AtMostOneActive, Lanes
<1>4. Reported = {} /\ \A r \in Request : rows[r] = Null
  BY DEF Init, StatusInit, StoreInit, Reported
<1>5. Idle.step # "recordSubmit"
  BY DEF Idle, At
<1> QED
  BY <1>2, <1>3, <1>4, <1>5, ToldIdle
     DEF TellInv, MinedTold, TellsSigned, ConfirmedAfterMined

\* With one watcher per wallet, every step of a tick has told the client what
\* it owes by then, over any faults, redeliveries, boosts and reorgs
\* (loop.go:263-458).
THEOREM TellsInOrder ==
    ASSUME OneWatcherPerWallet PROVE Spec => []TellInv
<1>1. TellInv /\ [Next]_vars => TellInv'
  BY TellNext
<1> QED
  BY <1>1, TellInit, PTL DEF Spec

\* With one watcher per wallet, no client hears Confirmed for a transaction it
\* was not told Mined of (loop.go:263, 299), for every configuration.
THEOREM MinedFirst ==
    ASSUME OneWatcherPerWallet PROVE Spec => []ConfirmedAfterMined
<1>1. TellInv => ConfirmedAfterMined
  BY DEF TellInv
<1> QED
  BY <1>1, TellsInOrder, PTL

\* A row that a step of the ticker deletes had its outcome told.
LEMMA DropTold ==
    ASSUME TellInv, [Next]_vars, NEW r \in Request, rows[r] # Null, rows'[r] = Null
    PROVE  Failed(r) \in Reported \/ Confirmed(r, rows[r].hash) \in Reported
<1>0. rows \in [Request -> Row \union {Null}]
  BY DEF TellInv, OneActiveInv, TypeInv, TypeOK, StoreTypeOK
<1>1. \/ \E p \in Watcher : DeleteConfirmed(p) \/ DeleteFailed(p)
      \/ rows'[r] # Null
  <2>1. ASSUME NEW p \in Watcher, Step(p), ~ DeleteConfirmed(p), ~ DeleteFailed(p)
        PROVE  rows'[r] # Null
    <3> DEFINE t == tick[p]
    <3>0. t \in Tick /\ TickShape(t)
      BY Held
    <3>1. CASE UNCHANGED rows
      BY <3>1
    <3>2. ASSUME NEW new \in Row, t.id \in Request, Update(t.id, new) PROVE rows'[r] # Null
      BY <1>0, <3>2 DEF Update
    <3>3. t.step \in ActiveStep \union SubmitStep =>
            t.id \in Request /\ rows[t.id] \in Row /\ t.row \in Row
      <4>1. t.step \in ActiveStep \union SubmitStep =>
              t.id \in Request /\ rows[t.id] # Null /\ t.row \in Row
        BY Held
      <4> QED
        BY <1>0, <4>1
    <3>4. CASE ClearMined(p)
      <4>1. [rows[t.id] EXCEPT !.mined = Null] \in Row /\ t.id \in Request
        BY <3>3, <3>4 DEF ClearMined, Goto, ActiveStep, Row
      <4> QED
        BY <3>2, <3>4, <4>1 DEF ClearMined
    <3>5. CASE RecordMined(p) \/ RecordMoved(p)
      <4>1. [rows[t.id] EXCEPT !.mined = t.rec] \in Row /\ t.id \in Request
        BY <3>0, <3>3, <3>5 DEF RecordMined, RecordMoved, Goto, ActiveStep, Row, Tick
      <4> QED
        BY <3>2, <3>5, <4>1 DEF RecordMined, RecordMoved
    <3>6. CASE RecordBoost(p)
      <4>1. PICK h \in Hash : Update(t.id, [rows[t.id] EXCEPT !.hash = h,
                                       !.nonce = t.row.nonce, !.boosted = t.head])
        BY <3>6 DEF RecordBoost
      <4>2. t.step \in ActiveStep /\ t.head \in Nat
        BY <3>0, <3>6 DEF RecordBoost, Goto, ActiveStep, Tick
      <4>3. /\ t.id \in Request
            /\ [rows[t.id] EXCEPT !.hash = h, !.nonce = t.row.nonce, !.boosted = t.head]
                 \in Row
        BY <3>3, <4>2 DEF Row
      <4> QED
        BY <3>2, <4>1, <4>3
    <3>7. CASE RecordSubmit(p)
      <4>1. t.step \in SubmitStep /\ t.head \in Nat
        BY <3>0, <3>7 DEF RecordSubmit, Goto, SubmitStep, Tick
      <4>2. /\ t.id \in Request
            /\ [rows[t.id] EXCEPT !.submitted = t.head, !.nonce = t.row.nonce,
                                  !.hash = t.row.hash] \in Row
        BY <3>3, <4>1 DEF Row
      <4> QED
        BY <3>2, <3>7, <4>2 DEF RecordSubmit
    <3>8. \/ ClearMined(p) \/ RecordMined(p) \/ RecordMoved(p) \/ RecordBoost(p)
          \/ RecordSubmit(p) \/ UNCHANGED rows
      <4>1. ReadActive(p) \/ ReadHead(p) \/ ReadReceipt(p) \/ PrepareBoost(p)
            \/ SendBoost(p) \/ SignFails(p) => UNCHANGED rows
        BY DEF ReadActive, ReadHead, ReadReceipt, PrepareBoost, SendBoost, SignFails,
               storeVars
      <4>2. PublishMined(p) \/ PublishConfirmed(p) \/ PublishSubmitted(p)
            \/ PublishFailed(p) => UNCHANGED rows
        BY DEF PublishMined, PublishConfirmed, PublishSubmitted, PublishFailed, storeVars
      <4>3. PickNext(p) \/ ReadSubmitHead(p) \/ PrepareSubmit(p) \/ SendSubmit(p)
              => UNCHANGED rows
        BY DEF PickNext, ReadSubmitHead, PrepareSubmit, SendSubmit, storeVars
      <4> QED
        BY <2>1, <4>1, <4>2, <4>3 DEF Step
    <3> QED
      BY <3>1, <3>4, <3>5, <3>6, <3>7, <3>8
  <2>2. ASSUME NEW p \in Watcher, Abort(p) PROVE rows'[r] # Null
    BY <2>2 DEF Abort, storeVars
  <2>3. ASSUME NEW s \in Request, NEW w \in Wallet, Arrive(s, w) PROVE rows'[r] # Null
    BY <1>0, <2>3 DEF Arrive, Upsert, OnConflict
  <2>4. CASE ChainStep \/ UNCHANGED vars
    BY <2>4 DEF ChainStep, vars, storeVars
  <2> QED
    BY <2>1, <2>2, <2>3, <2>4 DEF Next
<1>2. ASSUME NEW p \in Watcher, DeleteConfirmed(p)
      PROVE  Confirmed(r, rows[r].hash) \in Reported
  <2>1. tick[p].step = "deleteConfirmed" /\ tick[p].step \in ActiveStep
        /\ rows' = [rows EXCEPT ![tick[p].id] = Null]
    BY <1>2 DEF DeleteConfirmed, Goto, Delete, ActiveStep
  <2>2. tick[p].id = r /\ rows[r] = tick[p].row
    BY <1>0, <2>1, Held
  <2> QED
    BY <2>1, <2>2, Held DEF Told
<1>3. ASSUME NEW p \in Watcher, DeleteFailed(p) PROVE Failed(r) \in Reported
  <2>1. tick[p].step = "deleteFailed" /\ rows' = [rows EXCEPT ![tick[p].id] = Null]
    BY <1>3 DEF DeleteFailed, Goto, Delete
  <2>2. tick[p].id = r
    BY <1>0, <2>1
  <2> QED
    BY <2>1, <2>2, Held DEF Told
<1> QED
  BY <1>1, <1>2, <1>3

\* With one watcher per wallet, no request is forgotten without its outcome
\* having been handed to the producer (loop.go:205, 299, 395).
THEOREM NoSilentDrop ==
    ASSUME OneWatcherPerWallet PROVE Spec => DropsAreReported
<1> DEFINE Drop == \A r \in Request : rows[r] # Null /\ rows'[r] = Null =>
                     \/ Failed(r) \in Reported
                     \/ Confirmed(r, rows[r].hash) \in Reported
<1>1. TellInv /\ [Next]_vars => [Drop]_vars
  BY DropTold
<1> QED
  BY <1>1, TellsInOrder, PTL DEF Spec, DropsAreReported

-----------------------------------------------------------------------------
(* The refinement.                                                         *)

\* Writes that keep the wallet, the hash and whether a row is submitted do not
\* show in the abstract state.
LEMMA LaneKept ==
    ASSUME \A r \in Request :
              \/ rows'[r] = rows[r]
              \/ /\ rows[r] # Null /\ rows'[r] # Null
                 /\ rows'[r].wallet = rows[r].wallet /\ rows'[r].hash = rows[r].hash
                 /\ rows'[r].submitted = Null <=> rows[r].submitted = Null
    PROVE  QueueOf' = QueueOf /\ LaneOf' = LaneOf
<1>1. \A w : RowsOf(w)' = RowsOf(w)
  BY DEF RowsOf
<1>2. \A w : Active(w)' = Active(w)
  BY <1>1 DEF Active, RowsOf
<1>3. \A w : \A r \in Active(w) : rows'[r].hash = rows[r].hash
  BY DEF Active, RowsOf
<1>4. \A w : {[req |-> r, hash |-> rows'[r].hash] : r \in Active(w)'}
             = {[req |-> r, hash |-> rows[r].hash] : r \in Active(w)}
  BY <1>2, <1>3
<1> QED
  BY <1>1, <1>2, <1>4 DEF QueueOf, LaneOf

\* A write to the row r of wallet w shows at w only.
LEMMA LaneMoved ==
    ASSUME NEW w \in Wallet, NEW r \in Request,
           \A s \in Request : s # r => rows'[s] = rows[s],
           rows[r] # Null => rows[r].wallet = w,
           rows'[r] # Null => rows'[r].wallet = w
    PROVE  /\ QueueOf' = [QueueOf EXCEPT ![w] = RowsOf(w)' \ Active(w)']
           /\ LaneOf' = [LaneOf EXCEPT ![w] = {[req |-> s, hash |-> rows'[s].hash] :
                                                  s \in Active(w)'}]
<1>1. ASSUME NEW v, v # w PROVE RowsOf(v)' = RowsOf(v) /\ r \notin RowsOf(v)
  <2>1. \A s \in Request : rows'[s] # Null /\ rows'[s].wallet = v <=>
                           rows[s] # Null /\ rows[s].wallet = v
    BY <1>1
  <2> QED
    BY <1>1, <2>1 DEF RowsOf
<1>2. \A v : v # w => Active(v)' = Active(v) /\ r \notin Active(v) /\ Active(v) \subseteq Request
  <2> SUFFICES ASSUME NEW v, v # w
               PROVE  Active(v)' = Active(v) /\ r \notin Active(v) /\ Active(v) \subseteq Request
    OBVIOUS
  <2>1. RowsOf(v)' = RowsOf(v) /\ r \notin RowsOf(v) /\ RowsOf(v) \subseteq Request
    BY <1>1 DEF RowsOf
  <2>2. \A s \in RowsOf(v) : rows'[s] = rows[s]
    BY <2>1
  <2> QED
    BY <2>1, <2>2 DEF Active
<1>3. \A v : v # w => {[req |-> s, hash |-> rows'[s].hash] : s \in Active(v)'}
                      = {[req |-> s, hash |-> rows[s].hash] : s \in Active(v)}
  <2> SUFFICES ASSUME NEW v, v # w
               PROVE  {[req |-> s, hash |-> rows'[s].hash] : s \in Active(v)'}
                      = {[req |-> s, hash |-> rows[s].hash] : s \in Active(v)}
    OBVIOUS
  <2>1. Active(v)' = Active(v) /\ \A s \in Active(v) : rows'[s] = rows[s]
    BY <1>2
  <2> QED
    BY ONLY <2>1
<1> QED
  BY <1>1, <1>2, <1>3 DEF QueueOf, LaneOf

\* The lane of a wallet with a submitted row is that row's job.
LEMMA LaneJob ==
    ASSUME OneActiveInv, NEW w \in Wallet, NEW r \in Active(w)
    PROVE  /\ LaneOf[w] = {[req |-> r, hash |-> rows[r].hash]}
           /\ [req |-> r, hash |-> rows[r].hash] \in WL!Job
           /\ Active(w) = {r} /\ r \in Request /\ rows[r].hash \in Hash
<1>1. Active(w) = {r}
  BY DEF OneActiveInv, AtMostOneActive
<1>2. LaneOf[w] = {[req |-> r, hash |-> rows[r].hash]}
  BY <1>1 DEF LaneOf
<1>3. r \in Request /\ rows[r] \in Row /\ RowShape(rows[r]) /\ rows[r].submitted # Null
  BY DEF Active, RowsOf, OneActiveInv, TypeInv, TypeOK, StoreTypeOK, Shapes
<1>4. rows[r].hash \in Hash
  BY <1>3 DEF RowShape, Row
<1> QED
  BY <1>1, <1>2, <1>3, <1>4 DEF WL!Job, WL!Hash, Hash

\* Telling the client of the submitted row about the transaction it holds.
LEMMA SimProgress ==
    ASSUME OneActiveInv, UNCHANGED rows, NEW w \in Wallet, NEW r \in Active(w),
           NEW m, Reported' = Reported \union {m},
           \/ m = Submitted(r, rows[r].hash)
           \/ m = Mined(r, rows[r].hash)
           \/ m = Confirmed(r, rows[r].hash) /\ Mined(r, rows[r].hash) \in Reported
    PROVE  WL!LaneNext
<1> DEFINE j == [req |-> r, hash |-> rows[r].hash]
<1>1. LaneOf[w] = {j} /\ j \in WL!Job /\ j.req = r /\ j.hash = rows[r].hash
  BY LaneJob
<1>2. QueueOf' = QueueOf /\ LaneOf' = LaneOf
  BY LaneKept
<1> HIDE DEF j
<1>3. WL!TellProgress(w, j)
  BY <1>1, <1>2 DEF WL!TellProgress, WL!Tell, WL!Submitted, WL!Mined, WL!Confirmed,
                    Submitted, Mined, Confirmed
<1> QED
  BY <1>1, <1>3 DEF WL!LaneNext

\* Telling the client of a stored row that it failed.
LEMMA SimFailed ==
    ASSUME UNCHANGED rows, NEW w \in Wallet, NEW r \in RowsOf(w),
           Reported' = Reported \union {Failed(r)}
    PROVE  WL!LaneNext
<1>1. QueueOf' = QueueOf /\ LaneOf' = LaneOf
  BY LaneKept
<1>2. r \in Request
  BY DEF RowsOf
<1>3. CASE r \in Active(w)
  <2>1. [req |-> r, hash |-> rows[r].hash] \in LaneOf[w]
    BY <1>3 DEF LaneOf
  <2>2. \E j \in LaneOf[w] : j.req = r
    BY <2>1
  <2>3. WL!TellFailed(w, r)
    BY <1>1, <2>2 DEF WL!TellFailed, WL!Tell, WL!Failed, Failed
  <2> QED
    BY <1>2, <2>3 DEF WL!LaneNext
<1>4. CASE r \notin Active(w)
  <2>1. r \in QueueOf[w]
    BY <1>4 DEF QueueOf
  <2>2. WL!TellFailed(w, r)
    BY <1>1, <2>1 DEF WL!TellFailed, WL!Tell, WL!Failed, Failed
  <2> QED
    BY <1>2, <2>2 DEF WL!LaneNext
<1> QED
  BY <1>3, <1>4

\* Deleting a row whose outcome was told.
LEMMA SimDelete ==
    ASSUME OneActiveInv, NEW w \in Wallet, NEW r \in RowsOf(w),
           rows' = [rows EXCEPT ![r] = Null], Reported' = Reported,
           \/ Failed(r) \in Reported
           \/ r \in Active(w) /\ Confirmed(r, rows[r].hash) \in Reported
    PROVE  WL!LaneNext
<1>1. rows \in [Request -> Row \union {Null}] /\ r \in Request /\ rows[r].wallet = w
  BY DEF OneActiveInv, TypeInv, TypeOK, StoreTypeOK, RowsOf
<1>2. rows'[r] = Null /\ \A s \in Request : s # r => rows'[s] = rows[s]
  BY <1>1
<1>3. /\ QueueOf' = [QueueOf EXCEPT ![w] = RowsOf(w)' \ Active(w)']
      /\ LaneOf' = [LaneOf EXCEPT ![w] = {[req |-> s, hash |-> rows'[s].hash] :
                                             s \in Active(w)'}]
  BY <1>1, <1>2, LaneMoved
<1>4. RowsOf(w)' = RowsOf(w) \ {r} /\ Active(w)' = Active(w) \ {r}
  BY <1>2 DEF RowsOf, Active
<1>5. CASE r \in Active(w)
  <2> DEFINE j == [req |-> r, hash |-> rows[r].hash]
  <2>1. /\ LaneOf[w] = {j} /\ j \in WL!Job /\ Active(w) = {r}
        /\ j.req = r /\ j.hash = rows[r].hash
    BY <1>5, LaneJob
  <2>2. Active(w)' = {} /\ RowsOf(w)' \ Active(w)' = RowsOf(w) \ Active(w)
    BY <1>4, <2>1
  <2>3. LaneOf' = [LaneOf EXCEPT ![w] = {}]
    BY <1>3, <2>2
  <2>4. QueueOf' = QueueOf
    BY <1>3, <2>2 DEF QueueOf
  <2> HIDE DEF j
  <2>5. WL!Retire(w, j)
    BY <2>1, <2>3, <2>4 DEF WL!Retire, WL!Confirmed, WL!Failed, Confirmed, Failed
  <2> QED
    BY <2>1, <2>5 DEF WL!LaneNext
<1>6. CASE r \notin Active(w)
  <2>1. Active(w)' = Active(w) /\ RowsOf(w)' \ Active(w)' = (RowsOf(w) \ Active(w)) \ {r}
    BY <1>4, <1>6
  <2>2. \A s \in Active(w) : rows'[s] = rows[s]
    BY <1>2, <1>6 DEF Active, RowsOf
  <2>3. LaneOf' = LaneOf
    <3>1. {[req |-> s, hash |-> rows'[s].hash] : s \in Active(w)'}
          = {[req |-> s, hash |-> rows[s].hash] : s \in Active(w)}
      BY <2>1, <2>2
    <3> QED
      BY <1>3, <3>1 DEF LaneOf
  <2>4. QueueOf' = [QueueOf EXCEPT ![w] = @ \ {r}] /\ r \in QueueOf[w]
    BY <1>3, <1>6, <2>1 DEF QueueOf
  <2>5. WL!Discard(w, r)
    BY <1>6, <2>3, <2>4 DEF WL!Discard, WL!Failed, Failed
  <2> QED
    BY <1>1, <2>5 DEF WL!LaneNext
<1> QED
  BY <1>5, <1>6

\* Recording a transaction whose hash was never told: the first one of the
\* row, or one that takes the place of another.
LEMMA SimRecord ==
    ASSUME OneActiveInv, NEW w \in Wallet, NEW r \in RowsOf(w), NEW new \in Row,
           Active(w) \subseteq {r},
           rows' = [rows EXCEPT ![r] = new], Reported' = Reported,
           new.wallet = w, new.submitted # Null, new.hash \in Hash,
           \A m \in Reported : m.req = r => m.hash # new.hash
    PROVE  WL!LaneNext
<1> DEFINE h == new.hash
           k == [req |-> r, hash |-> h]
<1>1. rows \in [Request -> Row \union {Null}] /\ r \in Request /\ rows[r].wallet = w
  BY DEF OneActiveInv, TypeInv, TypeOK, StoreTypeOK, RowsOf
<1>2. rows'[r] = new /\ new # Null /\ \A s \in Request : s # r => rows'[s] = rows[s]
  BY <1>1
<1>3. /\ QueueOf' = [QueueOf EXCEPT ![w] = RowsOf(w)' \ Active(w)']
      /\ LaneOf' = [LaneOf EXCEPT ![w] = {[req |-> s, hash |-> rows'[s].hash] :
                                             s \in Active(w)'}]
  BY <1>1, <1>2, LaneMoved
<1>4. RowsOf(w)' = RowsOf(w) /\ Active(w)' = {r}
  BY <1>1, <1>2 DEF RowsOf, Active
<1>5. LaneOf' = [LaneOf EXCEPT ![w] = {k}]
  <2>1. {[req |-> s, hash |-> rows'[s].hash] : s \in Active(w)'} = {k}
    BY <1>2, <1>4
  <2> QED
    BY <1>3, <2>1
<1>6. \A m \in Reported : m.req = r => m.hash # h
  OBVIOUS
<1>7. CASE r \in Active(w)
  <2> DEFINE j == [req |-> r, hash |-> rows[r].hash]
  <2>1. /\ LaneOf[w] = {j} /\ j \in WL!Job /\ Active(w) = {r} /\ j.req = r
        /\ [j EXCEPT !.hash = h] = k
    BY <1>7, LaneJob
  <2>2. QueueOf' = QueueOf
    BY <1>3, <1>4, <2>1 DEF QueueOf
  <2> HIDE DEF j, h, k
  <2>3. WL!Replace(w, j, h)
    BY <1>5, <1>6, <2>1, <2>2 DEF WL!Replace, WL!Untold
  <2> QED
    BY <2>1, <2>3 DEF WL!LaneNext, WL!Hash, Hash, h
<1>8. CASE r \notin Active(w)
  <2>1. Active(w) = {} /\ r \in QueueOf[w]
    BY <1>8 DEF QueueOf
  <2>2. LaneOf[w] = {}
    BY <2>1 DEF LaneOf
  <2>3. QueueOf' = [QueueOf EXCEPT ![w] = @ \ {r}]
    <3>1. QueueOf[w] \ {r} = RowsOf(w)' \ Active(w)'
      <4>1. QueueOf[w] = RowsOf(w)
        BY <2>1 DEF QueueOf
      <4> QED
        BY <1>4, <4>1
    <3> QED
      BY ONLY <1>3, <3>1
  <2> HIDE DEF h
  <2>4. WL!Dispatch(w, r, h)
    BY <1>5, <1>6, <2>1, <2>2, <2>3 DEF WL!Dispatch, WL!Untold
  <2> QED
    BY <1>1, <2>4 DEF WL!LaneNext, WL!Hash, Hash, h
<1> QED
  BY <1>7, <1>8

\* Every step of a watcher is a step of its wallet's lane, or does not show.
LEMMA SimStep ==
    ASSUME TellInv, NEW p \in Watcher, Step(p)
    PROVE  WL!LaneNext \/ UNCHANGED WL!laneVars
<1> DEFINE t == tick[p]
           w == WalletOf[p]
<1>0. /\ t \in Tick /\ Told(w, t, rows, Reported) /\ Lane(p, t) /\ w \in Wallet
      /\ rows \in [Request -> Row \union {Null}] /\ StatusTypeOK /\ faults \in Nat
      /\ signedFor \in [Hash -> Request \union {Null}]
      /\ OneActiveInv /\ MinedTold /\ TellsSigned /\ Null \notin Hash
  BY Held DEF TellInv, OneActiveInv, Lanes, TypeInv, TypeOK, StoreTypeOK, Hash
<1>a. t.step \in ActiveStep =>
        /\ t.id \in Request /\ rows[t.id] = t.row /\ t.row \in Row /\ t.row.hash \in Hash
        /\ t.row.wallet = w /\ t.row.submitted # Null /\ t.id \in Active(w)
  <2>1. t.step \in ActiveStep =>
          /\ t.id \in Request /\ rows[t.id] # Null /\ rows[t.id] = t.row /\ t.row \in Row
          /\ t.row.hash \in Hash /\ t.row.wallet = w /\ t.row.submitted # Null
    BY Held
  <2> QED
    BY <2>1 DEF Active, RowsOf
<1>b. t.step \in SubmitStep \union {"failed", "deleteFailed"} =>
        t.id \in Request /\ rows[t.id] \in Row /\ t.id \in RowsOf(w) /\ t.row \in Row
  <2>1. t.step \in SubmitStep \union {"failed", "deleteFailed"} =>
          /\ t.id \in Request /\ rows[t.id] # Null /\ rows[t.id].wallet = w /\ t.row \in Row
    BY Held
  <2> QED
    BY <1>0, <2>1 DEF RowsOf
<1>c. t.step = "submitted" =>
        t.id \in Active(w) /\ rows[t.id].hash = t.row.hash /\ t.row.hash \in Hash
  BY <1>0, Held DEF Told, Active, RowsOf
<1> HIDE DEF t
\* Steps that neither write the table nor report.
<1>1. CASE UNCHANGED <<rows, published, lost>>
  <2>1. QueueOf' = QueueOf /\ LaneOf' = LaneOf /\ Reported' = Reported
    BY <1>1, LaneKept DEF Reported
  <2> QED
    BY <2>1 DEF WL!laneVars
\* Steps that write the mined columns only.
<1>2. ASSUME NEW rec \in Receipt \union {Null}, t.step \in ActiveStep,
             Update(t.id, [rows[t.id] EXCEPT !.mined = rec]),
             UNCHANGED <<published, lost>>
      PROVE  UNCHANGED WL!laneVars
  <2> DEFINE new == [rows[t.id] EXCEPT !.mined = rec]
  <2>1. /\ new \in Row /\ new # Null /\ new.wallet = rows[t.id].wallet
        /\ new.hash = rows[t.id].hash /\ new.submitted = rows[t.id].submitted
        /\ rows[t.id] # Null
    BY <1>a, <1>2 DEF Row
  <2>2. rows'[t.id] = new /\ \A r \in Request : r # t.id => rows'[r] = rows[r]
    BY <1>0, <1>a, <1>2, <2>1 DEF Update
  <2> HIDE DEF new
  <2>3. QueueOf' = QueueOf /\ LaneOf' = LaneOf /\ Reported' = Reported
    BY <1>2, <2>1, <2>2, LaneKept DEF Reported
  <2> QED
    BY <2>3 DEF WL!laneVars
<1>3. CASE ClearMined(p)
  BY <1>2, <1>3 DEF ClearMined, Goto, t, ActiveStep, statusVars
<1>4. CASE RecordMined(p) \/ RecordMoved(p)
  <2>1. t.rec \in Receipt \union {Null}
    BY <1>0 DEF Tick
  <2> QED
    BY <1>2, <1>4, <2>1 DEF RecordMined, RecordMoved, Goto, t, ActiveStep, statusVars
<1>5. CASE RecordBoost(p)
  <2>1. PICK h \in Hash :
          /\ NewHash(h) /\ t.step = "recordBoost"
          /\ Update(t.id, [rows[t.id] EXCEPT !.hash = h, !.nonce = t.row.nonce,
                                             !.boosted = t.head])
    BY <1>5 DEF RecordBoost, Goto, t
  <2> DEFINE new == [rows[t.id] EXCEPT !.hash = h, !.nonce = t.row.nonce, !.boosted = t.head]
  <2>2. t.step \in ActiveStep /\ t.head \in Nat
    BY <1>0, <2>1 DEF ActiveStep, Tick
  <2>3. /\ new \in Row /\ new.wallet = w /\ new.submitted # Null /\ new.hash = h
        /\ rows' = [rows EXCEPT ![t.id] = new]
    BY <1>a, <2>1, <2>2 DEF Row, Update
  <2>4. \A m \in Reported : m.hash # h
    BY <1>0, <2>1 DEF NewHash, TellsSigned
  <2>5. Active(w) \subseteq {t.id} /\ t.id \in RowsOf(w)
    <3>1. t.id \in Active(w)
      BY <1>a, <2>2
    <3>2. Active(w) = {t.id}
      BY <1>0, <3>1, LaneJob
    <3> QED
      BY <3>1, <3>2 DEF Active
  <2>6. Reported' = Reported
    BY <1>5 DEF RecordBoost, statusVars, Reported
  <2>7. new.hash \in Hash /\ \A m \in Reported : m.req = t.id => m.hash # new.hash
    BY <2>3, <2>4
  <2> HIDE DEF new
  <2>8. WL!LaneNext
    BY <1>0, <2>3, <2>5, <2>6, <2>7, SimRecord, Zenon
  <2> QED
    BY <2>8
<1>6. CASE RecordSubmit(p)
  <2> DEFINE new == [rows[t.id] EXCEPT !.submitted = t.head, !.nonce = t.row.nonce,
                                       !.hash = t.row.hash]
  <2>1. t.step = "recordSubmit" /\ Update(t.id, new)
    BY <1>6 DEF RecordSubmit, Goto, t
  <2>2. t.step \in SubmitStep /\ t.head \in Nat /\ TickShape(t)
    BY <1>0, <2>1 DEF SubmitStep, Tick, TellInv, OneActiveInv, TypeInv, Shapes, t
  <2>3. t.row.hash \in Hash
    BY <1>b, <2>1, <2>2 DEF TickShape, Row
  <2>4. rows[t.id].wallet = w
    BY <1>b, <2>2 DEF RowsOf
  <2>5. /\ new \in Row /\ new.wallet = w /\ new.submitted # Null /\ new.hash = t.row.hash
        /\ rows' = [rows EXCEPT ![t.id] = new]
    BY <1>b, <2>1, <2>2, <2>4 DEF Row, Update
  <2>6. \A m \in Reported : m.req = t.id => m.hash # t.row.hash
    BY <1>0, <2>1 DEF TellsSigned, t
  <2>7. Active(w) \subseteq {t.id} /\ t.id \in RowsOf(w)
    BY <1>0, <1>b, <2>2 DEF Lane
  <2>8. Reported' = Reported
    BY <1>6 DEF RecordSubmit, statusVars, Reported
  <2>9. new.hash \in Hash /\ \A m \in Reported : m.req = t.id => m.hash # new.hash
    BY <2>3, <2>5, <2>6
  <2> HIDE DEF new
  <2>10. WL!LaneNext
    BY <1>0, <2>5, <2>7, <2>8, <2>9, SimRecord, Zenon
  <2> QED
    BY <2>10
<1>7. CASE PublishMined(p)
  <2>1. t.step \in ActiveStep /\ Report(Mined(t.id, t.row.hash)) /\ UNCHANGED rows
    BY <1>7 DEF PublishMined, Goto, t, ActiveStep, storeVars
  <2>2. Mined(t.id, t.row.hash) \in Message
    BY <1>a, <2>1 DEF Message, Mined
  <2>3. Reported' = Reported \union {Mined(t.id, t.row.hash)}
    BY <1>0, <2>1, <2>2, ReportType
  <2> QED
    BY <1>0, <1>a, <2>1, <2>3, SimProgress
<1>8. CASE PublishConfirmed(p)
  <2>1. /\ t.step = "confirmed" /\ t.step \in ActiveStep
        /\ Report(Confirmed(t.id, t.row.hash)) /\ UNCHANGED rows
    BY <1>8 DEF PublishConfirmed, Goto, t, ActiveStep, storeVars
  <2>2. Confirmed(t.id, t.row.hash) \in Message
    BY <1>a, <2>1 DEF Message, Confirmed
  <2>3. Reported' = Reported \union {Confirmed(t.id, t.row.hash)}
    BY <1>0, <2>1, <2>2, ReportType
  <2>4. rows[t.id] # Null /\ rows[t.id].mined # Null
    BY <1>0, <1>a, <2>1 DEF Told
  <2>5. Mined(t.id, rows[t.id].hash) \in Reported
    BY <1>0, <1>a, <2>1, <2>4 DEF MinedTold
  <2> QED
    BY <1>0, <1>a, <2>1, <2>3, <2>5, SimProgress
<1>9. CASE PublishSubmitted(p)
  <2>1. t.step = "submitted" /\ Report(Submitted(t.id, t.row.hash)) /\ UNCHANGED rows
    BY <1>9 DEF PublishSubmitted, Goto, t, storeVars
  <2>2. Submitted(t.id, t.row.hash) \in Message
    BY <1>c, <2>1 DEF Message, Submitted, Active, RowsOf
  <2>3. Reported' = Reported \union {Submitted(t.id, t.row.hash)}
    BY <1>0, <2>1, <2>2, ReportType
  <2> QED
    BY <1>0, <1>c, <2>1, <2>3, SimProgress
<1>10. CASE PublishFailed(p)
  <2>1. t.step = "failed" /\ Report(Failed(t.id)) /\ UNCHANGED rows
    BY <1>10 DEF PublishFailed, Goto, t, storeVars
  <2>2. Failed(t.id) \in Message
    BY <1>b, <2>1 DEF Message, Failed
  <2>3. Reported' = Reported \union {Failed(t.id)}
    BY <1>0, <2>1, <2>2, ReportType
  <2> QED
    BY <1>0, <1>b, <2>1, <2>3, SimFailed
<1>11. CASE DeleteConfirmed(p)
  <2>1. /\ t.step = "deleteConfirmed" /\ t.step \in ActiveStep
        /\ rows' = [rows EXCEPT ![t.id] = Null] /\ Reported' = Reported
    BY <1>11 DEF DeleteConfirmed, Goto, t, ActiveStep, Delete, statusVars, Reported
  <2>2. Confirmed(t.id, rows[t.id].hash) \in Reported
    BY <1>0, <1>a, <2>1 DEF Told
  <2>3. t.id \in Active(w) /\ t.id \in RowsOf(w)
    BY <1>a, <2>1 DEF Active
  <2> QED
    BY <1>0, <2>1, <2>2, <2>3, SimDelete
<1>12. CASE DeleteFailed(p)
  <2>1. /\ t.step = "deleteFailed"
        /\ rows' = [rows EXCEPT ![t.id] = Null] /\ Reported' = Reported
    BY <1>12 DEF DeleteFailed, Goto, t, Delete, statusVars, Reported
  <2>2. Failed(t.id) \in Reported /\ t.id \in RowsOf(w)
    BY <1>0, <1>b, <2>1 DEF Told
  <2> QED
    BY <1>0, <2>1, <2>2, SimDelete
<1>13. \/ ClearMined(p) \/ RecordMined(p) \/ RecordMoved(p) \/ RecordBoost(p)
       \/ RecordSubmit(p) \/ PublishMined(p) \/ PublishConfirmed(p)
       \/ PublishSubmitted(p) \/ PublishFailed(p) \/ DeleteConfirmed(p)
       \/ DeleteFailed(p) \/ UNCHANGED <<rows, published, lost>>
  <2>1. ReadActive(p) \/ ReadHead(p) \/ ReadReceipt(p) \/ PrepareBoost(p)
        \/ SendBoost(p) \/ SignFails(p) => UNCHANGED <<rows, published, lost>>
    BY DEF ReadActive, ReadHead, ReadReceipt, PrepareBoost, SendBoost, SignFails,
           storeVars, statusVars
  <2>2. PickNext(p) \/ ReadSubmitHead(p) \/ PrepareSubmit(p) \/ SendSubmit(p)
          => UNCHANGED <<rows, published, lost>>
    BY DEF PickNext, ReadSubmitHead, PrepareSubmit, SendSubmit, storeVars, statusVars
  <2> QED
    BY <2>1, <2>2 DEF Step
<1> QED
  BY <1>1, <1>3, <1>4, <1>5, <1>6, <1>7, <1>8, <1>9, <1>10, <1>11, <1>12, <1>13

\* What keeps the table and the events does not show.
LEMMA SimKeep ==
    ASSUME UNCHANGED <<rows, published, lost>>
    PROVE  UNCHANGED WL!laneVars
<1>1. QueueOf' = QueueOf /\ LaneOf' = LaneOf /\ Reported' = Reported
  BY LaneKept DEF Reported
<1> QED
  BY <1>1 DEF WL!laneVars

\* A request that is inserted is enqueued.
LEMMA SimInsert ==
    ASSUME TellInv, NEW r \in Request, NEW w \in Wallet, Upsert(r, w),
           UNCHANGED <<published, lost>>
    PROVE  WL!LaneNext \/ UNCHANGED WL!laneVars
<1>0. rows \in [Request -> Row \union {Null}] /\ Reported' = Reported
  BY DEF TellInv, OneActiveInv, TypeInv, TypeOK, StoreTypeOK, Reported
<1>1. CASE rows[r] # Null
  <2>1. rows' = rows
    BY <1>0, <1>1 DEF Upsert, OnConflict
  <2> QED
    BY <2>1, SimKeep
<1>2. CASE rows[r] = Null
  <2>1. /\ rows'[r] = NewRow(w) /\ rows'[r].wallet = w /\ rows'[r].submitted = Null
        /\ \A s \in Request : s # r => rows'[s] = rows[s]
    BY <1>0, <1>2 DEF Upsert, OnConflict, NewRow
  <2>2. rows'[r] # Null
    BY <2>1 DEF NewRow, Row
  <2>3. /\ QueueOf' = [QueueOf EXCEPT ![w] = RowsOf(w)' \ Active(w)']
        /\ LaneOf' = [LaneOf EXCEPT ![w] = {[req |-> s, hash |-> rows'[s].hash] :
                                               s \in Active(w)'}]
    BY <1>2, <2>1, LaneMoved
  <2>4. RowsOf(w)' = RowsOf(w) \union {r} /\ Active(w)' = Active(w)
    BY <1>2, <2>1, <2>2 DEF RowsOf, Active
  <2>5. /\ r \notin Active(w) /\ Active(w) \subseteq RowsOf(w)
        /\ \A s \in Active(w) : rows'[s] = rows[s]
    BY <1>2, <2>1 DEF Active, RowsOf
  <2>6. LaneOf' = LaneOf
    <3>1. {[req |-> s, hash |-> rows'[s].hash] : s \in Active(w)'}
          = {[req |-> s, hash |-> rows[s].hash] : s \in Active(w)}
      BY <2>4, <2>5
    <3> QED
      BY <2>3, <3>1 DEF LaneOf
  <2>7. QueueOf' = [QueueOf EXCEPT ![w] = @ \union {r}]
    <3>1. r \notin RowsOf(w)
      BY <1>2 DEF RowsOf
    <3>2. RowsOf(w)' \ Active(w)' = (RowsOf(w) \ Active(w)) \union {r}
      BY <2>4, <2>5, <3>1
    <3> QED
      BY <2>3, <3>2 DEF QueueOf
  <2>8. \A v \in Wallet : r \notin RowsOf(v) /\ r \notin Active(v)
    BY <1>2 DEF RowsOf, Active
  <2>9. WL!Absent(r)
    BY <2>8 DEF WL!Absent, QueueOf, LaneOf
  <2>10. WL!Enqueue(w, r)
    BY <1>0, <2>6, <2>7, <2>9 DEF WL!Enqueue
  <2> QED
    BY <2>10 DEF WL!LaneNext
<1> QED
  BY <1>1, <1>2

\* Every step of the system is a step of a lane, or does not show.
LEMMA SimNext ==
    ASSUME TellInv, [Next]_vars
    PROVE  WL!LaneNext \/ UNCHANGED WL!laneVars
<1>1. ASSUME NEW r \in Request, NEW w \in Wallet, Arrive(r, w)
      PROVE  WL!LaneNext \/ UNCHANGED WL!laneVars
  BY <1>1, SimInsert DEF Arrive, statusVars
<1>2. ASSUME NEW p \in Watcher, Abort(p) PROVE UNCHANGED WL!laneVars
  BY <1>2, SimKeep DEF Abort, storeVars, statusVars
<1>3. CASE ChainStep \/ UNCHANGED vars
  BY <1>3, SimKeep DEF ChainStep, vars, storeVars, statusVars
<1> QED
  BY <1>1, <1>2, <1>3, SimStep DEF Next

LEMMA LaneStart == Init => WL!LaneInit
<1> SUFFICES ASSUME Init PROVE WL!LaneInit
  OBVIOUS
<1>1. \A w : RowsOf(w) = {} /\ Active(w) = {}
  BY DEF Init, StoreInit, RowsOf, Active
<1>2. Reported = {}
  BY DEF Init, StatusInit, Reported
<1> QED
  BY <1>1, <1>2 DEF WL!LaneInit, QueueOf, LaneOf

\* With one watcher per wallet, the ticker implements the promise of
\* WalletLane, for every configuration, over any faults, redeliveries, boosts
\* and reorgs (loop.go:103-458).
THEOREM Refinement ==
    ASSUME OneWatcherPerWallet PROVE Spec => ImplementsLane
<1>1. TellInv /\ [Next]_vars => [WL!LaneNext]_(WL!laneVars)
  BY SimNext
<1> QED
  BY <1>1, LaneStart, TellsInOrder, PTL DEF Spec, ImplementsLane, WL!LaneSpec
=============================================================================
