--------------------------- MODULE ServiceProofs ----------------------------
(***************************************************************************)
(* The process as a whole: its parts interleave over one table, and it is  *)
(* stopped, killed and started again, with any number of wallets, callers  *)
(* and starts and any configuration.                                       *)
(***************************************************************************)
EXTENDS ServiceInvariants, TickerProofs

USE MetaTransactionsAssumption, EthNodeAssumption, TickerAssumption, ServiceAssumption

-----------------------------------------------------------------------------
(* The consumer's part of the invariant.                                   *)

\* The table is the same one for the consumer.
LEMMA SameTable == (StoreTypeOK <=> C!StoreTypeOK) /\ (StoreTypeOK' <=> C!StoreTypeOK')
BY DEF StoreTypeOK, C!StoreTypeOK, Row, C!Row, Receipt, C!Receipt, Hash, C!Hash, Nonce, C!Nonce

\* A valid event names a request.
LEMMA LogFacts ==
    /\ Len(Log) \in Nat
    /\ \A i \in 1 .. Len(Log) : C!Valid(Log[i]) => C!DecodedId(Log[i]) \in Request
<1>1. Len(Log) \in Nat /\ \A i \in 1 .. Len(Log) : Log[i] \in C!Event
  BY LogAssumption
<1>2. \A e \in C!Event : C!Valid(e) => C!DecodedId(e) \in Request
  BY DEF C!Event, C!Valid, C!DecodedId
<1> QED
  BY <1>1, <1>2

\* Only what Postgres takes can be in the table.
AllStorable(S) == \A i \in S : C!Storable(Log[i])

\* Log[1..n] holds no valid request whose position is not in S.
CoveredBy(n, S) == \A i \in 1 .. n : C!Valid(Log[i]) => i \in S

\* A claim that has handled what is in S.
ClaimOK(cl, S) ==
    /\ cl \in C!Claim
    /\ cl.marked <= cl.pos
    /\ CoveredBy(cl.pos, S)
    /\ cl.step \in {"save", "mark"} => cl.pos < Len(Log) /\ C!Valid(Log[cl.pos + 1])
    /\ cl.step = "mark" => cl.pos + 1 \in S

\* The consumer's invariant for the only member of the group.
LEMMA IntakeParts ==
    C!IntakeInv <=> /\ StoreTypeOK /\ committed \in C!Position
                    /\ owner \in {Proc, Null} /\ claim \in [{Proc} -> C!Claim]
                    /\ stored \subseteq 1 .. Len(Log) /\ faults \in Nat
                    /\ AllStorable(stored)
                    /\ CoveredBy(committed, stored) /\ ClaimOK(claim[Proc], stored)
BY SameTable DEF C!IntakeInv, C!TypeOK, C!Covered, CoveredBy, ClaimOK, AllStorable

\* The invariant holds after a step that leaves a well-formed claim and table,
\* forgets nothing stored and commits only what is covered.
LEMMA IntakeFrom ==
    ASSUME C!IntakeInv, StoreTypeOK', faults' \in Nat, owner' \in {Proc, Null},
           stored \subseteq stored', stored' \subseteq 1 .. Len(Log), AllStorable(stored'),
           NEW cl, ClaimOK(cl, stored'), claim' = [claim EXCEPT ![Proc] = cl],
           committed' \in C!Position, CoveredBy(committed', stored)
    PROVE  C!IntakeInv'
<1>1. claim \in [{Proc} -> C!Claim]
  BY IntakeParts
<1>2. claim' \in [{Proc} -> C!Claim] /\ claim'[Proc] = cl
  BY <1>1 DEF ClaimOK
<1>3. CoveredBy(committed', stored')
  BY DEF CoveredBy
<1>4. /\ C!TypeOK' /\ C!Covered(committed)'
  BY <1>2, <1>3, SameTable DEF C!TypeOK, C!Covered, CoveredBy, C!Claim, C!Position
<1>5. ClaimOK(claim'[Proc], stored')
  BY <1>2
<1> QED
  BY <1>4, <1>5 DEF C!IntakeInv, C!Covered, CoveredBy, ClaimOK, AllStorable

\* The same when only the rest of the system moves.
LEMMA IntakeKeep ==
    ASSUME C!IntakeInv, StoreTypeOK', faults' \in Nat, UNCHANGED consumerVars
    PROVE  C!IntakeInv'
<1>1. /\ claim \in [{Proc} -> C!Claim] /\ ClaimOK(claim[Proc], stored)
      /\ committed \in C!Position /\ CoveredBy(committed, stored)
      /\ owner \in {Proc, Null} /\ stored \subseteq 1 .. Len(Log) /\ AllStorable(stored)
  BY IntakeParts
<1>2. claim' = [claim EXCEPT ![Proc] = claim[Proc]]
  BY <1>1 DEF consumerVars
<1> QED
  BY <1>1, <1>2, IntakeFrom DEF consumerVars

\* The process is gone: the claim with it.
LEMMA IntakeDown ==
    ASSUME C!IntakeInv, UNCHANGED <<storeVars, faults, committed, owner, stored>>,
           claim' = [claim EXCEPT ![Proc] = C!Down]
    PROVE  C!IntakeInv'
<1>1. /\ StoreTypeOK /\ faults \in Nat
      /\ committed \in C!Position /\ CoveredBy(committed, stored)
      /\ owner \in {Proc, Null} /\ stored \subseteq 1 .. Len(Log) /\ AllStorable(stored)
  BY IntakeParts
<1>2. ClaimOK(C!Down, stored')
  BY LogFacts DEF ClaimOK, C!Down, C!Claim, C!Position, CoveredBy
<1>3. StoreTypeOK'
  BY <1>1 DEF StoreTypeOK, storeVars
<1> QED
  BY <1>1, <1>2, <1>3, IntakeFrom

\* Marking the event just handled covers one position more.
LEMMA MarkCovers ==
    ASSUME NEW S, NEW cl, ClaimOK(cl, S), cl.pos < Len(Log),
           C!Valid(Log[cl.pos + 1]) => cl.pos + 1 \in S
    PROVE  ClaimOK(C!MarkMessage(cl), S)
<1> DEFINE new == C!MarkMessage(cl)
<1>1. /\ cl \in C!Claim /\ cl.pos \in Nat /\ Len(Log) \in Nat
  BY LogFacts DEF ClaimOK, C!Claim, C!Position
<1>2. /\ new \in C!Claim /\ new.pos = cl.pos + 1 /\ new.marked = cl.pos + 1
      /\ new.step = "receive"
  <2>1. cl.pos + 1 \in C!Position
    BY <1>1 DEF C!Position
  <2> QED
    BY <1>1, <2>1 DEF C!MarkMessage, C!Claim
<1>3. CoveredBy(cl.pos + 1, S)
  BY <1>1 DEF ClaimOK, CoveredBy
<1>4. ClaimOK(new, S)
  <2> HIDE DEF new
  <2> QED
    BY <1>1, <1>2, <1>3 DEF ClaimOK
<1> QED
  BY <1>4

\* A step of the consumer inserts a request, or leaves the table alone.
ConsumerStep == C!Join(Proc) \/ C!EndSession(Proc) \/ C!AutoCommit(Proc) \/ Handle

Inserts == \E r \in Request, w \in Wallet : Upsert(r, w)

LEMMA ConsumerTable ==
    ASSUME C!IntakeInv, ConsumerStep
    PROVE  /\ faults' \in Nat
           /\ UNCHANGED storeVars \/ Inserts
           /\ StoreTypeOK'
<1>0. StoreTypeOK /\ faults \in Nat /\ ClaimOK(claim[Proc], stored)
  BY IntakeParts
<1>1. faults' \in Nat
  BY <1>0 DEF ConsumerStep, Handle, C!Join, C!EndSession, C!AutoCommit, C!Skip, C!Receive, C!Save,
              C!SaveFails, C!Failure, C!Mark, C!Leave, C!Fault
<1>2. ASSUME claim[Proc].step = "save", C!Store(Proc) PROVE Inserts
  <2>1. claim[Proc].pos + 1 \in 1 .. Len(Log) /\ C!Valid(Log[claim[Proc].pos + 1])
    BY <1>0, <1>2, LogFacts DEF ClaimOK, C!Claim, C!Position
  <2>2. PICK r \in Request : r = C!DecodedId(Log[claim[Proc].pos + 1])
    BY <2>1, LogFacts
  <2>3. PICK w \in Wallet : C!Upsert(r, w)
    BY <1>2, <2>2 DEF C!Store
  <2>4. Upsert(r, w)
    BY <2>3 DEF C!Upsert, C!OnConflict, C!NewRow, Upsert, OnConflict, NewRow
  <2> QED
    BY <2>4 DEF Inserts
<1>3. UNCHANGED storeVars \/ Inserts
  BY <1>2 DEF ConsumerStep, Handle, C!Join, C!EndSession, C!AutoCommit, C!Skip, C!Receive, C!Save,
              C!SaveFails, C!Mark, C!Leave, storeVars, C!storeVars
<1>4. StoreTypeOK'
  <2>1. CASE UNCHANGED storeVars
    BY <1>0, <2>1 DEF StoreTypeOK, storeVars
  <2>2. ASSUME NEW r \in Request, NEW w \in Wallet, Upsert(r, w) PROVE StoreTypeOK'
    <3>1. NewRow(w) \in Row
      BY DEF NewRow, Row
    <3> QED
      BY <1>0, <2>2, <3>1 DEF Upsert, OnConflict, StoreTypeOK
  <2> QED
    BY <1>3, <2>1, <2>2 DEF Inserts
<1> QED
  BY <1>1, <1>3, <1>4

\* Every step of the consumer preserves its invariant.
LEMMA ConsumerKeeps ==
    ASSUME C!IntakeInv, ConsumerStep
    PROVE  C!IntakeInv'
<1> DEFINE c == claim[Proc]
<1>0. /\ StoreTypeOK /\ committed \in C!Position /\ CoveredBy(committed, stored)
      /\ owner \in {Proc, Null} /\ faults \in Nat
      /\ stored \subseteq 1 .. Len(Log) /\ Len(Log) \in Nat /\ AllStorable(stored)
      /\ claim \in [{Proc} -> C!Claim]
      /\ ClaimOK(c, stored) /\ c \in C!Claim
      /\ StoreTypeOK' /\ faults' \in Nat
  BY LogFacts, IntakeParts, ConsumerTable DEF ClaimOK
<1>1. CASE C!Join(Proc)
  <2> DEFINE cl == [step |-> "receive", pos |-> committed, marked |-> committed, live |-> TRUE]
  <2>1. ClaimOK(cl, stored)
    BY <1>0 DEF ClaimOK, C!Claim, C!Position
  <2> QED
    BY <1>0, <1>1, <2>1, IntakeFrom DEF C!Join
<1>2. CASE C!EndSession(Proc)
  <2> DEFINE cl == [c EXCEPT !.live = FALSE]
  <2>1. ClaimOK(cl, stored) /\ claim' = [claim EXCEPT ![Proc] = cl]
    BY <1>0, <1>2 DEF C!EndSession, ClaimOK, C!Claim
  <2> QED
    BY <1>0, <1>2, <2>1, IntakeFrom DEF C!EndSession
<1>3. ASSUME C!AutoCommit(Proc) \/ C!Leave(Proc)
      PROVE  committed' \in C!Position /\ CoveredBy(committed', stored)
  <2>1. CoveredBy(c.marked, stored) /\ c.marked \in C!Position
    BY <1>0 DEF ClaimOK, C!Claim, CoveredBy, C!Position
  <2> QED
    BY <1>0, <1>3, <2>1 DEF C!AutoCommit, C!Leave
<1>4. CASE C!AutoCommit(Proc)
  <2>1. claim' = [claim EXCEPT ![Proc] = c] /\ stored' = stored /\ owner' = owner
    BY <1>0, <1>4 DEF C!AutoCommit
  <2> QED
    BY <1>0, <1>3, <1>4, <2>1, IntakeFrom
<1>5. CASE C!Skip(Proc)
  <2>1. ClaimOK(C!MarkMessage(c), stored)
    BY <1>0, <1>5, MarkCovers DEF C!Skip
  <2> QED
    BY <1>0, <1>5, <2>1, IntakeFrom DEF C!Skip
<1>6. CASE C!Receive(Proc)
  <2> DEFINE cl == [c EXCEPT !.step = "save"]
  <2>1. ClaimOK(cl, stored) /\ claim' = [claim EXCEPT ![Proc] = cl]
    BY <1>0, <1>6 DEF C!Receive, ClaimOK, C!Claim
  <2> QED
    BY <1>0, <1>6, <2>1, IntakeFrom DEF C!Receive
<1>7. ASSUME c.step = "save", C!Store(Proc)
      PROVE  /\ stored' = stored \union {c.pos + 1} /\ stored' \subseteq 1 .. Len(Log)
             /\ \A n : CoveredBy(n, stored) => CoveredBy(n, stored')
             /\ AllStorable(stored')
  <2>1. c.pos + 1 \in 1 .. Len(Log)
    BY <1>0, <1>7 DEF ClaimOK, C!Claim, C!Position
  <2> QED
    BY <1>0, <1>7, <2>1 DEF C!Store, CoveredBy, AllStorable
<1>8. CASE C!Save(Proc)
  <2> DEFINE cl == [c EXCEPT !.step = "mark"]
  <2>1. /\ cl \in C!Claim /\ cl.pos = c.pos /\ cl.marked = c.marked /\ cl.step = "mark"
        /\ claim' = [claim EXCEPT ![Proc] = cl] /\ c.step = "save"
        /\ C!Store(Proc) /\ UNCHANGED <<committed, owner>>
    BY <1>0, <1>8 DEF C!Save, C!Claim
  <2> HIDE DEF cl
  <2>2. ClaimOK(cl, stored')
    BY <1>0, <1>7, <2>1 DEF ClaimOK
  <2> QED
    BY <1>0, <1>7, <2>1, <2>2, IntakeFrom
<1>9. CASE C!SaveFails(Proc)
  <2> DEFINE cl == [c EXCEPT !.step = "ended", !.live = FALSE]
  <2>1. /\ cl \in C!Claim /\ cl.pos = c.pos /\ cl.marked = c.marked /\ cl.step = "ended"
        /\ claim' = [claim EXCEPT ![Proc] = cl] /\ c.step = "save"
        /\ C!Store(Proc) \/ UNCHANGED stored
        /\ UNCHANGED <<committed, owner>>
    BY <1>0, <1>9 DEF C!SaveFails, C!Claim
  <2> HIDE DEF cl
  <2>2. /\ stored \subseteq stored' /\ stored' \subseteq 1 .. Len(Log) /\ CoveredBy(c.pos, stored')
        /\ AllStorable(stored')
    BY <1>0, <1>7, <2>1 DEF ClaimOK
  <2>3. ClaimOK(cl, stored')
    BY <1>0, <2>1, <2>2 DEF ClaimOK
  <2> QED
    BY <1>0, <2>1, <2>2, <2>3, IntakeFrom
<1>10. CASE C!Mark(Proc)
  <2>1. ClaimOK(C!MarkMessage(c), stored)
    BY <1>0, <1>10, MarkCovers DEF C!Mark, ClaimOK
  <2> QED
    BY <1>0, <1>10, <2>1, IntakeFrom DEF C!Mark
<1>11. CASE C!Leave(Proc)
  <2>1. ClaimOK(C!Down, stored)
    BY <1>0 DEF ClaimOK, C!Down, C!Claim, C!Position, CoveredBy
  <2> QED
    BY <1>0, <1>3, <1>11, <2>1, IntakeFrom DEF C!Leave
<1> QED
  BY <1>1, <1>2, <1>4, <1>5, <1>6, <1>8, <1>9, <1>10, <1>11 DEF ConsumerStep, Handle

-----------------------------------------------------------------------------
(* The table, the ticks and the events.                                    *)

\* A step beside the watchers and the network: it inserts or deletes at most
\* one row, and ends ticks.
Beside ==
    /\ UNCHANGED storeVars \/ Inserts \/ \E r \in Request : Delete(r)
    /\ UNCHANGED <<statusVars, nodeVars, signedFor>>
    /\ faults' \in Nat
    /\ \/ tick' = tick
       \/ tick' = [p \in Watcher |-> Idle]
       \/ \E p \in Watcher : tick' = [tick EXCEPT ![p] = Idle]

\* Everything the process does is a step of a watcher, a step of the network
\* or a step beside them.
LEMMA ServiceMoves ==
    ASSUME TypeInv, C!IntakeInv, cleaning \in [Caller -> Request \union {Null}],
           [ServiceNext]_svars
    PROVE  \/ \E p \in Watcher : Step(p) \/ Abort(p)
           \/ ChainStep
           \/ Beside
<1>0. faults \in Nat
  BY DEF TypeInv, TypeOK
<1>1. ASSUME Gone PROVE Beside
  BY <1>0, <1>1 DEF Gone, Beside
<1>2. ASSUME NEW W \in Configs, Start(W) PROVE Beside
  BY <1>0, <1>2 DEF Start, Beside, vars, localVars
<1>3. CASE Sigterm
  BY <1>0, <1>3 DEF Sigterm, Beside, vars, localVars
<1>4. ASSUME NEW p \in Watcher, Cancelled(p) PROVE Beside
  BY <1>0, <1>4 DEF Cancelled, Beside
<1>5. CASE Consume
  <2>1. ConsumerStep /\ UNCHANGED <<statusVars, nodeVars, tick, signedFor>>
    BY <1>5 DEF Consume, ConsumerStep
  <2> QED
    BY <2>1, ConsumerTable DEF Beside
<1>6. ASSUME NEW c \in Caller, CleanRead(c) PROVE Beside
  BY <1>0, <1>6 DEF CleanRead, Beside, vars, localVars
<1>7. ASSUME NEW c \in Caller, CleanDelete(c) PROVE Beside
  BY <1>0, <1>7 DEF CleanDelete, Beside, localVars
<1>8. ASSUME NEW c \in Caller, CleanFails(c) PROVE Beside
  BY <1>0, <1>8 DEF CleanFails, C!Fault, Beside
<1>9. CASE UNCHANGED svars
  BY <1>0, <1>9 DEF svars, vars, localVars, Beside
<1> QED
  BY <1>1, <1>2, <1>3, <1>4, <1>5, <1>6, <1>7, <1>8, <1>9
     DEF ServiceNext, Die, Exit, Panic, Watch, Network

\* What a step beside the watchers does to rows and ticks.
LEMMA BesideRows ==
    ASSUME TypeInv, Beside
    PROVE  /\ rows' \in [Request -> Row \union {Null}] /\ inserts' \in [Request -> Nat]
           /\ tick' \in [Watcher -> Tick]
           /\ \A p \in Watcher : tick'[p] \in {tick[p], Idle}
           /\ \A r \in Request : \/ rows'[r] = rows[r]
                                 \/ rows'[r] = Null
                                 \/ \E w \in Wallet : rows'[r] = NewRow(w)
<1>0. /\ rows \in [Request -> Row \union {Null}] /\ inserts \in [Request -> Nat]
      /\ tick \in [Watcher -> Tick]
  BY DEF TypeInv, TypeOK, StoreTypeOK
<1>1. tick' \in [Watcher -> Tick] /\ \A p \in Watcher : tick'[p] \in {tick[p], Idle}
  BY <1>0, IdleShape DEF Beside
<1>2. CASE UNCHANGED storeVars
  BY <1>0, <1>1, <1>2 DEF storeVars
<1>3. ASSUME NEW r \in Request, NEW w \in Wallet, Upsert(r, w)
      PROVE  /\ rows' \in [Request -> Row \union {Null}] /\ inserts' \in [Request -> Nat]
             /\ \A s \in Request : rows'[s] = rows[s] \/ rows'[s] = NewRow(w)
  <2>1. NewRow(w) \in Row
    BY DEF NewRow, Row
  <2> QED
    BY <1>0, <1>3, <2>1 DEF Upsert, OnConflict
<1>4. ASSUME NEW r \in Request, Delete(r)
      PROVE  /\ rows' \in [Request -> Row \union {Null}] /\ inserts' \in [Request -> Nat]
             /\ \A s \in Request : rows'[s] = rows[s] \/ rows'[s] = Null
  BY <1>0, <1>4 DEF Delete
<1> QED
  BY <1>1, <1>2, <1>3, <1>4 DEF Beside, Inserts

LEMMA BesideType ==
    ASSUME TypeInv, Beside
    PROVE  TypeInv'
<1>0. /\ rows' \in [Request -> Row \union {Null}] /\ inserts' \in [Request -> Nat]
      /\ tick' \in [Watcher -> Tick]
      /\ \A p \in Watcher : tick'[p] \in {tick[p], Idle}
      /\ \A r \in Request : \/ rows'[r] = rows[r]
                            \/ rows'[r] = Null
                            \/ \E w \in Wallet : rows'[r] = NewRow(w)
  BY BesideRows
<1>1. \A r \in Request : rows'[r] # Null => RowShape(rows'[r])
  <2>1. \A r \in Request : rows[r] # Null => RowShape(rows[r])
    BY DEF TypeInv, Shapes
  <2>2. \A w : RowShape(NewRow(w))
    BY DEF NewRow, RowShape
  <2> QED
    BY <1>0, <2>1, <2>2, Zenon
<1>2. \A p \in Watcher : TickShape(tick'[p])
  BY <1>0, IdleShape DEF TypeInv, Shapes
<1>3. TypeOK'
  BY <1>0 DEF Beside, TypeInv, TypeOK, StoreTypeOK, StatusTypeOK, NodeTypeOK, statusVars, nodeVars
<1>4. Shapes'
  BY <1>1, <1>2 DEF Shapes, RowShape, TickShape
<1> QED
  BY <1>3, <1>4 DEF TypeInv

LEMMA BesideFinal ==
    ASSUME FinalInv, TypeInv', Beside
    PROVE  FinalInv'
<1>0. /\ \A p \in Watcher : tick'[p] \in {tick[p], Idle}
      /\ \A r \in Request : \/ rows'[r] = rows[r]
                            \/ rows'[r] = Null
                            \/ \E w \in Wallet : rows'[r] = NewRow(w)
  BY BesideRows DEF FinalInv
<1>1. UNCHANGED <<head, incl, tx, signedFor, published, lost>>
  BY DEF Beside, statusVars, nodeVars
<1>2. /\ Idle.step \notin ActiveStep \union {"recordSubmit"} /\ Idle.head <= head
      /\ Idle.step \notin {"confirmed", "deleteConfirmed"}
  BY FinalIdle
<1>3. \A r \in Request : rows'[r] # Null /\ rows'[r].hash # Null =>
            signedFor'[rows'[r].hash] = r
  <2>1. \A w \in Wallet : NewRow(w).hash = Null
    BY DEF NewRow
  <2> QED
    BY <1>0, <1>1, <2>1 DEF FinalInv, HashOwners
<1>4. \A p \in Watcher : tick'[p].step \in ActiveStep \union {"recordSubmit"} =>
            signedFor'[tick'[p].row.hash] = tick'[p].id
  BY <1>0, <1>1, <1>2 DEF FinalInv, HashOwners
<1>5. HashOwners'
  BY <1>1, <1>3, <1>4 DEF FinalInv, HashOwners
<1>6. ChainShape'
  BY <1>1 DEF FinalInv, ChainShape, OnChain
<1>7. \A h : Buried(h)' <=> Buried(h)
  BY <1>1 DEF Buried, OnChain
<1>8. \A p \in Watcher : /\ tick'[p].head <= head'
                         /\ tick'[p].step \in {"confirmed", "deleteConfirmed"} =>
                               Buried(tick'[p].row.hash)
  BY <1>0, <1>1, <1>2 DEF FinalInv, ConfirmedBuried
<1>9. ConfirmedBuried'
  BY <1>1, <1>7, <1>8 DEF FinalInv, ConfirmedBuried, Reported
<1> QED
  BY <1>5, <1>6, <1>9 DEF FinalInv

\* A step of a watcher inserts nothing, deletes only the row it has reported,
\* and reports a row before it is about to delete it.
Watches(p) ==
    /\ inserts' = inserts
    /\ \A r \in Request : rows[r] = Null => rows'[r] = Null
    /\ \A r \in Request : rows[r] # Null /\ rows'[r] = Null =>
            tick[p].step \in {"deleteFailed", "deleteConfirmed"} /\ tick[p].id = r
    /\ Reported \subseteq Reported'
    /\ \A q \in Watcher : q # p => tick'[q] = tick[q]
    /\ tick'[p].step = "deleteFailed" => Failed(tick'[p].id) \in Reported'
    /\ tick'[p].step = "deleteConfirmed" =>
            Confirmed(tick'[p].id, tick'[p].row.hash) \in Reported'

LEMMA WatcherStep ==
    ASSUME TypeInv, NEW p \in Watcher, Step(p) \/ Abort(p)
    PROVE  Watches(p)
<1> DEFINE t == tick[p]
           Last == {"deleteFailed", "deleteConfirmed"}
<1>0. /\ t \in Tick /\ TickShape(t) /\ tick \in [Watcher -> Tick]
      /\ rows \in [Request -> Row \union {Null}]
  BY DEF TypeInv, TypeOK, StoreTypeOK, Shapes
<1> HIDE DEF t
\* p reads.
<1>a. ASSUME NEW from, NEW u, Goto(p, from, u), u.step \notin Last,
             UNCHANGED <<rows, inserts, published, lost>>
      PROVE  Watches(p)
  <2>1. tick'[p] = u /\ \A q \in Watcher : q # p => tick'[q] = tick[q]
    BY <1>0, <1>a DEF Goto
  <2> QED
    BY <1>a, <2>1 DEF Watches, Reported
\* p writes a row.
<1>b. ASSUME NEW from, NEW u, Goto(p, from, u), u.step \notin Last,
             NEW r \in Request, NEW new, Update(r, new), rows[r] # Null => new \in Row,
             UNCHANGED <<published, lost>>
      PROVE  Watches(p)
  <2>1. tick'[p] = u /\ \A q \in Watcher : q # p => tick'[q] = tick[q]
    BY <1>0, <1>b DEF Goto
  <2>2. inserts' = inserts /\ \A s \in Request : rows[s] = Null <=> rows'[s] = Null
    BY <1>0, <1>b DEF Update
  <2> QED
    BY <1>b, <2>1, <2>2 DEF Watches, Reported
\* p reports m.
<1>c. ASSUME NEW from, NEW u, Goto(p, from, u), NEW m, Report(m), UNCHANGED <<rows, inserts>>,
             u.step = "deleteFailed" => m = Failed(u.id),
             u.step = "deleteConfirmed" => m = Confirmed(u.id, u.row.hash)
      PROVE  Watches(p)
  <2>1. tick'[p] = u /\ \A q \in Watcher : q # p => tick'[q] = tick[q]
    BY <1>0, <1>c DEF Goto
  <2>2. Reported' = Reported \union {m}
    BY <1>c DEF Report, Deliver, Lose, Reported
  <2> QED
    BY <1>c, <2>1, <2>2 DEF Watches
\* p deletes its row.
<1>d. ASSUME NEW from \in Last, NEW u, Goto(p, from, u), u.step \notin Last, Delete(t.id),
             UNCHANGED <<published, lost>>
      PROVE  Watches(p)
  <2>1. t.step = from /\ tick'[p] = u /\ \A q \in Watcher : q # p => tick'[q] = tick[q]
    BY <1>0, <1>d DEF Goto, t
  <2>2. /\ inserts' = inserts
        /\ \A s \in Request : s # t.id => rows'[s] = rows[s]
        /\ \A s \in Request : s = t.id => rows'[s] = Null
    BY <1>0, <1>d DEF Delete
  <2> QED
    BY <1>d, <2>1, <2>2 DEF Watches, Reported, t
<1>e. Idle.step \notin Last /\ At("pick").step \notin Last
  BY DEF Idle, At
<1>1. CASE ReadActive(p)
  <2>0. UNCHANGED <<rows, inserts, published, lost>>
    BY <1>1 DEF ReadActive, storeVars, statusVars
  <2>1. ASSUME NEW r, Goto(p, "idle", [At("head") EXCEPT !.id = r, !.row = rows[r]])
        PROVE  Watches(p)
    <3> DEFINE u == [At("head") EXCEPT !.id = r, !.row = rows[r]]
    <3>1. Goto(p, "idle", u) /\ u.step = "head"
      BY <2>1 DEF At
    <3> HIDE DEF u
    <3> QED
      BY <2>0, <3>1, <1>a
  <2>2. ASSUME Goto(p, "idle", At("pick")) PROVE Watches(p)
    BY <2>0, <2>2, <1>a, <1>e
  <2> QED
    BY <1>1, <2>1, <2>2 DEF ReadActive
<1>2. CASE ReadHead(p)
  <2> DEFINE u == [t EXCEPT !.step = "receipt", !.head = head]
  <2>1. Goto(p, "head", u) /\ u.step = "receipt"
    BY <1>0, <1>2 DEF ReadHead, Tick, t
  <2> HIDE DEF u
  <2> QED
    BY <1>2, <2>1, <1>a DEF ReadHead, storeVars, statusVars
<1>3. CASE ReadReceipt(p)
  <2> DEFINE rec == incl[t.row.hash]
             u == IF rec # Null THEN AfterFound(t, rec)
                  ELSE IF t.row.mined # Null THEN [t EXCEPT !.step = "clearMined"]
                  ELSE AfterMissing(t)
  <2>1. Goto(p, "receipt", u)
    BY <1>3 DEF ReadReceipt, t
  <2>2. u.step \notin Last
    BY <1>0 DEF AfterFound, AfterMissing, Idle, At, Tick
  <2> HIDE DEF u
  <2> QED
    BY <1>3, <2>1, <2>2, <1>a DEF ReadReceipt, storeVars, statusVars
<1>4. CASE ClearMined(p)
  <2> DEFINE u == AfterMissing([t EXCEPT !.row.mined = Null])
             new == [rows[t.id] EXCEPT !.mined = Null]
  <2>1. Goto(p, "clearMined", u) /\ Update(t.id, new) /\ t.step = "clearMined"
    BY <1>4 DEF ClearMined, Goto, t
  <2>2. t.id \in Request /\ (rows[t.id] # Null => new \in Row)
    BY <1>0, <2>1 DEF TickShape, ActiveStep, Row
  <2>3. u.step \notin Last
    BY <1>0 DEF AfterMissing, Idle, At, Tick
  <2> HIDE DEF u, new
  <2> QED
    BY <1>4, <2>1, <2>2, <2>3, <1>b DEF ClearMined, statusVars
<1>5. CASE PrepareBoost(p)
  <2>1. PICK s \in {"recordBoost", "failed"} : Goto(p, "prepareBoost", [t EXCEPT !.step = s])
    BY <1>5 DEF PrepareBoost, t
  <2> DEFINE u == [t EXCEPT !.step = s]
  <2>2. Goto(p, "prepareBoost", u) /\ u.step \notin Last
    BY <1>0, <2>1 DEF Tick
  <2> HIDE DEF u
  <2> QED
    BY <1>5, <2>2, <1>a DEF PrepareBoost, storeVars, statusVars
<1>6. CASE RecordBoost(p)
  <2>1. PICK h \in Hash :
          /\ Goto(p, "recordBoost", [t EXCEPT !.step = "sendBoost", !.row.hash = h,
                                               !.row.boosted = t.head])
          /\ Update(t.id, [rows[t.id] EXCEPT !.hash = h, !.nonce = t.row.nonce,
                                             !.boosted = t.head])
    BY <1>6 DEF RecordBoost, t
  <2> DEFINE u == [t EXCEPT !.step = "sendBoost", !.row.hash = h, !.row.boosted = t.head]
             new == [rows[t.id] EXCEPT !.hash = h, !.nonce = t.row.nonce, !.boosted = t.head]
  <2>2. /\ Goto(p, "recordBoost", u) /\ u.step = "sendBoost" /\ Update(t.id, new)
        /\ t.step = "recordBoost"
    BY <1>0, <2>1 DEF Goto, Tick, t
  <2>3. t.id \in Request /\ t.row \in Row /\ t.head \in Nat
    BY <1>0, <2>2 DEF TickShape, ActiveStep, Tick
  <2>4. rows[t.id] # Null => new \in Row
    BY <1>0, <2>3 DEF Row
  <2> HIDE DEF u, new
  <2> QED
    BY <1>6, <2>2, <2>3, <2>4, <1>b DEF RecordBoost, statusVars
<1>7. CASE SendBoost(p)
  BY <1>7, <1>a, <1>e DEF SendBoost, storeVars, statusVars
<1>8. CASE PublishMined(p)
  <2> DEFINE u == [t EXCEPT !.step = "recordMined"]
  <2>1. Goto(p, "mined", u) /\ u.step = "recordMined" /\ Report(Mined(t.id, t.row.hash))
    BY <1>0, <1>8 DEF PublishMined, Tick, t
  <2> HIDE DEF u
  <2> QED
    BY <1>8, <2>1, <1>c DEF PublishMined, storeVars
<1>9. CASE RecordMined(p) \/ RecordMoved(p)
  <2> DEFINE new == [rows[t.id] EXCEPT !.mined = t.rec]
  <2>1. PICK from \in {"recordMined", "recordMoved"} : Goto(p, from, Idle)
    BY <1>9 DEF RecordMined, RecordMoved
  <2>2. /\ t.id \in Request /\ Update(t.id, new) /\ UNCHANGED <<published, lost>>
    BY <1>0, <1>9, <2>1 DEF RecordMined, RecordMoved, Goto, TickShape, ActiveStep, statusVars, t
  <2>3. rows[t.id] # Null => new \in Row
    BY <1>0, <2>2 DEF Row, Tick
  <2> HIDE DEF new
  <2> QED
    BY <2>1, <2>2, <2>3, <1>b, <1>e
<1>10. CASE PublishConfirmed(p)
  <2> DEFINE u == [t EXCEPT !.step = "deleteConfirmed"]
  <2>1. /\ Goto(p, "confirmed", u) /\ Report(Confirmed(t.id, t.row.hash))
        /\ u.step = "deleteConfirmed" /\ u.id = t.id /\ u.row = t.row
    BY <1>0, <1>10 DEF PublishConfirmed, Tick, t
  <2> HIDE DEF u
  <2> QED
    BY <1>10, <2>1, <1>c DEF PublishConfirmed, storeVars
<1>11. CASE DeleteConfirmed(p)
  <2>1. Goto(p, "deleteConfirmed", At("pick")) /\ Delete(t.id) /\ UNCHANGED <<published, lost>>
    BY <1>11 DEF DeleteConfirmed, statusVars, t
  <2> QED
    BY <2>1, <1>d, <1>e
<1>12. CASE PickNext(p)
  <2>0. UNCHANGED <<rows, inserts, published, lost>>
    BY <1>12 DEF PickNext, storeVars, statusVars
  <2>1. ASSUME NEW r, Goto(p, "pick", [At("submitHead") EXCEPT !.id = r, !.row = rows[r]])
        PROVE  Watches(p)
    <3> DEFINE u == [At("submitHead") EXCEPT !.id = r, !.row = rows[r]]
    <3>1. Goto(p, "pick", u) /\ u.step = "submitHead"
      BY <2>1 DEF At
    <3> HIDE DEF u
    <3> QED
      BY <2>0, <3>1, <1>a
  <2>2. ASSUME Goto(p, "pick", Idle) PROVE Watches(p)
    BY <2>0, <2>2, <1>a, <1>e
  <2> QED
    BY <1>12, <2>1, <2>2 DEF PickNext
<1>13. CASE ReadSubmitHead(p)
  <2> DEFINE u == [t EXCEPT !.step = "prepareSubmit", !.head = head]
  <2>1. Goto(p, "submitHead", u) /\ u.step = "prepareSubmit"
    BY <1>0, <1>13 DEF ReadSubmitHead, Tick, t
  <2> HIDE DEF u
  <2> QED
    BY <1>13, <2>1, <1>a DEF ReadSubmitHead, storeVars, statusVars
<1>14. CASE PrepareSubmit(p)
  <2>0. UNCHANGED <<rows, inserts, published, lost>>
    BY <1>14 DEF PrepareSubmit, storeVars, statusVars
  <2>1. ASSUME NEW n \in Nonce,
               Goto(p, "prepareSubmit", [t EXCEPT !.step = "sendSubmit", !.row.nonce = n])
        PROVE  Watches(p)
    <3> DEFINE u == [t EXCEPT !.step = "sendSubmit", !.row.nonce = n]
    <3>1. Goto(p, "prepareSubmit", u) /\ u.step = "sendSubmit"
      BY <1>0, <2>1 DEF Tick
    <3> HIDE DEF u
    <3> QED
      BY <2>0, <3>1, <1>a
  <2>2. ASSUME Goto(p, "prepareSubmit", [t EXCEPT !.step = "failed"]) PROVE Watches(p)
    <3> DEFINE u == [t EXCEPT !.step = "failed"]
    <3>1. Goto(p, "prepareSubmit", u) /\ u.step = "failed"
      BY <1>0, <2>2 DEF Tick
    <3> HIDE DEF u
    <3> QED
      BY <2>0, <3>1, <1>a
  <2> QED
    BY <1>14, <2>1, <2>2 DEF PrepareSubmit, t
<1>15. CASE SendSubmit(p)
  <2>0. UNCHANGED <<rows, inserts, published, lost>>
    BY <1>15 DEF SendSubmit, storeVars, statusVars
  <2>1. ASSUME NEW h \in Hash,
               Goto(p, "sendSubmit", [t EXCEPT !.step = "recordSubmit", !.row.hash = h])
        PROVE  Watches(p)
    <3> DEFINE u == [t EXCEPT !.step = "recordSubmit", !.row.hash = h]
    <3>1. Goto(p, "sendSubmit", u) /\ u.step = "recordSubmit"
      BY <1>0, <2>1 DEF Tick
    <3> HIDE DEF u
    <3> QED
      BY <2>0, <3>1, <1>a
  <2>2. ASSUME Goto(p, "sendSubmit", Idle) PROVE Watches(p)
    BY <2>0, <2>2, <1>a, <1>e
  <2> QED
    BY <1>15, <2>1, <2>2 DEF SendSubmit, t
<1>16. CASE RecordSubmit(p)
  <2> DEFINE u == [t EXCEPT !.step = "submitted"]
             new == [rows[t.id] EXCEPT !.submitted = t.head, !.nonce = t.row.nonce,
                                       !.hash = t.row.hash]
  <2>1. /\ Goto(p, "recordSubmit", u) /\ u.step = "submitted" /\ Update(t.id, new)
        /\ t.step = "recordSubmit"
    BY <1>0, <1>16 DEF RecordSubmit, Goto, Tick, t
  <2>2. t.id \in Request /\ t.row \in Row /\ t.head \in Nat
    BY <1>0, <2>1 DEF TickShape, HoldStep, SubmitStep, Tick
  <2>3. rows[t.id] # Null => new \in Row
    BY <1>0, <2>2 DEF Row
  <2> HIDE DEF u, new
  <2> QED
    BY <1>16, <2>1, <2>2, <2>3, <1>b DEF RecordSubmit, statusVars
<1>17. CASE PublishSubmitted(p)
  BY <1>17, <1>c, <1>e DEF PublishSubmitted, storeVars
<1>18. CASE PublishFailed(p)
  <2> DEFINE u == [t EXCEPT !.step = "deleteFailed"]
  <2>1. /\ Goto(p, "failed", u) /\ Report(Failed(t.id)) /\ u.step = "deleteFailed" /\ u.id = t.id
    BY <1>0, <1>18 DEF PublishFailed, Tick, t
  <2> HIDE DEF u
  <2> QED
    BY <1>18, <2>1, <1>c DEF PublishFailed, storeVars
<1>19. CASE DeleteFailed(p)
  <2>1. Goto(p, "deleteFailed", Idle) /\ Delete(t.id) /\ UNCHANGED <<published, lost>>
    BY <1>19 DEF DeleteFailed, statusVars, t
  <2> QED
    BY <2>1, <1>d, <1>e
<1>20. CASE SignFails(p) \/ Abort(p)
  <2>1. Goto(p, t.step, Idle) /\ UNCHANGED <<rows, inserts, published, lost>>
    BY <1>20 DEF SignFails, Abort, Goto, storeVars, statusVars, t
  <2> QED
    BY <2>1, <1>a, <1>e
<1> QED
  BY <1>1, <1>2, <1>3, <1>4, <1>5, <1>6, <1>7, <1>8, <1>9, <1>10, <1>11, <1>12,
     <1>13, <1>14, <1>15, <1>16, <1>17, <1>18, <1>19, <1>20 DEF Step

-----------------------------------------------------------------------------
(* The order of the rows and the clean-ups.                                *)

\* A step that deletes rows or leaves the table alone.
Shrinks ==
    /\ inserts' = inserts
    /\ \A r \in Request : rows[r] = Null => rows'[r] = Null

\* What a step does to the table and to the order of its rows.
Orders == UNCHANGED <<rows, inserts, older>> \/ (Stamp /\ (Shrinks \/ Inserts))

LEMMA ServiceOrders ==
    ASSUME TypeInv, C!IntakeInv, cleaning \in [Caller -> Request \union {Null}],
           [ServiceNext]_svars
    PROVE  Orders
<1>0. rows \in [Request -> Row \union {Null}]
  BY DEF TypeInv, TypeOK, StoreTypeOK
<1>1. ASSUME Gone PROVE Orders
  BY <1>1 DEF Gone, Orders, storeVars
<1>2. ASSUME NEW W \in Configs, Start(W) PROVE Orders
  BY <1>2 DEF Start, Orders, vars, storeVars
<1>3. CASE Sigterm
  BY <1>3 DEF Sigterm, Orders, vars, storeVars
<1>4. ASSUME NEW p \in Watcher, Cancelled(p) PROVE Orders
  BY <1>4 DEF Cancelled, Orders, storeVars
<1>5. ASSUME NEW p \in Watcher, Watch(p) PROVE Orders
  <2>1. Watches(p) /\ Stamp
    BY <1>5, WatcherStep DEF Watch
  <2> QED
    BY <2>1 DEF Watches, Orders, Shrinks
<1>6. CASE Consume
  <2>1. ConsumerStep /\ Stamp
    BY <1>6 DEF Consume, ConsumerStep
  <2>2. UNCHANGED storeVars \/ Inserts
    BY <2>1, ConsumerTable
  <2> QED
    BY <2>1, <2>2 DEF Orders, Shrinks, storeVars
<1>7. ASSUME NEW c \in Caller, CleanRead(c) \/ CleanFails(c) PROVE Orders
  BY <1>7 DEF CleanRead, CleanFails, Orders, vars, storeVars
<1>8. ASSUME NEW c \in Caller, CleanDelete(c) PROVE Orders
  <2>1. Stamp /\ Delete(cleaning[c]) /\ cleaning[c] \in Request
    BY <1>8 DEF CleanDelete
  <2> QED
    BY <1>0, <2>1 DEF Delete, Orders, Shrinks
<1>9. CASE Network \/ UNCHANGED svars
  BY <1>9 DEF Network, ChainStep, svars, vars, Orders, storeVars
<1> QED
  BY <1>1, <1>2, <1>3, <1>4, <1>5, <1>6, <1>7, <1>8, <1>9
     DEF ServiceNext, Die, Exit, Panic

\* An insertion adds at most one row, and counts it.
LEMMA OneInserted ==
    ASSUME TypeInv, Inserts
    PROVE  \E n \in Request :
             /\ \A r \in Request : r # n => rows'[r] = rows[r] /\ inserts'[r] = inserts[r]
             /\ rows[n] # Null => rows'[n] = rows[n] /\ inserts'[n] = inserts[n]
             /\ rows[n] = Null => inserts'[n] = inserts[n] + 1
<1>1. rows \in [Request -> Row \union {Null}] /\ inserts \in [Request -> Nat]
  BY DEF TypeInv, TypeOK, StoreTypeOK
<1>2. PICK n \in Request, w \in Wallet : Upsert(n, w)
  BY DEF Inserts
<1> QED
  BY <1>1, <1>2 DEF Upsert, OnConflict

\* The rows stay strictly ordered, and the oldest row stays the oldest as long
\* as it is there.
LEMMA OrderKept ==
    ASSUME TypeInv, Chronology, Orders
    PROVE  /\ Chronology'
           /\ \A r \in Request : r \in Oldest /\ rows'[r] # Null => r \in Oldest'
<1>1. CASE UNCHANGED <<rows, inserts, older>>
  BY <1>1 DEF Chronology, Oldest, InTable
<1>2. ASSUME Stamp, NEW new, new = {r \in Request : rows[r] = Null /\ rows'[r] # Null},
             \A r, s \in new : r = s
      PROVE  /\ Chronology'
             /\ \A r \in Request : r \in Oldest /\ rows'[r] # Null => r \in Oldest'
  <2> DEFINE stays == {r \in Request : rows[r] # Null /\ rows'[r] # Null}
  <2>1. older' = (older \intersect (stays \X stays)) \union (stays \X new)
    BY <1>2 DEF Stamp
  <2>2. /\ InTable' = stays \union new /\ stays \subseteq InTable /\ stays \intersect new = {}
    BY <1>2 DEF InTable
  <2> HIDE DEF stays
  <2>3. \A r, s \in stays : <<r, s>> \in older' <=> <<r, s>> \in older
    BY <2>1, <2>2
  <2>4. \A r, s \in stays \union new : r \in new => <<r, s>> \notin older'
    BY <2>1, <2>2
  <2>5. \A r \in stays, s \in new : <<r, s>> \in older'
    BY <2>1
  <2>6. older' \subseteq InTable' \X InTable'
    BY <2>1, <2>2
  <2>7. ASSUME NEW r \in InTable', NEW s \in InTable'
        PROVE  <<r, s>> \in older' <=> r # s /\ <<s, r>> \notin older'
    <3>1. CASE r \in stays /\ s \in stays
      BY <2>2, <2>3, <3>1 DEF Chronology
    <3>2. CASE r \in new /\ s \in stays
      BY <2>2, <2>4, <2>5, <3>2
    <3>3. CASE r \in stays /\ s \in new
      BY <2>2, <2>4, <2>5, <3>3
    <3>4. CASE r \in new /\ s \in new
      BY <1>2, <2>4, <3>4
    <3> QED
      BY <2>2, <3>1, <3>2, <3>3, <3>4
  <2>8. ASSUME NEW r \in InTable', NEW s \in InTable', NEW t \in InTable',
               <<r, s>> \in older', <<s, t>> \in older'
        PROVE  <<r, t>> \in older'
    <3>1. r \in stays /\ s \in stays
      BY <2>2, <2>4, <2>8
    <3>2. CASE t \in new
      BY <2>5, <3>1, <3>2
    <3>3. CASE t \in stays
      BY <2>2, <2>3, <2>8, <3>1, <3>3 DEF Chronology
    <3> QED
      BY <2>2, <3>2, <3>3
  <2>9. Chronology'
    BY <2>6, <2>7, <2>8 DEF Chronology
  <2>10. ASSUME NEW r \in Request, r \in Oldest, rows'[r] # Null PROVE r \in Oldest'
    <3>1. r \in stays
      BY <2>10 DEF Oldest, InTable, stays
    <3>2. \A s \in InTable' : <<s, r>> \notin older'
      BY <2>2, <2>3, <2>4, <2>10, <3>1 DEF Oldest
    <3> QED
      BY <2>2, <3>1, <3>2 DEF Oldest
  <2> QED
    BY <2>9, <2>10
<1> DEFINE fresh == {r \in Request : rows[r] = Null /\ rows'[r] # Null}
<1>3. CASE Stamp /\ Shrinks
  <2>1. fresh = {}
    BY <1>3 DEF Shrinks
  <2> QED
    BY <1>2, <1>3, <2>1
<1>4. CASE Stamp /\ Inserts
  <2>1. \A r, s \in fresh : r = s
    BY <1>4, OneInserted
  <2> QED
    BY <1>2, <1>4, <2>1
<1> QED
  BY <1>1, <1>3, <1>4 DEF Orders

\* A clean-up keeps its choice, gives it up, or takes the oldest row.
LEMMA ServiceCleans ==
    ASSUME cleaning \in [Caller -> Request \union {Null}], [ServiceNext]_svars
    PROVE  /\ cleaning' \in [Caller -> Request \union {Null}]
           /\ \A c \in Caller : \/ cleaning'[c] \in {cleaning[c], Null}
                                \/ cleaning'[c] \in Oldest /\ UNCHANGED <<rows, inserts, older>>
<1>1. ASSUME Gone
      PROVE  /\ cleaning' \in [Caller -> Request \union {Null}]
             /\ \A c \in Caller : cleaning'[c] = Null
  BY <1>1 DEF Gone
<1>2. ASSUME NEW c \in Caller, CleanRead(c)
      PROVE  /\ cleaning' \in [Caller -> Request \union {Null}]
             /\ \A d \in Caller : \/ cleaning'[d] = cleaning[d]
                                  \/ cleaning'[d] \in Oldest /\ UNCHANGED <<rows, inserts, older>>
  BY <1>2 DEF CleanRead, Oldest, InTable, vars, storeVars
<1>3. ASSUME NEW c \in Caller, CleanDelete(c) \/ CleanFails(c)
      PROVE  /\ cleaning' \in [Caller -> Request \union {Null}]
             /\ \A d \in Caller : cleaning'[d] \in {cleaning[d], Null}
  BY <1>3 DEF CleanDelete, CleanFails
<1>4. CASE UNCHANGED cleaning
  BY <1>4
<1>5. CASE \/ \E W \in Configs : Start(W)
           \/ Sigterm \/ Consume \/ Network
           \/ \E p \in Watcher : Watch(p) \/ Cancelled(p)
           \/ UNCHANGED svars
  BY <1>4, <1>5 DEF Start, Sigterm, Consume, Network, Watch, Cancelled, svars, cleanVars
<1> QED
  BY <1>1, <1>2, <1>3, <1>5 DEF ServiceNext, Die, Exit, Panic

\* A clean-up deletes only its choice.
LEMMA ChoiceKept ==
    ASSUME TypeInv, Chronology, Orders, CleansChosen,
           cleaning \in [Caller -> Request \union {Null}], [ServiceNext]_svars
    PROVE  CleansChosen'
<1>0. /\ cleaning' \in [Caller -> Request \union {Null}]
      /\ \A c \in Caller : \/ cleaning'[c] \in {cleaning[c], Null}
                           \/ cleaning'[c] \in Oldest /\ UNCHANGED <<rows, inserts, older>>
  BY ServiceCleans
<1>1. inserts \in [Request -> Nat]
  BY DEF TypeInv, TypeOK, StoreTypeOK
\* A request is counted when it is inserted.
<1>2. \A r \in Request : /\ inserts[r] # 0 => inserts'[r] # 0
                         /\ rows'[r] # Null => inserts'[r] # 0
                         /\ inserts[r] # 0 /\ inserts'[r] = 1 /\ rows'[r] # Null =>
                                inserts[r] = 1 /\ rows[r] # Null
  <2>1. CASE UNCHANGED <<rows, inserts, older>>
    BY <2>1 DEF CleansChosen
  <2>2. CASE Shrinks
    BY <2>2 DEF Shrinks, CleansChosen
  <2>3. CASE Inserts
    BY <1>1, <2>3, OneInserted DEF CleansChosen
  <2> QED
    BY <2>1, <2>2, <2>3 DEF Orders
<1>3. ASSUME NEW c \in Caller, cleaning'[c] # Null
      PROVE  /\ inserts'[cleaning'[c]] # 0
             /\ rows'[cleaning'[c]] # Null /\ inserts'[cleaning'[c]] = 1 => cleaning'[c] \in Oldest'
  <2>1. PICK r \in Request : r = cleaning'[c]
    BY <1>0, <1>3
  <2>2. CASE r = cleaning[c]
    BY <1>2, <1>3, <2>1, <2>2, OrderKept DEF CleansChosen
  <2>3. CASE r \in Oldest /\ UNCHANGED <<rows, inserts, older>>
    BY <2>1, <2>3 DEF CleansChosen, Oldest, InTable
  <2> QED
    BY <1>0, <1>3, <2>1, <2>2, <2>3
<1> QED
  BY <1>2, <1>3 DEF CleansChosen

-----------------------------------------------------------------------------
(* The invariant of the process.                                           *)

\* The table, the ticks and the chain stay well formed.
LEMMA ServiceType ==
    ASSUME TypeInv, C!IntakeInv, cleaning \in [Caller -> Request \union {Null}],
           [ServiceNext]_svars
    PROVE  TypeInv'
<1>1. ASSUME (\E p \in Watcher : Step(p) \/ Abort(p)) \/ ChainStep PROVE TypeInv'
  <2>1. Next
    BY <1>1 DEF Next
  <2> QED
    BY <2>1, TypeNext
<1> QED
  BY <1>1, ServiceMoves, BesideType

\* The intake stays covered, also over the end of the process.
LEMMA ServiceIntake ==
    ASSUME TypeInv', C!IntakeInv, [ServiceNext]_svars
    PROVE  C!IntakeInv'
<1>0. StoreTypeOK' /\ faults' \in Nat
  BY DEF TypeInv, TypeOK
<1>1. CASE Consume
  BY <1>1, ConsumerKeeps DEF Consume, ConsumerStep
<1>2. ASSUME Gone PROVE C!IntakeInv'
  BY <1>2, IntakeDown DEF Gone
<1>3. CASE Sigterm
  <2> DEFINE cl == [claim[Proc] EXCEPT !.live = FALSE]
  <2>1. /\ claim \in [{Proc} -> C!Claim] /\ ClaimOK(claim[Proc], stored)
        /\ committed \in C!Position /\ CoveredBy(committed, stored)
        /\ owner \in {Proc, Null} /\ stored \subseteq 1 .. Len(Log) /\ AllStorable(stored)
    BY IntakeParts
  <2>2. ClaimOK(cl, stored) /\ claim' = [claim EXCEPT ![Proc] = cl]
    BY <1>3, <2>1 DEF Sigterm, ClaimOK, C!Claim
  <2> HIDE DEF cl
  <2>3. UNCHANGED <<committed, owner, stored>>
    BY <1>3 DEF Sigterm
  <2> QED
    BY <1>0, <2>1, <2>2, <2>3, IntakeFrom
<1>4. CASE \/ \E W \in Configs : Start(W)
           \/ \E p \in Watcher : Watch(p) \/ Cancelled(p)
           \/ \E c \in Caller : CleanRead(c) \/ CleanDelete(c) \/ CleanFails(c)
           \/ Network \/ UNCHANGED svars
  <2>1. UNCHANGED consumerVars
    BY <1>4 DEF Start, Watch, Cancelled, CleanRead, CleanDelete, CleanFails, Network, svars
  <2> QED
    BY <1>0, <2>1, IntakeKeep
<1> QED
  BY <1>1, <1>2, <1>3, <1>4 DEF ServiceNext, Die, Exit, Panic

\* A tick is about to delete only what it has reported.
LEMMA ServiceTells ==
    ASSUME TypeInv, C!IntakeInv, DeletesTold,
           cleaning \in [Caller -> Request \union {Null}], [ServiceNext]_svars
    PROVE  DeletesTold'
<1>1. ASSUME NEW p \in Watcher, Step(p) \/ Abort(p) PROVE DeletesTold'
  <2>1. Watches(p)
    BY <1>1, WatcherStep
  <2>2. ASSUME NEW q \in Watcher
        PROVE  /\ tick'[q].step = "deleteFailed" => Failed(tick'[q].id) \in Reported'
               /\ tick'[q].step = "deleteConfirmed" =>
                       Confirmed(tick'[q].id, tick'[q].row.hash) \in Reported'
    <3>1. CASE q = p
      BY <2>1, <3>1 DEF Watches
    <3>2. CASE q # p
      BY <2>1, <3>2 DEF Watches, DeletesTold
    <3> QED
      BY <3>1, <3>2
  <2> QED
    BY <2>2 DEF DeletesTold, Failed, Confirmed
<1>2. CASE ChainStep
  BY <1>2 DEF ChainStep, DeletesTold, statusVars, localVars, Reported
<1>3. CASE Beside
  <2>1. \A p \in Watcher : tick'[p] \in {tick[p], Idle}
    BY <1>3, BesideRows
  <2>2. Reported' = Reported
    BY <1>3 DEF Beside, statusVars, Reported
  <2>3. Idle.step \notin {"deleteFailed", "deleteConfirmed"}
    BY DEF Idle, At
  <2> QED
    BY <2>1, <2>2, <2>3 DEF DeletesTold
<1> QED
  BY <1>1, <1>2, <1>3, ServiceMoves

\* The process's own variables stay in their ranges.
LEMMA ServiceProcess ==
    ASSUME ServiceTypeOK, [ServiceNext]_svars
    PROVE  /\ phase' \in {"up", "stopping", "down"} /\ config' \in Configs \union {{}}
           /\ starts' \in 0 .. MaxStarts /\ inFlight' \subseteq Watcher
           /\ cleans' \in 0 .. MaxCleans
<1> DEFINE Goal == /\ phase' \in {"up", "stopping", "down"} /\ config' \in Configs \union {{}}
                   /\ starts' \in 0 .. MaxStarts /\ inFlight' \subseteq Watcher
                   /\ cleans' \in 0 .. MaxCleans
<1>0. /\ phase \in {"up", "stopping", "down"} /\ config \in Configs \union {{}}
      /\ starts \in 0 .. MaxStarts /\ inFlight \subseteq Watcher /\ cleans \in 0 .. MaxCleans
  BY DEF ServiceTypeOK
<1>1. ASSUME NEW W \in Configs, Start(W) PROVE Goal
  BY <1>0, <1>1 DEF Start, cleanVars
<1>2. ASSUME Gone PROVE Goal
  BY <1>0, <1>2 DEF Gone
<1>3. CASE Sigterm
  BY <1>0, <1>3 DEF Sigterm, cleanVars
<1>4. ASSUME NEW p \in Watcher, Watch(p) \/ Cancelled(p) PROVE Goal
  BY <1>0, <1>4 DEF Watch, Cancelled, cleanVars
<1>5. ASSUME NEW c \in Caller, CleanRead(c) PROVE Goal
  BY <1>0, <1>5 DEF CleanRead, processVars
<1>6. CASE \/ \E c \in Caller : CleanDelete(c) \/ CleanFails(c)
           \/ Consume \/ Network \/ UNCHANGED svars
  <2>1. UNCHANGED <<processVars, cleans>>
    BY <1>6 DEF CleanDelete, CleanFails, Consume, Network, svars, cleanVars
  <2> QED
    BY <1>0, <2>1 DEF processVars
<1> QED
  BY <1>1, <1>2, <1>3, <1>4, <1>5, <1>6 DEF ServiceNext, Die, Exit, Panic

\* Every step of the process preserves its invariant.
LEMMA ServiceInvNext ==
    ASSUME ServiceInv, [ServiceNext]_svars
    PROVE  ServiceInv'
<1>0. /\ TypeInv /\ ServiceTypeOK /\ C!IntakeInv /\ DeletesTold /\ CleansChosen /\ Chronology
      /\ cleaning \in [Caller -> Request \union {Null}]
  BY DEF ServiceInv, ServiceTypeOK
<1>1. TypeInv'
  BY <1>0, ServiceType
<1>2. C!IntakeInv'
  BY <1>0, <1>1, ServiceIntake
<1>3. DeletesTold'
  BY <1>0, ServiceTells
<1>4. Orders
  BY <1>0, ServiceOrders
<1>5. Chronology'
  BY <1>0, <1>4, OrderKept
<1>6. CleansChosen'
  BY <1>0, <1>4, ChoiceKept
<1>7. ServiceTypeOK'
  <2>1. TypeOK' /\ C!TypeOK'
    BY <1>1, <1>2 DEF TypeInv, C!IntakeInv
  <2>2. cleaning' \in [Caller -> Request \union {Null}]
    BY <1>0, ServiceCleans
  <2>3. /\ phase' \in {"up", "stopping", "down"} /\ config' \in Configs \union {{}}
        /\ starts' \in 0 .. MaxStarts /\ inFlight' \subseteq Watcher
        /\ cleans' \in 0 .. MaxCleans
    BY <1>0, ServiceProcess
  <2> QED
    BY <1>5, <2>1, <2>2, <2>3 DEF ServiceTypeOK
<1> QED
  BY <1>1, <1>2, <1>3, <1>6, <1>7 DEF ServiceInv

LEMMA ServiceInvInit == ServiceInit => ServiceInv
<1> SUFFICES ASSUME ServiceInit PROVE ServiceInv
  OBVIOUS
<1>1. TypeInv
  BY TypeInit DEF ServiceInit
<1>2. C!IntakeInv
  <2>1. ClaimOK(C!Down, stored)
    BY LogFacts DEF ClaimOK, C!Down, C!Claim, C!Position, CoveredBy
  <2>2. claim = [c \in {Proc} |-> C!Down] /\ claim[Proc] = C!Down /\ C!Down \in C!Claim
    BY <2>1 DEF ServiceInit, C!Init, ClaimOK
  <2>3. /\ committed \in C!Position /\ owner \in {Proc, Null} /\ stored \subseteq 1 .. Len(Log)
        /\ CoveredBy(committed, stored) /\ AllStorable(stored) /\ faults \in Nat
    BY LogFacts DEF ServiceInit, C!Init, C!Position, CoveredBy, AllStorable
  <2>4. StoreTypeOK
    BY <1>1 DEF TypeInv, TypeOK
  <2> QED
    BY <2>1, <2>2, <2>3, <2>4, IntakeParts
<1>3. InTable = {} /\ Chronology
  BY DEF ServiceInit, Init, StoreInit, InTable, Chronology
<1>4. DeletesTold
  BY DEF ServiceInit, Init, DeletesTold, Idle, At
<1>5. CleansChosen
  BY DEF ServiceInit, Init, StoreInit, CleansChosen
<1>6. ServiceTypeOK
  <2>1. TypeOK /\ C!TypeOK
    BY <1>1, <1>2 DEF TypeInv, C!IntakeInv
  <2> QED
    BY <1>3, <2>1 DEF ServiceInit, ServiceTypeOK
<1> QED
  BY <1>1, <1>2, <1>4, <1>5, <1>6 DEF ServiceInv

\* The invariant of the process: over any interleaving of watchers, consumer,
\* clean-ups, shutdowns, crashes and restarts, the rows are strictly ordered
\* by created_at, a tick deletes only what it has reported, and a clean-up
\* holds the oldest row unless it was inserted again.
THEOREM ServiceInvariant == ServiceSpec => []ServiceInv
<1>1. ServiceInv /\ [ServiceNext]_svars => ServiceInv'
  BY ServiceInvNext
<1> QED
  BY <1>1, ServiceInvInit, PTL DEF ServiceSpec

\* Type correctness of the process as a whole.
THEOREM ServiceTypeCorrect == ServiceSpec => []ServiceTypeOK
<1>1. ServiceInv => ServiceTypeOK
  BY DEF ServiceInv
<1> QED
  BY <1>1, ServiceInvariant, PTL

\* At-least-once intake over the life of the process (consumer.go:80-85,
\* main.go:175-181): the next process never starts past a valid request that
\* did not reach the table.
THEOREM IntakeSurvives == ServiceSpec => []IntakeSafe
<1>1. ServiceInv => IntakeSafe
  BY DEF ServiceInv, IntakeSafe, C!IntakeInv, C!NothingLost
<1> QED
  BY <1>1, ServiceInvariant, PTL

-----------------------------------------------------------------------------
(* What a step may never do to the table.                                  *)

\* Only a watcher that has reported the outcome and a clean-up delete.
LEMMA Deletions ==
    ASSUME ServiceInv, [ServiceNext]_svars, NEW r \in Request, rows[r] # Null, rows'[r] = Null
    PROVE  \/ /\ \/ Failed(r) \in Reported
                 \/ \E h \in Hash : Confirmed(r, h) \in Reported
              /\ UNCHANGED cleaning
           \/ \E c \in Caller : /\ cleaning[c] = r /\ cleaning'[c] = Null
                                /\ \A d \in Caller : d # c => cleaning'[d] = cleaning[d]
<1>0. /\ TypeInv /\ C!IntakeInv /\ DeletesTold
      /\ cleaning \in [Caller -> Request \union {Null}]
      /\ rows \in [Request -> Row \union {Null}]
  BY DEF ServiceInv, ServiceTypeOK, TypeInv, TypeOK, StoreTypeOK
<1>1. ASSUME NEW p \in Watcher, Watch(p)
      PROVE  /\ \/ Failed(r) \in Reported
                \/ \E h \in Hash : Confirmed(r, h) \in Reported
             /\ UNCHANGED cleaning
  <2>1. Watches(p) /\ UNCHANGED cleaning
    BY <1>0, <1>1, WatcherStep DEF Watch, cleanVars
  <2>2. tick[p].step \in {"deleteFailed", "deleteConfirmed"} /\ tick[p].id = r
    BY <2>1 DEF Watches
  <2>3. CASE tick[p].step = "deleteFailed"
    BY <1>0, <2>1, <2>2, <2>3 DEF DeletesTold
  <2>4. CASE tick[p].step = "deleteConfirmed"
    <3>1. tick[p].row.hash \in Hash
      BY <1>0, <2>4 DEF TypeInv, TypeOK, Shapes, TickShape, ActiveStep, RowShape, Row, Tick
    <3> QED
      BY <1>0, <2>1, <2>2, <2>4, <3>1 DEF DeletesTold
  <2> QED
    BY <2>2, <2>3, <2>4
<1>2. ASSUME NEW c \in Caller, CleanDelete(c)
      PROVE  /\ cleaning[c] = r /\ cleaning'[c] = Null
             /\ \A d \in Caller : d # c => cleaning'[d] = cleaning[d]
  BY <1>0, <1>2 DEF CleanDelete, Delete
<1>3. CASE Consume
  <2>1. UNCHANGED storeVars \/ Inserts
    BY <1>0, <1>3, ConsumerTable DEF Consume, ConsumerStep
  <2> QED
    BY <1>0, <2>1, OneInserted DEF storeVars
<1>4. CASE \/ \E W \in Configs : Start(W)
           \/ Gone \/ Sigterm
           \/ \E p \in Watcher : Cancelled(p)
           \/ \E c \in Caller : CleanRead(c) \/ CleanFails(c)
           \/ Network \/ UNCHANGED svars
  <2>1. rows' = rows
    BY <1>4 DEF Start, Gone, Sigterm, Cancelled, CleanRead, CleanFails, Network, ChainStep,
                svars, vars, storeVars
  <2> QED
    BY <2>1
<1> QED
  BY <1>1, <1>2, <1>3, <1>4 DEF ServiceNext, Die, Exit, Panic

\* A request leaves the table after its outcome was handed to the producer
\* (loop.go:205, 299, 395), or by a clean-up (meta_transaction_api.go:40),
\* over any interleaving of ticks, redeliveries, clean-ups and restarts.
THEOREM OutcomeBeforeDeletion == ServiceSpec => OnlyCleanForgets
<1>1. ASSUME ServiceInv, [ServiceNext]_svars, NEW r \in Request, rows[r] # Null, rows'[r] = Null
      PROVE  \/ Failed(r) \in Reported
             \/ \E h \in Hash : Confirmed(r, h) \in Reported
             \/ \E c \in Caller : cleaning[c] = r /\ cleaning'[c] = Null
  BY <1>1, Deletions
<1>2. ServiceInv /\ [ServiceNext]_svars =>
        [\A r \in Request : rows[r] # Null /\ rows'[r] = Null =>
             \/ Failed(r) \in Reported
             \/ \E h \in Hash : Confirmed(r, h) \in Reported
             \/ \E c \in Caller : cleaning[c] = r /\ cleaning'[c] = Null]_svars
  BY <1>1
<1> QED
  BY <1>2, ServiceInvariant, PTL DEF ServiceSpec, OnlyCleanForgets

\* A clean-up deletes the oldest row (meta_transaction_api.go:33-40), unless
\* the request was deleted and inserted again after it was chosen; with one
\* claim and one clock, on which the order of created_at rests (Stamp).
THEOREM CleanTakesOldest == ServiceSpec => CleansOldest
<1> DEFINE Cleans == \A c \in Caller :
             LET r == cleaning[c]
             IN  /\ r # Null /\ cleaning'[c] = Null
                 /\ rows[r] # Null /\ rows'[r] = Null
                 /\ inserts[r] = 1
                 => r \in Oldest
<1>1. ServiceInv => \A c \in Caller : LET r == cleaning[c] IN
          r # Null /\ rows[r] # Null /\ inserts[r] = 1 => r \in Oldest
  BY DEF ServiceInv, CleansChosen
<1>2. ServiceInv /\ [ServiceNext]_svars => [Cleans]_svars
  BY <1>1
<1> QED
  BY <1>2, ServiceInvariant, PTL DEF ServiceSpec, CleansOldest

-----------------------------------------------------------------------------
(* Finality.                                                               *)

\* A Confirmed event is final (loop.go:277-299) also when processes end and
\* start between any two calls, events are replayed and rows are cleaned up,
\* when reorgs are no deeper than ConfirmationBlocks.
THEOREM FinalOverRestarts ==
    ASSUME MaxReorgDepth <= ConfirmationBlocks PROVE ServiceSpec => []ConfirmedFinal
<1> DEFINE Inv == ServiceInv /\ FinalInv
<1>1. ServiceInit => Inv
  <2> SUFFICES ASSUME ServiceInit PROVE FinalInv
    BY ServiceInvInit
  <2> QED
    BY FinalInit DEF ServiceInit
<1>2. Inv /\ [ServiceNext]_svars => Inv'
  <2> SUFFICES ASSUME Inv, [ServiceNext]_svars PROVE FinalInv'
    BY ServiceInvNext
  <2>1. TypeInv' /\ TypeInv /\ C!IntakeInv /\ cleaning \in [Caller -> Request \union {Null}]
    BY ServiceInvNext DEF ServiceInv, ServiceTypeOK
  <2>2. ASSUME (\E p \in Watcher : Step(p) \/ Abort(p)) \/ ChainStep PROVE FinalInv'
    <3>1. Next
      BY <2>2 DEF Next
    <3> QED
      BY <3>1, FinalNext
  <2> QED
    BY <2>1, <2>2, ServiceMoves, BesideFinal
<1>3. Inv => ConfirmedFinal
  BY DEF FinalInv, ConfirmedBuried, ChainShape, HashOwners, ConfirmedFinal, Buried
<1> QED
  BY <1>1, <1>2, <1>3, PTL DEF ServiceSpec
=============================================================================
