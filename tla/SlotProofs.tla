----------------------------- MODULE SlotProofs -----------------------------
(***************************************************************************)
(* What one watcher per wallet sends: no nonce serves two requests, no     *)
(* request is executed more often than it was inserted and faults account  *)
(* for, and, without boosts, what is followed is what executes, what is    *)
(* reported Failed was not sent, and what is sent is announced.            *)
(***************************************************************************)
EXTENDS TickerProofs, FiniteSetTheorems

USE MetaTransactionsAssumption, TickerAssumption

\* A request has finitely many slots.
LEMMA SlotsFinite ==
    ASSUME NEW r
    PROVE  IsFiniteSet(Slots(r)) /\ Cardinality(Slots(r)) \in Nat
<1> DEFINE S == {g \in Accepted : tx[g].req = r}
           f == [h \in S |-> <<tx[h].wallet, tx[h].nonce>>]
<1>1. IsFiniteSet(Hash)
  BY FS_Interval DEF Hash
<1>2. S \in SUBSET Hash
  BY DEF Accepted
<1>3. IsFiniteSet(S)
  BY <1>1, <1>2, FS_Subset
<1>4. f \in Surjection(S, Slots(r))
  BY DEF Surjection, Slots
<1>5. IsFiniteSet(Slots(r))
  BY <1>3, <1>4, FS_Surjection
<1> QED
  BY <1>5, FS_CardinalityType

\* A row is held at home by one watcher.
LEMMA HomeUnique ==
    ASSUME OneWatcherPerWallet, NEW p \in Watcher, NEW q \in Watcher, NEW r,
           AtHome(p, r), AtHome(q, r)
    PROVE  p = q
<1>1. WalletOf[p] \in Wallet /\ WalletOf[q] \in Wallet
  OBVIOUS
<1>2. WalletOf[p] = WalletOf[q]
  BY <1>1 DEF AtHome, SingleWallet
<1> QED
  BY <1>2 DEF OneWatcherPerWallet

LEMMA HomeWallet ==
    ASSUME TypeInv, NEW p \in Watcher, NEW r \in Request, AtHome(p, r), rows[r] # Null
    PROVE  rows[r].wallet = WalletOf[p]
<1>1. WalletOf[p] \in Wallet /\ rows[r].wallet \in Wallet
  BY DEF TypeInv, TypeOK, StoreTypeOK, Row
<1> QED
  BY <1>1 DEF AtHome, SingleWallet

\* What a step of p does to what is sent and what is waiting: it sends the
\* request it holds, or leaves one waiting again only by a fault; it holds a
\* request that waited.
Spends(p) ==
    /\ inserts' = inserts /\ faults' \in Nat /\ faults <= faults'
    /\ \A q \in Watcher : q # p => tick'[q] = tick[q]
    /\ tick'[p].step \in BeforeSend =>
        \/ tick[p].step \in BeforeSend /\ tick'[p].id = tick[p].id
        \/ Unsent(tick'[p].id) /\ rows[tick'[p].id].wallet = WalletOf[p]
    /\ \A r \in Request :
        /\ \/ Slots(r)' = Slots(r)
           \/ /\ tick[p].step = "sendSubmit" /\ tick[p].id = r /\ faults' = faults
              /\ tick'[p].step = "recordSubmit" /\ tick'[p].id = r
              /\ Cardinality(Slots(r)') \in {Cardinality(Slots(r)), Cardinality(Slots(r)) + 1}
        /\ Unsent(r)' => Unsent(r) \/ faults' = faults + 1
        /\ rows'[r] # Null => rows[r] # Null /\ rows'[r].wallet = rows[r].wallet

\* The bookkeeping holds after a step of p that sends nothing, once p's new
\* locals and the rows it has written agree with what was sent.
LEMMA SlotFrom ==
    ASSUME OneWatcherPerWallet, SlotCore, TypeInv', NEW p \in Watcher, NEW from, NEW u,
           Goto(p, from, u),
           tx' = tx, inserts' = inserts, faults' \in Nat, faults <= faults',
           \A h \in Hash : signedFor[h] # Null => signedFor'[h] = signedFor[h],
           \A r \in Request : rows'[r] # Null =>
               /\ rows[r] # Null /\ rows'[r].wallet = rows[r].wallet
               /\ rows'[r].submitted = Null => rows[r].submitted = Null
               /\ rows'[r].submitted # Null /\ rows[r].submitted = Null =>
                    from = "recordSubmit" /\ r = tick[p].id
               /\ rows'[r].submitted # Null => \E h \in Accepted :
                    tx[h] = [req |-> r, wallet |-> rows'[r].wallet, nonce |-> rows'[r].nonce],
           \A r \in Request : rows[r] # Null /\ rows'[r] = Null =>
               from \in {"deleteConfirmed", "deleteFailed"} /\ r = tick[p].id,
           from = "recordSubmit" => \/ faults' = faults + 1
                                    \/ rows'[tick[p].id] = Null
                                    \/ rows'[tick[p].id].submitted # Null,
           Front(p, u)',
           u.step \in ActiveStep => \E h \in Accepted : tx[h] = TxOf(u, WalletOf[p]),
           u.step # "recordSubmit",
           u.step = "sendSubmit" => \A h \in Accepted :
               tx[h].wallet = WalletOf[p] => tx[h].nonce # u.row.nonce,
           u.step = "submitted" =>
               u.row.hash \in Accepted /\ tx[u.row.hash] = TxOf(u, WalletOf[p]),
           u.step = "sendBoost" => tx[u.row.hash] = Null /\ signedFor'[u.row.hash] = u.id,
           u.step \in BeforeSend =>
               \/ from \in BeforeSend /\ u.id = tick[p].id
               \/ Unsent(u.id) /\ rows[u.id].wallet = WalletOf[p]
    PROVE  SlotCore' /\ Spends(p)
<1>1. /\ tick \in [Watcher -> Tick] /\ tick' \in [Watcher -> Tick]
      /\ faults \in Nat /\ inserts \in [Request -> Nat]
      /\ \A q \in Watcher : TickShape(tick[q]) /\ Front(q, tick[q])
      /\ TypeInv /\ AtMostOneActive
  BY DEF SlotCore, TypeInv, TypeOK, StoreTypeOK, Shapes, Fronts
<1>2. /\ tick[p].step = from /\ tick'[p] = u
      /\ \A q \in Watcher : q # p => tick'[q] = tick[q]
  BY <1>1 DEF Goto
<1>3. /\ Accepted' = Accepted
      /\ \A r \in Request : Slots(r)' = Slots(r)
  BY DEF Accepted, Slots
<1>4. SentSigned'
  BY <1>3 DEF SlotCore, SentSigned, Accepted
<1>5. ASSUME NEW q \in Watcher PROVE SlotTick(q, tick[q])'
  <2>1. CASE q = p
    BY <1>2, <1>3, <2>1 DEF SlotTick, TxOf
  <2>2. CASE q # p
    <3>1. SlotTick(q, tick[q]) /\ tick'[q] = tick[q]
      BY <1>2, <2>2 DEF SlotCore, SlotTicks
    <3>2. tick[q].step = "sendBoost" => tick[q].row.hash \in Hash /\ tick[q].id \in Request
      BY <1>1 DEF TickShape, RowShape, Row, ActiveStep
    <3> QED
      BY <1>3, <3>1, <3>2 DEF SlotTick, TxOf
  <2> QED
    BY <2>1, <2>2
<1>6. RowSlots'
  <2>1. \A r \in Request : rows'[r] # Null /\ rows'[r].submitted # Null => \E h \in Accepted :
          tx[h] = [req |-> r, wallet |-> rows'[r].wallet, nonce |-> rows'[r].nonce]
    OBVIOUS
  <2> QED
    BY ONLY <1>3, <2>1, tx' = tx DEF RowSlots, Active, RowsOf
<1>7. OneRequestPerNonce'
  BY <1>3 DEF SlotCore, OneRequestPerNonce, SameSlot
<1>8. Spends(p)
  <2>1. ASSUME NEW r \in Request, Unsent(r)' PROVE Unsent(r) \/ faults' = faults + 1
    <3>1. /\ rows[r] # Null /\ rows'[r].submitted = Null /\ rows[r].submitted = Null
          /\ rows'[r] # Null
      BY <2>1 DEF Unsent
    <3>2. \A q \in Watcher : q # p /\ tick[q].step = "recordSubmit" => tick[q].id # r
      BY <1>2, <2>1 DEF Unsent
    <3>3. tick[p].step = "recordSubmit" => tick[p].id # r \/ faults' = faults + 1
      BY <1>2, <3>1
    <3> QED
      BY <3>1, <3>2, <3>3 DEF Unsent
  <2> QED
    BY <1>2, <1>3, <2>1 DEF Spends
\* A submission is recorded at the wallet of p.
<1>9. ASSUME NEW v \in Wallet
      PROVE  \/ Active(v)' \subseteq Active(v)
             \/ from = "recordSubmit" /\ v = WalletOf[p] /\ Active(v)' \subseteq {tick[p].id}
  <2>1. \A r \in Active(v)' : r \in Active(v) \/ (from = "recordSubmit" /\ r = tick[p].id)
    BY DEF Active, RowsOf
  <2>2. CASE from = "recordSubmit" /\ tick[p].id \in Active(v)'
    <3>1. tick[p].id \in Request /\ rows[tick[p].id] # Null /\ rows[tick[p].id].wallet = v
      BY <2>2 DEF Active, RowsOf
    <3>2. AtHome(p, tick[p].id) /\ Active(WalletOf[p]) = {}
      BY <1>1, <1>2, <2>2 DEF Front, SubmitStep
    <3>3. v = WalletOf[p]
      BY <1>1, <3>1, <3>2, HomeWallet
    <3> QED
      BY <2>1, <2>2, <3>2, <3>3
  <2> QED
    BY <2>1, <2>2
<1>10. AtMostOneActive'
  BY <1>1, <1>9 DEF AtMostOneActive
<1>11. ASSUME NEW q \in Watcher PROVE Front(q, tick[q])'
  <2>1. CASE q = p
    BY <1>2, <2>1 DEF Front, AtHome, Active, RowsOf
  <2>2. CASE q # p
    <3>1. Front(q, tick[q]) /\ tick'[q] = tick[q] /\ WalletOf[q] \in Wallet
      BY <1>1, <1>2, <2>2
    <3>2. Active(WalletOf[q])' \subseteq Active(WalletOf[q])
      BY <1>9, <2>2, <3>1 DEF OneWatcherPerWallet
    <3>3. ASSUME tick[q].step \in ActiveStep \union SubmitStep \union {"failed", "deleteFailed"}
          PROVE  AtHome(q, tick[q].id)'
      <4>1. AtHome(q, tick[q].id) /\ tick[q].id \in Request
        BY <1>1, <3>1, <3>3 DEF Front, TickShape, HoldStep
      <4>2. CASE SingleWallet
        BY <4>2 DEF AtHome
      <4>3. CASE ~ SingleWallet
        <5>1. rows[tick[q].id] # Null /\ rows[tick[q].id].wallet = WalletOf[q]
          BY <4>1, <4>3 DEF AtHome
        <5>2. ASSUME from \in {"deleteConfirmed", "deleteFailed"}, tick[q].id = tick[p].id
              PROVE  FALSE
          <6>1. AtHome(p, tick[p].id)
            BY <1>1, <1>2, <5>2 DEF Front, ActiveStep
          <6> QED
            BY <2>2, <4>1, <5>2, <6>1, HomeUnique
        <5>3. rows'[tick[q].id] # Null
          BY <4>1, <5>1, <5>2
        <5>4. rows'[tick[q].id].wallet = WalletOf[q]
          BY <4>1, <5>1, <5>3
        <5> QED
          BY <3>1, <5>3, <5>4 DEF AtHome
      <4> QED
        BY <4>2, <4>3
    <3> QED
      BY <3>1, <3>2, <3>3 DEF Front
  <2> QED
    BY <2>1, <2>2
<1> QED
  BY <1>4, <1>5, <1>6, <1>7, <1>8, <1>10, <1>11 DEF SlotCore, SlotTicks, Fronts

\* ... in particular after a step that keeps the slots of the rows.
LEMMA SlotKeep ==
    ASSUME OneWatcherPerWallet, SlotCore, TypeInv', NEW p \in Watcher, NEW from, NEW u,
           Goto(p, from, u),
           tx' = tx, inserts' = inserts, faults' \in Nat, faults <= faults',
           \A h \in Hash : signedFor[h] # Null => signedFor'[h] = signedFor[h],
           \A r \in Request : rows'[r] # Null =>
               /\ rows[r] # Null
               /\ rows'[r].wallet = rows[r].wallet
               /\ rows'[r].nonce = rows[r].nonce
               /\ rows'[r].submitted = rows[r].submitted,
           \A r \in Request : rows[r] # Null /\ rows'[r] = Null =>
               from \in {"deleteConfirmed", "deleteFailed"} /\ r = tick[p].id,
           from # "recordSubmit" \/ faults' = faults + 1,
           Front(p, u)',
           u.step \in ActiveStep => \E h \in Accepted : tx[h] = TxOf(u, WalletOf[p]),
           u.step \notin {"recordSubmit", "submitted"},
           u.step = "sendSubmit" => \A h \in Accepted :
               tx[h].wallet = WalletOf[p] => tx[h].nonce # u.row.nonce,
           u.step = "sendBoost" => tx[u.row.hash] = Null /\ signedFor'[u.row.hash] = u.id,
           u.step \in BeforeSend =>
               \/ from \in BeforeSend /\ u.id = tick[p].id
               \/ Unsent(u.id) /\ rows[u.id].wallet = WalletOf[p]
    PROVE  SlotCore' /\ Spends(p)
<1>1. ASSUME NEW r \in Request, rows[r] # Null, rows[r].submitted # Null
      PROVE  \E h \in Accepted :
                tx[h] = [req |-> r, wallet |-> rows[r].wallet, nonce |-> rows[r].nonce]
  <2>1. rows[r].wallet \in Wallet
    BY <1>1 DEF SlotCore, TypeInv, TypeOK, StoreTypeOK, Row
  <2>2. r \in Active(rows[r].wallet)
    BY <1>1 DEF Active, RowsOf
  <2> QED
    BY <2>1, <2>2 DEF SlotCore, RowSlots
<1>2. \A r \in Request : rows'[r] # Null =>
        /\ rows[r] # Null /\ rows'[r].wallet = rows[r].wallet
        /\ rows'[r].submitted = Null => rows[r].submitted = Null
        /\ rows'[r].submitted # Null /\ rows[r].submitted = Null =>
             from = "recordSubmit" /\ r = tick[p].id
        /\ rows'[r].submitted # Null => \E h \in Accepted :
             tx[h] = [req |-> r, wallet |-> rows'[r].wallet, nonce |-> rows'[r].nonce]
  <2> SUFFICES ASSUME NEW r \in Request, rows'[r] # Null
               PROVE  /\ rows[r] # Null /\ rows'[r].wallet = rows[r].wallet
                      /\ rows'[r].submitted = Null => rows[r].submitted = Null
                      /\ rows'[r].submitted # Null /\ rows[r].submitted = Null =>
                           from = "recordSubmit" /\ r = tick[p].id
                      /\ rows'[r].submitted # Null => \E h \in Accepted :
                           tx[h] = [req |-> r, wallet |-> rows'[r].wallet,
                                    nonce |-> rows'[r].nonce]
    OBVIOUS
  <2>1. /\ rows[r] # Null /\ rows'[r].wallet = rows[r].wallet
        /\ rows'[r].nonce = rows[r].nonce /\ rows'[r].submitted = rows[r].submitted
    OBVIOUS
  <2>2. rows[r].submitted # Null => \E h \in Accepted :
          tx[h] = [req |-> r, wallet |-> rows[r].wallet, nonce |-> rows[r].nonce]
    BY <1>1, <2>1
  <2> QED
    BY ONLY <2>1, <2>2
<1> QED
  BY <1>2, SlotFrom

\* An accepted transaction adds its slot to those of its request.
LEMMA Sending ==
    ASSUME NodeTypeOK, NEW h \in Hash, tx[h] = Null, NEW x \in Tx,
           tx' = [tx EXCEPT ![h] = x]
    PROVE  /\ Accepted' = Accepted \union {h} /\ h \notin Accepted
           /\ tx'[h] = x
           /\ \A g \in Accepted : g \in Hash /\ tx'[g] = tx[g]
           /\ \A r \in Request : r # x.req => Slots(r)' = Slots(r)
           /\ \A r \in Request : r = x.req =>
                Slots(r)' = Slots(r) \union {<<x.wallet, x.nonce>>}
<1>1. /\ Accepted' = Accepted \union {h} /\ h \notin Accepted
      /\ tx'[h] = x
      /\ \A g \in Accepted : g \in Hash /\ tx'[g] = tx[g]
  BY DEF NodeTypeOK, Accepted
<1>2. \A r \in Request : r # x.req => Slots(r)' = Slots(r)
  BY <1>1 DEF Slots
<1>3. \A r \in Request : r = x.req =>
        Slots(r)' = Slots(r) \union {<<x.wallet, x.nonce>>}
  BY <1>1 DEF Slots
<1> QED
  BY <1>1, <1>2, <1>3

\* A first transaction goes out under a free nonce.
LEMMA SlotSubmit ==
    ASSUME OneWatcherPerWallet, SlotCore, TypeInv', NEW p \in Watcher, NEW u,
           Goto(p, "sendSubmit", u), NEW h \in Hash, signedFor[h] = Null,
           tx' = [tx EXCEPT ![h] = TxOf(tick[p], WalletOf[p])],
           u.step = "recordSubmit", u.id = tick[p].id, u.row.hash = h,
           u.row.nonce = tick[p].row.nonce,
           signedFor' = [signedFor EXCEPT ![h] = tick[p].id],
           UNCHANGED <<rows, inserts, faults>>
    PROVE  SlotCore' /\ Spends(p)
<1> DEFINE t == tick[p]
<1>1. /\ tick \in [Watcher -> Tick] /\ NodeTypeOK
      /\ faults \in Nat /\ inserts \in [Request -> Nat]
      /\ signedFor \in [Hash -> Request \union {Null}]
      /\ \A q \in Watcher : TickShape(tick[q]) /\ Front(q, tick[q])
      /\ t \in Tick /\ TickShape(t) /\ Front(p, t) /\ SlotTick(p, t)
      /\ rows \in [Request -> Row \union {Null}] /\ AtMostOneActive
  BY DEF SlotCore, TypeInv, TypeOK, StoreTypeOK, Shapes, Fronts, SlotTicks
<1>2. /\ t.step = "sendSubmit" /\ tick'[p] = u
      /\ \A q \in Watcher : q # p => tick'[q] = tick[q]
  BY <1>1 DEF Goto
<1>3. t.id \in Request /\ t.row \in Row /\ t.row.nonce # Null
  BY <1>1, <1>2 DEF TickShape, HoldStep, SubmitStep
<1> HIDE DEF t
<1>a. TxOf(t, WalletOf[p]) \in Tx
  BY <1>3 DEF TxOf, Tx, Row
<1>b. PICK x \in Tx : x = TxOf(t, WalletOf[p])
  BY <1>a
<1>4. x.req = t.id /\ x.wallet = WalletOf[p] /\ x.nonce = t.row.nonce
  BY <1>b DEF TxOf
<1>5. tx[h] = Null /\ tx' = [tx EXCEPT ![h] = x]
  BY <1>b DEF SlotCore, SentSigned, Accepted, t
<1>6. /\ Accepted' = Accepted \union {h} /\ h \notin Accepted
      /\ tx'[h] = x
      /\ \A g \in Accepted : g \in Hash /\ tx'[g] = tx[g]
  BY ONLY <1>1, <1>5, h \in Hash, x \in Tx, Sending
<1>c. \A r \in Request : r # x.req => Slots(r)' = Slots(r)
  BY ONLY <1>1, <1>5, h \in Hash, x \in Tx, Sending
<1>d. \A r \in Request : r = x.req => Slots(r)' = Slots(r) \union {<<x.wallet, x.nonce>>}
  BY ONLY <1>1, <1>5, h \in Hash, x \in Tx, Sending
<1>7. SentSigned'
  BY <1>1, <1>3, <1>6 DEF SlotCore, SentSigned, t
<1>8. ASSUME NEW q \in Watcher PROVE SlotTick(q, tick[q])'
  <2>1. CASE q = p
    BY <1>2, <1>4, <1>6, <1>b, <2>1 DEF SlotTick, t, TxOf
  <2>2. CASE q # p
    <3>1. SlotTick(q, tick[q]) /\ tick'[q] = tick[q] /\ x.wallet # WalletOf[q]
      BY <1>2, <1>4, <2>2 DEF SlotCore, SlotTicks, OneWatcherPerWallet
    <3>2. tick[q].step = "sendBoost" => tick[q].row.hash \in Hash /\ tick[q].id \in Request
      BY <1>1 DEF TickShape, RowShape, Row, ActiveStep
    <3>3. tick[q].step = "sendBoost" =>
            tx'[tick[q].row.hash] = Null /\ signedFor'[tick[q].row.hash] = tick[q].id
      BY <1>1, <3>1, <3>2 DEF SlotTick, NodeTypeOK
    <3> QED
      BY <1>6, <3>1, <3>3 DEF SlotTick, TxOf
  <2> QED
    BY <2>1, <2>2
<1>9. RowSlots'
  <2>1. \A w : Active(w)' = Active(w)
    BY DEF Active, RowsOf
  <2> QED
    BY <1>6, <2>1 DEF SlotCore, RowSlots
<1>10. OneRequestPerNonce'
  <2>1. \A g \in Accepted : ~ (tx[g].wallet = x.wallet /\ tx[g].nonce = x.nonce)
    BY <1>1, <1>2, <1>4 DEF SlotTick
  <2> QED
    BY <1>6, <2>1 DEF SlotCore, OneRequestPerNonce, SameSlot
<1>11. ASSUME NEW r \in Request, r = t.id
       PROVE  /\ ~ Unsent(r)'
              /\ Cardinality(Slots(r)') \in {Cardinality(Slots(r)), Cardinality(Slots(r)) + 1}
  <2>1. ~ Unsent(r)'
    BY <1>2, <1>11 DEF Unsent, t
  <2>2. Slots(r)' = Slots(r) \union {<<x.wallet, x.nonce>>}
    BY <1>4, <1>d, <1>11
  <2>3. Cardinality(Slots(r) \union {<<x.wallet, x.nonce>>}) \in
          {Cardinality(Slots(r)), Cardinality(Slots(r)) + 1}
    BY SlotsFinite, FS_AddElement
  <2> QED
    BY <2>1, <2>2, <2>3
<1>12. ASSUME NEW r \in Request, r # t.id
       PROVE  Slots(r)' = Slots(r) /\ (Unsent(r)' => Unsent(r))
  <2>1. Unsent(r)' => Unsent(r)
    BY <1>2 DEF Unsent, t
  <2> QED
    BY <1>4, <1>c, <1>12, <2>1
<1>13. Spends(p)
  BY <1>1, <1>2, <1>11, <1>12 DEF Spends, BeforeSend, t
<1>14. AtMostOneActive' /\ Fronts'
  <2>1. \A w : Active(w)' = Active(w)
    BY DEF Active, RowsOf
  <2>2. AtMostOneActive'
    BY <1>1, <2>1 DEF AtMostOneActive
  <2>3. ASSUME NEW q \in Watcher PROVE Front(q, tick[q])'
    <3>1. CASE q = p
      BY <1>1, <1>2, <2>1, <3>1 DEF Front, AtHome, SubmitStep, ActiveStep, t
    <3>2. CASE q # p
      BY <1>1, <1>2, <2>1, <3>2 DEF Front, AtHome
    <3> QED
      BY <3>1, <3>2
  <2> QED
    BY <2>2, <2>3 DEF Fronts
<1> QED
  BY <1>7, <1>8, <1>9, <1>10, <1>13, <1>14 DEF SlotCore, SlotTicks

\* A boost takes the slot its row already has.
LEMMA SlotBoost ==
    ASSUME OneWatcherPerWallet, SlotCore, TypeInv', NEW p \in Watcher,
           Goto(p, "sendBoost", Idle),
           tx' = [tx EXCEPT ![tick[p].row.hash] = TxOf(tick[p], WalletOf[p])],
           UNCHANGED <<rows, inserts, faults, signedFor>>
    PROVE  SlotCore' /\ Spends(p)
<1> DEFINE t == tick[p]
           w == WalletOf[p]
<1>1. /\ tick \in [Watcher -> Tick] /\ NodeTypeOK
      /\ faults \in Nat /\ inserts \in [Request -> Nat]
      /\ \A q \in Watcher : TickShape(tick[q]) /\ Front(q, tick[q])
      /\ t \in Tick /\ TickShape(t) /\ Front(p, t) /\ SlotTick(p, t)
      /\ w \in Wallet /\ AtMostOneActive
  BY DEF SlotCore, TypeInv, TypeOK, StoreTypeOK, Shapes, Fronts, SlotTicks
<1>2. /\ t.step = "sendBoost" /\ tick'[p] = Idle
      /\ \A q \in Watcher : q # p => tick'[q] = tick[q]
  BY <1>1 DEF Goto
<1> HIDE DEF t
<1>3. /\ t.id \in Request /\ t.row \in Row /\ t.row.nonce # Null /\ t.row.hash \in Hash
      /\ tx[t.row.hash] = Null /\ signedFor[t.row.hash] = t.id /\ AtHome(p, t.id)
  BY <1>1, <1>2 DEF TickShape, RowShape, Row, ActiveStep, Front, SlotTick
<1>4. \E g \in Accepted : tx[g] = TxOf(t, w)
  BY <1>1, <1>2 DEF SlotTick, ActiveStep
<1>5. PICK g \in Accepted : tx[g] = [req |-> t.id, wallet |-> w, nonce |-> t.row.nonce]
  BY <1>4 DEF TxOf
<1>6. PICK h \in Hash : h = t.row.hash
  BY <1>3
<1>7. TxOf(t, w) \in Tx
  BY <1>1, <1>3 DEF TxOf, Tx, Row
<1>8. PICK x \in Tx : x = TxOf(t, w)
  BY <1>7
<1>9. signedFor[h] = t.id /\ tx[g] = x
  BY <1>3, <1>5, <1>6, <1>8 DEF TxOf
<1>a. tx[h] = Null /\ tx' = [tx EXCEPT ![h] = x]
  BY <1>3, <1>6, <1>8 DEF t
<1>10. /\ Accepted' = Accepted \union {h} /\ h \notin Accepted
       /\ tx'[h] = x
       /\ \A f \in Accepted : f \in Hash /\ tx'[f] = tx[f]
  BY <1>1, <1>a, Sending
<1>11. \A r \in Request : r # x.req => Slots(r)' = Slots(r)
  BY <1>1, <1>a, Sending
<1>12. \A r \in Request : r = x.req => Slots(r)' = Slots(r) \union {<<x.wallet, x.nonce>>}
  BY <1>1, <1>a, Sending
<1>13. SentSigned'
  BY <1>3, <1>9, <1>10 DEF SlotCore, SentSigned
<1>14. ASSUME NEW q \in Watcher PROVE SlotTick(q, tick[q])'
  <2>1. CASE q = p
    BY <1>2, <2>1 DEF SlotTick, Idle, At, ActiveStep
  <2>2. CASE q # p
    <3>1. SlotTick(q, tick[q]) /\ tick'[q] = tick[q] /\ x.wallet # WalletOf[q]
      BY <1>2, <1>8, <2>2 DEF SlotCore, SlotTicks, OneWatcherPerWallet, TxOf
    <3>2. ASSUME tick[q].step = "sendBoost" PROVE tx'[tick[q].row.hash] = Null
      <4>1. /\ tick[q].row.hash \in Hash /\ tx[tick[q].row.hash] = Null
            /\ signedFor[tick[q].row.hash] = tick[q].id /\ AtHome(q, tick[q].id)
        BY <1>1, <3>1, <3>2 DEF SlotTick, TickShape, RowShape, Row, ActiveStep, Front
      <4>2. tick[q].row.hash # h
        BY <1>3, <1>9, <2>2, <4>1, HomeUnique
      <4> QED
        BY <1>1, <1>a, <4>1, <4>2 DEF NodeTypeOK
    <3> QED
      BY <1>10, <3>1, <3>2 DEF SlotTick, TxOf
  <2> QED
    BY <2>1, <2>2
<1>15. RowSlots'
  <2>1. \A v : Active(v)' = Active(v)
    BY DEF Active, RowsOf
  <2> QED
    BY <1>10, <2>1 DEF SlotCore, RowSlots
<1>16. OneRequestPerNonce'
  <2>1. \A f \in Accepted' : \E e \in Accepted : tx'[f] = tx[e]
    BY <1>9, <1>10
  <2> QED
    BY <2>1 DEF SlotCore, OneRequestPerNonce, SameSlot
<1>17. ASSUME NEW r \in Request
       PROVE  Slots(r)' = Slots(r) /\ (Unsent(r)' => Unsent(r))
  <2>1. r = x.req => <<x.wallet, x.nonce>> \in Slots(r)
    BY <1>9 DEF Slots
  <2>2. Unsent(r)' => Unsent(r)
    BY <1>2 DEF Unsent, t
  <2> QED
    BY <1>11, <1>12, <2>1, <2>2
<1>18. Spends(p)
  BY <1>1, <1>2, <1>17 DEF Spends, BeforeSend, Idle, At
<1>19. AtMostOneActive' /\ Fronts'
  <2>1. \A v : Active(v)' = Active(v)
    BY DEF Active, RowsOf
  <2>2. AtMostOneActive'
    BY <1>1, <2>1 DEF AtMostOneActive
  <2>3. ASSUME NEW q \in Watcher PROVE Front(q, tick[q])'
    <3>1. CASE q = p
      BY <1>2, <3>1 DEF Front, SubmitStep, ActiveStep, Idle, At
    <3>2. CASE q # p
      BY <1>1, <1>2, <2>1, <3>2 DEF Front, AtHome
    <3> QED
      BY <3>1, <3>2
  <2> QED
    BY <2>2, <2>3 DEF Fronts
<1> QED
  BY <1>1, <1>13, <1>14, <1>15, <1>16, <1>18, <1>19 DEF SlotCore, SlotTicks

\* p goes on with the row it holds, or ends its tick.
Continues(t, u) ==
    /\ u.step \notin {"pick", "sendSubmit", "recordSubmit", "submitted", "sendBoost"}
    /\ u.step \in ActiveStep =>
            t.step \in ActiveStep /\ u.id = t.id /\ u.row.nonce = t.row.nonce
    /\ u.step \in SubmitStep => t.step \in BeforeSend /\ u.id = t.id
    /\ u.step \in {"failed", "deleteFailed"} =>
            t.step \in ActiveStep \union SubmitStep \union {"failed"} /\ u.id = t.id

\* Every step of a watcher preserves the bookkeeping.
LEMMA SlotStep ==
    ASSUME OneWatcherPerWallet, SlotCore, TypeInv', NEW p \in Watcher, Step(p)
    PROVE  SlotCore' /\ Spends(p)
<1> DEFINE w == WalletOf[p]
<1>p. PICK t : t = tick[p]
  OBVIOUS
<1>0. /\ t = tick[p] /\ t \in Tick /\ TickShape(t) /\ Front(p, t) /\ SlotTick(p, t)
      /\ tick \in [Watcher -> Tick] /\ faults \in Nat
      /\ rows \in [Request -> Row \union {Null}]
      /\ signedFor \in [Hash -> Request \union {Null}]
      /\ w \in Wallet /\ TypeInv
  BY <1>p DEF SlotCore, TypeInv, TypeOK, StoreTypeOK, Shapes, Fronts, SlotTicks
\* p goes on while its row stays.
<1>f. ASSUME NEW from, NEW u, Goto(p, from, u), Continues(t, u),
             Active(w)' \subseteq Active(w),
             t.step \in ActiveStep \union SubmitStep \union {"failed"} => AtHome(p, t.id)'
      PROVE  /\ Front(p, u)'
             /\ u.step \in ActiveStep => \E h \in Accepted : tx[h] = TxOf(u, w)
             /\ u.step \in BeforeSend => from \in BeforeSend /\ u.id = tick[p].id
             /\ u.step \notin {"recordSubmit", "submitted", "sendSubmit", "sendBoost"}
  <2>1. t.step = from
    BY <1>0, <1>f DEF Goto
  <2>2. u.step \in ActiveStep => \E h \in Accepted : tx[h] = TxOf(u, w)
    <3>1. u.step \in ActiveStep => TxOf(u, w) = TxOf(t, w) /\ t.step \in ActiveStep
      BY <1>f DEF Continues, TxOf
    <3> QED
      BY <1>0, <3>1 DEF SlotTick
  <2>3. u.step \in BeforeSend => from \in BeforeSend /\ u.id = tick[p].id
    BY <1>0, <1>f, <2>1 DEF Continues, BeforeSend, SubmitStep
  <2>4. u.step \in ActiveStep => Active(w)' \subseteq {u.id}
    BY <1>0, <1>f DEF Continues, Front
  <2>5. u.step \in SubmitStep \union {"pick"} => Active(w)' = {}
    <3>1. t.step \in BeforeSend => t.step \in SubmitStep
      BY DEF BeforeSend, SubmitStep
    <3> QED
      BY <1>0, <1>f, <3>1 DEF Continues, Front
  <2>6. u.step \in ActiveStep \union SubmitStep \union {"failed", "deleteFailed"} =>
            AtHome(p, u.id)'
    <3>1. t.step \in BeforeSend => t.step \in SubmitStep
      BY DEF BeforeSend, SubmitStep
    <3>2. u.step \in ActiveStep \union SubmitStep \union {"failed", "deleteFailed"} =>
            u.id = t.id /\ t.step \in ActiveStep \union SubmitStep \union {"failed"}
      BY <1>f, <3>1 DEF Continues
    <3>3. AtHome(p, t.id)' /\ u.id = t.id => AtHome(p, u.id)'
      BY Zenon
    <3> QED
      BY <1>f, <3>2, <3>3
  <2>7. Front(p, u)'
    BY <2>4, <2>5, <2>6 DEF Front
  <2> QED
    BY <1>f, <2>2, <2>3, <2>7 DEF Continues
\* p reads or reports.
<1>a. ASSUME NEW from, NEW u, Goto(p, from, u), from # "recordSubmit", Continues(t, u),
             UNCHANGED <<rows, inserts, tx, signedFor>>, faults' \in Nat, faults <= faults'
      PROVE  SlotCore' /\ Spends(p)
  <2>1. Active(w)' = Active(w)
    BY <1>a DEF Active, RowsOf
  <2>2. t.step \in ActiveStep \union SubmitStep \union {"failed"} => AtHome(p, t.id)'
    <3>1. AtHome(p, t.id) => AtHome(p, t.id)'
      BY <1>a DEF AtHome
    <3> QED
      BY <1>0, <3>1 DEF Front
  <2>3. /\ Front(p, u)'
        /\ u.step \in ActiveStep => \E h \in Accepted : tx[h] = TxOf(u, w)
        /\ u.step \in BeforeSend => from \in BeforeSend /\ u.id = tick[p].id
        /\ u.step \notin {"recordSubmit", "submitted", "sendSubmit", "sendBoost"}
    BY <1>a, <2>1, <2>2, <1>f
  <2> QED
    BY <1>a, <2>3, SlotKeep
\* p writes a column that is none of its slot.
<1>b. ASSUME NEW from, NEW u, Goto(p, from, u), from # "recordSubmit", Continues(t, u),
             UNCHANGED <<tx, signedFor, faults>>, t.id \in Request,
             NEW new, Update(t.id, new),
             rows[t.id] # Null => /\ new # Null /\ new.wallet = rows[t.id].wallet
                                  /\ new.nonce = rows[t.id].nonce
                                  /\ new.submitted = rows[t.id].submitted
      PROVE  SlotCore' /\ Spends(p)
  <2>1. inserts' = inserts
    BY <1>b DEF Update
  <2>2. \A r \in Request : rows'[r] # Null =>
               /\ rows[r] # Null
               /\ rows'[r].wallet = rows[r].wallet
               /\ rows'[r].nonce = rows[r].nonce
               /\ rows'[r].submitted = rows[r].submitted
    BY <1>0, <1>b DEF Update
  <2>3. \A r \in Request : rows[r] # Null => rows'[r] # Null
    BY <1>0, <1>b DEF Update
  <2>4. Active(w)' \subseteq Active(w)
    BY <2>2 DEF Active, RowsOf
  <2>5. t.step \in ActiveStep \union SubmitStep \union {"failed"} => AtHome(p, t.id)'
    <3>1. AtHome(p, t.id) => AtHome(p, t.id)'
      BY <1>b, <2>2, <2>3 DEF AtHome
    <3> QED
      BY <1>0, <3>1 DEF Front
  <2>6. /\ Front(p, u)'
        /\ u.step \in ActiveStep => \E h \in Accepted : tx[h] = TxOf(u, w)
        /\ u.step \in BeforeSend => from \in BeforeSend /\ u.id = tick[p].id
        /\ u.step \notin {"recordSubmit", "submitted", "sendSubmit", "sendBoost"}
    BY <1>b, <2>4, <2>5, <1>f
  <2> QED
    BY <1>0, <1>b, <2>1, <2>2, <2>3, <2>6, SlotKeep
\* p deletes its row.
<1>c. ASSUME NEW from \in {"deleteConfirmed", "deleteFailed"}, NEW u, Goto(p, from, u),
             u.step \in {"idle", "pick"}, u.step = "pick" => from = "deleteConfirmed",
             UNCHANGED <<tx, signedFor, faults>>, Delete(t.id)
      PROVE  SlotCore' /\ Spends(p)
  <2>1. inserts' = inserts /\ t.step = from
    BY <1>0, <1>c DEF Delete, Goto
  <2>2. t.id \in Request
    BY <1>0, <1>c, <2>1 DEF TickShape, ActiveStep, HoldStep
  <2>3. \A r \in Request : IF r = t.id THEN rows'[r] = Null ELSE rows'[r] = rows[r]
    BY <1>0, <1>c DEF Delete
  <2>4. from = "deleteConfirmed" => Active(w)' = {}
    <3>1. from = "deleteConfirmed" => Active(w) \subseteq {t.id}
      BY <1>0, <2>1 DEF Front, ActiveStep
    <3> QED
      BY <2>2, <2>3, <3>1 DEF Active, RowsOf
  <2>5. Front(p, u)'
    BY <1>c, <2>4 DEF Front, ActiveStep, SubmitStep
  <2>6. u.step \notin ActiveStep \union BeforeSend
    BY <1>c DEF ActiveStep, BeforeSend
  <2> QED
    BY <1>0, <1>c, <2>1, <2>3, <2>5, <2>6, SlotKeep
<1>d. ASSUME NEW m, Report(m) PROVE faults' \in Nat /\ faults <= faults'
  BY <1>0, <1>d DEF Report
<1>e. Idle.step = "idle" /\ At("pick").step = "pick" /\ Continues(t, Idle)
  BY DEF Idle, At, Continues, ActiveStep, SubmitStep
<1>1. CASE ReadActive(p)
  <2>0. UNCHANGED <<rows, inserts, tx, signedFor, faults>>
    BY <1>1 DEF ReadActive, storeVars, nodeVars
  <2>a. Active(w)' = Active(w)
    BY <2>0 DEF Active, RowsOf
  <2>1. ASSUME NEW r \in Active(w), Goto(p, "idle", [At("head") EXCEPT !.id = r, !.row = rows[r]])
        PROVE  SlotCore' /\ Spends(p)
    <3> DEFINE v == [At("head") EXCEPT !.id = r, !.row = rows[r]]
    <3>0. Goto(p, "idle", v) /\ v.step = "head" /\ v.id = r /\ v.row = rows[r]
      BY <2>1 DEF At
    <3> HIDE DEF v
    <3>1. PICK u : Goto(p, "idle", u) /\ u.step = "head" /\ u.id = r /\ u.row = rows[r]
      BY <3>0
    <3>2. r \in Request /\ rows[r] # Null /\ rows[r].wallet = w
      BY DEF Active, RowsOf
    <3>3. Active(w)' \subseteq {r}
      BY <1>0, <2>a DEF SlotCore, AtMostOneActive
    <3>4. AtHome(p, u.id)'
      BY <2>0, <3>1, <3>2 DEF AtHome
    <3>5. Front(p, u)'
      BY <3>1, <3>3, <3>4 DEF Front, SubmitStep
    <3>6. \E h \in Accepted : tx[h] = TxOf(u, w)
      BY <1>0, <3>1 DEF SlotCore, RowSlots, TxOf
    <3> QED
      BY <1>0, <2>0, <3>1, <3>5, <3>6, SlotKeep DEF BeforeSend
  <2>2. ASSUME Goto(p, "idle", At("pick")), Active(w) = {} PROVE SlotCore' /\ Spends(p)
    <3> DEFINE u == At("pick")
    <3>1. Goto(p, "idle", u) /\ u.step = "pick"
      BY <2>2, <1>e
    <3> HIDE DEF u
    <3>2. Front(p, u)'
      BY <2>2, <2>a, <3>1 DEF Front, ActiveStep, SubmitStep
    <3> QED
      BY <1>0, <2>0, <3>1, <3>2, SlotKeep DEF ActiveStep, BeforeSend
  <2> QED
    BY <1>1, <2>1, <2>2 DEF ReadActive
<1>2. CASE ReadHead(p)
  <2> DEFINE u == [t EXCEPT !.step = "receipt", !.head = head]
  <2>1. Goto(p, "head", u) /\ Continues(t, u)
    BY <1>0, <1>2 DEF ReadHead, Goto, Tick, Continues, ActiveStep, SubmitStep
  <2> HIDE DEF u
  <2> QED
    BY <1>0, <1>2, <2>1, <1>a DEF ReadHead, storeVars, nodeVars
<1>3. CASE ReadReceipt(p)
  <2> DEFINE rec == incl[t.row.hash]
             u == IF rec # Null THEN AfterFound(t, rec)
                  ELSE IF t.row.mined # Null THEN [t EXCEPT !.step = "clearMined"]
                  ELSE AfterMissing(t)
  <2>1. Goto(p, "receipt", u)
    BY <1>0, <1>3 DEF ReadReceipt
  <2>2. t.step = "receipt"
    BY <1>0, <2>1 DEF Goto
  <2>3. \/ u = Idle
        \/ \E st \in {"mined", "confirmed", "recordMoved", "clearMined", "prepareBoost"} : \E x :
              u = [[t EXCEPT !.step = st] EXCEPT !.rec = x]
    <3>1. \A st : [t EXCEPT !.step = st] = [[t EXCEPT !.step = st] EXCEPT !.rec = t.rec]
      BY <1>0 DEF Tick
    <3> QED
      BY <1>0, <3>1 DEF AfterFound, AfterMissing
  <2> HIDE DEF u
  <2>4. Continues(t, u)
    <3>1. CASE u = Idle
      BY <1>e, <3>1
    <3>2. ASSUME NEW st \in {"mined", "confirmed", "recordMoved", "clearMined", "prepareBoost"},
                 NEW x, u = [[t EXCEPT !.step = st] EXCEPT !.rec = x]
          PROVE  Continues(t, u)
      <4>1. u.step = st /\ u.id = t.id /\ u.row = t.row
        BY <1>0, <3>2 DEF Tick
      <4> QED
        BY <2>2, <4>1 DEF Continues, ActiveStep, SubmitStep
    <3> QED
      BY <2>3, <3>1, <3>2
  <2> QED
    BY <1>0, <1>3, <2>1, <2>2, <2>4, <1>a DEF ReadReceipt, storeVars, nodeVars
<1>4. CASE ClearMined(p)
  <2>1. /\ t.step = "clearMined" /\ t.id \in Request /\ t.row \in Row
        /\ Update(t.id, [rows[t.id] EXCEPT !.mined = Null])
    BY <1>0, <1>4 DEF ClearMined, Goto, TickShape, ActiveStep
  <2> DEFINE u == AfterMissing([t EXCEPT !.row.mined = Null])
  <2>2. Goto(p, "clearMined", u)
    BY <1>0, <1>4 DEF ClearMined
  <2>3. [t EXCEPT !.row.mined = Null] \in Tick
    BY <1>0, <2>1 DEF Tick, Row
  <2>4. Continues(t, u)
    BY <1>0, <1>e, <2>1, <2>3 DEF AfterMissing, Continues, Tick, Row, ActiveStep, SubmitStep
  <2> DEFINE new == [rows[t.id] EXCEPT !.mined = Null]
  <2>5. /\ rows[t.id] # Null => /\ new.wallet = rows[t.id].wallet
                                /\ new.nonce = rows[t.id].nonce
                                /\ new.submitted = rows[t.id].submitted
        /\ rows[t.id] # Null => new # Null /\ rows[t.id] \in Row
    BY <1>0, <2>1 DEF Row
  <2> HIDE DEF u
  <2> QED
    BY <1>0, <1>4, <2>1, <2>2, <2>4, <2>5, <1>b DEF ClearMined, nodeVars
<1>5. CASE PrepareBoost(p)
  <2>1. PICK u : Goto(p, "prepareBoost", u) /\ Continues(t, u)
    BY <1>0, <1>5 DEF PrepareBoost, Goto, Tick, Continues, ActiveStep, SubmitStep
  <2> QED
    BY <1>0, <1>5, <2>1, <1>a DEF PrepareBoost, storeVars, nodeVars
<1>6. CASE RecordBoost(p)
  <2>1. PICK h \in Hash :
          /\ signedFor[h] = Null
          /\ Goto(p, "recordBoost", [t EXCEPT !.step = "sendBoost", !.row.hash = h,
                                              !.row.boosted = t.head])
          /\ signedFor' = [signedFor EXCEPT ![h] = t.id]
          /\ Update(t.id, [rows[t.id] EXCEPT !.hash = h, !.nonce = t.row.nonce,
                                             !.boosted = t.head])
          /\ UNCHANGED <<tx, faults>>
    BY <1>0, <1>6 DEF RecordBoost, NewHash, nodeVars
  <2>2. /\ t.step = "recordBoost" /\ t.id \in Request /\ t.row \in Row
        /\ Active(w) \subseteq {t.id} /\ AtHome(p, t.id)
    BY <1>0, <2>1 DEF Goto, TickShape, ActiveStep, Front
  <2> DEFINE u == [t EXCEPT !.step = "sendBoost", !.row.hash = h, !.row.boosted = t.head]
  <2>3. /\ Goto(p, "recordBoost", u) /\ u.step = "sendBoost" /\ u.row.hash = h /\ u.id = t.id
        /\ u.row.nonce = t.row.nonce
    BY <1>0, <2>1, <2>2 DEF Tick, Row
  <2> HIDE DEF u
  <2>4. \E g \in Accepted : tx[g] = TxOf(t, w)
    BY <1>0, <2>2 DEF SlotTick, ActiveStep
  <2>5. \E g \in Accepted : tx[g] = TxOf(u, w)
    BY <2>3, <2>4 DEF TxOf
  <2>6. /\ \A r \in Request : r # t.id => rows'[r] = rows[r]
        /\ rows[t.id] = Null => rows'[t.id] = Null
        /\ rows[t.id] # Null => /\ rows'[t.id] # Null
                                /\ rows'[t.id].wallet = rows[t.id].wallet
                                /\ rows'[t.id].submitted = rows[t.id].submitted
                                /\ rows'[t.id].nonce = t.row.nonce
    <3> DEFINE new == [rows[t.id] EXCEPT !.hash = h, !.nonce = t.row.nonce, !.boosted = t.head]
    <3>1. t.head \in Nat /\ t.row.nonce \in Nonce \union {Null}
      BY <1>0, <2>2 DEF Tick, Row
    <3>2. rows[t.id] # Null =>
            /\ new \in Row /\ new.wallet = rows[t.id].wallet
            /\ new.submitted = rows[t.id].submitted /\ new.nonce = t.row.nonce
      BY <1>0, <2>2, <3>1 DEF Row
    <3>3. Update(t.id, new)
      BY <2>1
    <3> HIDE DEF new
    <3> QED
      BY <1>0, <2>2, <3>2, <3>3 DEF Update
  <2>7. \A r \in Request : rows'[r] # Null =>
          /\ rows[r] # Null /\ rows'[r].wallet = rows[r].wallet
          /\ rows'[r].submitted = rows[r].submitted
    BY <2>6
  <2>8. ASSUME NEW r \in Request, rows'[r] # Null, rows'[r].submitted # Null
        PROVE  \E g \in Accepted :
                  tx[g] = [req |-> r, wallet |-> rows'[r].wallet, nonce |-> rows'[r].nonce]
    <3>1. CASE r = t.id
      <4>1. rows'[r].wallet = w /\ rows'[r].nonce = t.row.nonce
        BY <1>0, <2>2, <2>6, <2>8, <3>1, HomeWallet
      <4> QED
        BY <2>4, <3>1, <4>1 DEF TxOf
    <3>2. CASE r # t.id
      <4>1. rows'[r] = rows[r] /\ rows[r] # Null /\ rows[r].wallet \in Wallet
        BY <1>0, <2>6, <2>8, <3>2 DEF Row
      <4>2. r \in Active(rows[r].wallet)
        BY <2>8, <4>1 DEF Active, RowsOf
      <4> QED
        BY <4>1, <4>2 DEF SlotCore, RowSlots
    <3> QED
      BY <3>1, <3>2
  <2>9. Front(p, u)'
    <3>1. Active(w)' \subseteq {t.id}
      BY <2>2, <2>7 DEF Active, RowsOf
    <3>2. AtHome(p, u.id)'
      BY <2>2, <2>3, <2>6 DEF AtHome
    <3> QED
      BY <2>3, <3>1, <3>2 DEF Front, SubmitStep
  <2>10. tx[h] = Null
    BY <2>1 DEF SlotCore, SentSigned, Accepted
  <2>11. signedFor'[h] = t.id /\ \A g \in Hash : signedFor[g] # Null => signedFor'[g] = signedFor[g]
    BY <1>0, <2>1
  <2>12. inserts' = inserts /\ \A r \in Request : rows[r] # Null => rows'[r] # Null
    BY <2>1, <2>6 DEF Update
  <2>13. \A r \in Request : rows'[r] # Null =>
          /\ rows[r] # Null /\ rows'[r].wallet = rows[r].wallet
          /\ rows'[r].submitted = Null => rows[r].submitted = Null
          /\ rows'[r].submitted # Null /\ rows[r].submitted = Null =>
               "recordBoost" = "recordSubmit" /\ r = tick[p].id
          /\ rows'[r].submitted # Null => \E g \in Accepted :
               tx[g] = [req |-> r, wallet |-> rows'[r].wallet, nonce |-> rows'[r].nonce]
    BY <2>7, <2>8
  <2> QED
    BY <1>0, <2>1, <2>3, <2>5, <2>9, <2>10, <2>11, <2>12, <2>13, SlotFrom DEF BeforeSend
<1>7. CASE SendBoost(p)
  <2>1. Goto(p, "sendBoost", Idle) /\ UNCHANGED <<rows, inserts, faults, signedFor>>
    BY <1>7 DEF SendBoost, storeVars
  <2>2. CASE UNCHANGED nodeVars
    BY <1>0, <2>1, <2>2, <1>a, <1>e DEF nodeVars
  <2>3. CASE Accept(t.row.hash, TxOf(t, w))
    BY <1>0, <2>1, <2>3, SlotBoost DEF Accept
  <2> QED
    BY <1>0, <1>7, <2>2, <2>3 DEF SendBoost, Refuse
<1>8. CASE PublishMined(p)
  <2> DEFINE u == [t EXCEPT !.step = "recordMined"]
  <2>1. Goto(p, "mined", u) /\ Continues(t, u)
    BY <1>0, <1>8 DEF PublishMined, Goto, Tick, Continues, ActiveStep, SubmitStep
  <2> HIDE DEF u
  <2> QED
    BY <1>8, <2>1, <1>a, <1>d DEF PublishMined, storeVars, nodeVars
<1>9. CASE RecordMined(p) \/ RecordMoved(p)
  <2>1. PICK from \in {"recordMined", "recordMoved"} : Goto(p, from, Idle)
    BY <1>9 DEF RecordMined, RecordMoved
  <2>2. /\ t.id \in Request /\ UNCHANGED <<tx, signedFor, faults>>
        /\ Update(t.id, [rows[t.id] EXCEPT !.mined = t.rec])
    BY <1>0, <1>9, <2>1 DEF RecordMined, RecordMoved, Goto, TickShape, ActiveStep, nodeVars
  <2> DEFINE new == [rows[t.id] EXCEPT !.mined = t.rec]
  <2>3. rows[t.id] # Null => /\ new \in Row /\ new.wallet = rows[t.id].wallet
                             /\ new.nonce = rows[t.id].nonce
                             /\ new.submitted = rows[t.id].submitted
    BY <1>0, <2>2 DEF Row, Tick
  <2> HIDE DEF new
  <2> QED
    BY <1>0, <2>1, <2>2, <2>3, <1>b, <1>e DEF new
<1>10. CASE PublishConfirmed(p)
  <2> DEFINE u == [t EXCEPT !.step = "deleteConfirmed"]
  <2>1. Goto(p, "confirmed", u) /\ Continues(t, u)
    BY <1>0, <1>10 DEF PublishConfirmed, Goto, Tick, Continues, ActiveStep, SubmitStep
  <2> HIDE DEF u
  <2> QED
    BY <1>10, <2>1, <1>a, <1>d DEF PublishConfirmed, storeVars, nodeVars
<1>11. CASE DeleteConfirmed(p)
  BY <1>0, <1>11, <1>c, <1>e DEF DeleteConfirmed, nodeVars
<1>12. CASE PickNext(p)
  <2>0. UNCHANGED <<rows, inserts, tx, signedFor, faults>>
    BY <1>12 DEF PickNext, storeVars, nodeVars
  <2>1. ASSUME NEW r \in RowsOf(w),
               Goto(p, "pick", [At("submitHead") EXCEPT !.id = r, !.row = rows[r]])
        PROVE  SlotCore' /\ Spends(p)
    <3> DEFINE v == [At("submitHead") EXCEPT !.id = r, !.row = rows[r]]
    <3>0. Goto(p, "pick", v) /\ v.step = "submitHead" /\ v.id = r
      BY <2>1 DEF At
    <3> HIDE DEF v
    <3>1. PICK u : Goto(p, "pick", u) /\ u.step = "submitHead" /\ u.id = r
      BY <3>0
    <3>2. r \in Request /\ rows[r] # Null /\ rows[r].wallet = w /\ AtHome(p, r) /\ t.step = "pick"
      BY <1>0, <3>1 DEF RowsOf, AtHome, Goto
    <3>3. Active(w) = {} /\ Active(w)' = {}
      BY <1>0, <2>0, <3>2 DEF Front, Active, RowsOf
    <3>4. AtHome(p, u.id)'
      BY <2>0, <3>1, <3>2 DEF AtHome
    <3>5. Front(p, u)'
      BY <3>1, <3>3, <3>4 DEF Front, ActiveStep
    <3>6. Unsent(r)
      <4>1. rows[r].submitted = Null
        BY <3>2, <3>3 DEF Active, RowsOf
      <4>2. ASSUME NEW q \in Watcher, tick[q].step = "recordSubmit", tick[q].id = r PROVE FALSE
        <5>1. AtHome(q, r)
          BY <4>2 DEF SlotCore, Fronts, Front, SubmitStep
        <5>2. q = p
          BY <3>2, <5>1, HomeUnique
        <5> QED
          BY <1>0, <3>2, <4>2, <5>2
      <4> QED
        BY <3>2, <4>1, <4>2 DEF Unsent
    <3> QED
      BY <1>0, <2>0, <3>1, <3>2, <3>5, <3>6, SlotKeep DEF ActiveStep
  <2>2. ASSUME Goto(p, "pick", Idle) PROVE SlotCore' /\ Spends(p)
    BY <1>0, <2>0, <2>2, <1>a, <1>e
  <2> QED
    BY <1>12, <2>1, <2>2 DEF PickNext, First
<1>13. CASE ReadSubmitHead(p)
  <2> DEFINE u == [t EXCEPT !.step = "prepareSubmit", !.head = head]
  <2>1. Goto(p, "submitHead", u) /\ Continues(t, u)
    BY <1>0, <1>13 DEF ReadSubmitHead, Goto, Tick, Continues, ActiveStep, SubmitStep, BeforeSend
  <2> HIDE DEF u
  <2> QED
    BY <1>0, <1>13, <2>1, <1>a DEF ReadSubmitHead, storeVars, nodeVars
<1>14. CASE PrepareSubmit(p)
  <2>0. UNCHANGED <<rows, inserts, tx, signedFor, faults>>
    BY <1>14 DEF PrepareSubmit, storeVars, nodeVars
  <2>1. ASSUME NEW n \in Nonce, PendingNonce(w, n),
               Goto(p, "prepareSubmit", [t EXCEPT !.step = "sendSubmit", !.row.nonce = n])
        PROVE  SlotCore' /\ Spends(p)
    <3>1. t.step = "prepareSubmit" /\ t.row \in Row
      BY <1>0, <2>1 DEF Goto, TickShape, HoldStep, SubmitStep
    <3> DEFINE u == [t EXCEPT !.step = "sendSubmit", !.row.nonce = n]
    <3>2. Goto(p, "prepareSubmit", u) /\ u.step = "sendSubmit" /\ u.row.nonce = n /\ u.id = t.id
      BY <1>0, <2>1, <3>1 DEF Tick, Row
    <3> HIDE DEF u
    <3>4. Active(w)' = {} /\ AtHome(p, u.id)'
      BY <1>0, <2>0, <3>1, <3>2 DEF Front, SubmitStep, Active, RowsOf, AtHome
    <3>5. Front(p, u)'
      BY <3>2, <3>4 DEF Front, ActiveStep
    <3>3. \A h \in Accepted : tx[h].wallet = w => tx[h].nonce # n
      BY <2>1 DEF PendingNonce
    <3> QED
      BY <1>0, <2>0, <3>2, <3>3, <3>5, SlotKeep DEF ActiveStep, BeforeSend
  <2>2. ASSUME Goto(p, "prepareSubmit", [t EXCEPT !.step = "failed"]) PROVE SlotCore' /\ Spends(p)
    <3> DEFINE u == [t EXCEPT !.step = "failed"]
    <3>1. Goto(p, "prepareSubmit", u) /\ Continues(t, u)
      BY <1>0, <2>2 DEF Goto, Tick, Continues, ActiveStep, SubmitStep
    <3> HIDE DEF u
    <3> QED
      BY <1>0, <2>0, <3>1, <1>a
  <2> QED
    BY <1>0, <1>14, <2>1, <2>2 DEF PrepareSubmit
<1>15. CASE SendSubmit(p)
  <2>0. UNCHANGED <<rows, inserts, faults>>
    BY <1>15 DEF SendSubmit, storeVars
  <2>1. ASSUME NEW h \in Hash, signedFor[h] = Null,
               Goto(p, "sendSubmit", [t EXCEPT !.step = "recordSubmit", !.row.hash = h]),
               Accept(h, TxOf(t, w)), signedFor' = [signedFor EXCEPT ![h] = t.id]
        PROVE  SlotCore' /\ Spends(p)
    <3>1. t.step = "sendSubmit" /\ t.row \in Row
      BY <1>0, <2>1 DEF Goto, TickShape, HoldStep, SubmitStep
    <3> DEFINE u == [t EXCEPT !.step = "recordSubmit", !.row.hash = h]
    <3>2. /\ Goto(p, "sendSubmit", u) /\ u.step = "recordSubmit" /\ u.row.hash = h
          /\ u.id = t.id /\ u.row.nonce = t.row.nonce
      BY <1>0, <2>1, <3>1 DEF Tick, Row
    <3> HIDE DEF u
    <3> QED
      BY <1>0, <2>0, <2>1, <3>2, SlotSubmit DEF Accept
  <2>2. ASSUME Goto(p, "sendSubmit", Idle), Refuse(TxOf(t, w)), UNCHANGED signedFor
        PROVE  SlotCore' /\ Spends(p)
    BY <1>0, <2>0, <2>2, <1>a, <1>e DEF Refuse, nodeVars
  <2> QED
    BY <1>0, <1>15, <2>1, <2>2 DEF SendSubmit, NewHash
<1>16. CASE RecordSubmit(p)
  <2> DEFINE new == [rows[t.id] EXCEPT !.submitted = t.head, !.nonce = t.row.nonce,
                                       !.hash = t.row.hash]
  <2>0. UNCHANGED <<tx, signedFor, faults>>
    BY <1>16 DEF RecordSubmit, nodeVars
  <2>1. /\ Goto(p, "recordSubmit", [t EXCEPT !.step = "submitted"]) /\ t.step = "recordSubmit"
        /\ Update(t.id, new)
    BY <1>0, <1>16 DEF RecordSubmit, Goto
  <2>2. /\ t.id \in Request /\ t.row \in Row /\ AtHome(p, t.id) /\ Active(w) = {}
        /\ t.row.hash \in Accepted /\ tx[t.row.hash] = TxOf(t, w)
    BY <1>0, <2>1 DEF TickShape, HoldStep, SubmitStep, Front, SlotTick
  <2>3. PICK u : /\ Goto(p, "recordSubmit", u) /\ u.step = "submitted" /\ u.row = t.row
                 /\ u.id = t.id
    BY <1>0, <2>1 DEF Tick
  <2>4. /\ inserts' = inserts
        /\ \A r \in Request : r # t.id => rows'[r] = rows[r]
        /\ rows[t.id] = Null => rows'[t.id] = Null
        /\ rows[t.id] # Null => /\ rows'[t.id] # Null
                                /\ rows'[t.id].wallet = rows[t.id].wallet
                                /\ rows'[t.id].nonce = t.row.nonce
                                /\ rows'[t.id].submitted # Null
    <3>1. t.head \in Nat /\ t.row.nonce \in Nonce \union {Null} /\ t.row.hash \in Hash
      BY <1>0, <2>2 DEF Tick, Row, Accepted
    <3>2. rows[t.id] # Null =>
            /\ new \in Row /\ new.wallet = rows[t.id].wallet
            /\ new.submitted # Null /\ new.nonce = t.row.nonce
      BY <1>0, <2>2, <3>1 DEF Row
    <3> HIDE DEF new
    <3> QED
      BY <1>0, <2>1, <2>2, <3>2 DEF Update
  <2> HIDE DEF new
  <2>5. ASSUME NEW r \in Request, rows'[r] # Null, rows'[r].submitted # Null
        PROVE  \E h \in Accepted :
                  tx[h] = [req |-> r, wallet |-> rows'[r].wallet, nonce |-> rows'[r].nonce]
    <3>1. CASE r = t.id
      <4>1. rows'[r].wallet = w /\ rows'[r].nonce = t.row.nonce
        BY <1>0, <2>2, <2>4, <2>5, <3>1, HomeWallet
      <4> QED
        BY <2>2, <3>1, <4>1 DEF TxOf
    <3>2. CASE r # t.id
      <4>1. rows'[r] = rows[r] /\ rows[r] # Null /\ rows[r].wallet \in Wallet
        BY <1>0, <2>4, <2>5, <3>2 DEF Row
      <4>2. r \in Active(rows[r].wallet)
        BY <2>5, <4>1 DEF Active, RowsOf
      <4> QED
        BY <4>1, <4>2 DEF SlotCore, RowSlots
    <3> QED
      BY <3>1, <3>2
  <2>6. \A r \in Request : rows'[r] # Null =>
               /\ rows[r] # Null /\ rows'[r].wallet = rows[r].wallet
               /\ rows'[r].submitted = Null => rows[r].submitted = Null
               /\ rows'[r].submitted # Null /\ rows[r].submitted = Null => r = tick[p].id
    BY <1>0, <2>4
  <2>7. \/ rows'[tick[p].id] = Null
        \/ rows'[tick[p].id].submitted # Null
    BY <1>0, <2>2, <2>4
  <2>8. u.row.hash \in Accepted /\ tx[u.row.hash] = TxOf(u, w)
    BY <2>2, <2>3 DEF TxOf
  <2>9. Front(p, u)'
    BY <2>3 DEF Front, ActiveStep, SubmitStep
  <2>10. \A r \in Request : rows[r] # Null => rows'[r] # Null
    BY <2>4
  <2> QED
    BY <1>0, <2>0, <2>3, <2>4, <2>5, <2>6, <2>7, <2>8, <2>9, <2>10, SlotFrom
       DEF ActiveStep, BeforeSend
<1>17. CASE PublishSubmitted(p)
  BY <1>17, <1>a, <1>d, <1>e DEF PublishSubmitted, storeVars, nodeVars
<1>18. CASE PublishFailed(p)
  <2> DEFINE u == [t EXCEPT !.step = "deleteFailed"]
  <2>1. Goto(p, "failed", u) /\ Continues(t, u)
    BY <1>0, <1>18 DEF PublishFailed, Goto, Tick, Continues, ActiveStep, SubmitStep
  <2> HIDE DEF u
  <2> QED
    BY <1>18, <2>1, <1>a, <1>d DEF PublishFailed, storeVars, nodeVars
<1>19. CASE DeleteFailed(p)
  BY <1>0, <1>19, <1>c, <1>e DEF DeleteFailed, nodeVars
<1>20. CASE SignFails(p)
  <2>1. Goto(p, t.step, Idle) /\ t.step # "recordSubmit"
    BY <1>0, <1>20 DEF SignFails, Goto
  <2> QED
    BY <1>0, <1>20, <2>1, <1>a, <1>e DEF SignFails, storeVars, nodeVars
<1> QED
  BY <1>1, <1>2, <1>3, <1>4, <1>5, <1>6, <1>7, <1>8, <1>9, <1>10, <1>11, <1>12,
     <1>13, <1>14, <1>15, <1>16, <1>17, <1>18, <1>19, <1>20 DEF Step

\* While only watchers delete rows, what p holds is at the front.
LEMMA LaneFront == OneActiveInv => Fronts
<1> SUFFICES ASSUME OneActiveInv, NEW p \in Watcher PROVE Front(p, tick[p])
  BY DEF Fronts
<1>1. TickShape(tick[p]) /\ Lane(p, tick[p]) /\ WalletOf[p] \in Wallet
  BY DEF OneActiveInv, TypeInv, Shapes, Lanes
<1>2. ASSUME tick[p].step \in ActiveStep
      PROVE  /\ rows[tick[p].id] # Null /\ rows[tick[p].id].wallet = WalletOf[p]
             /\ tick[p].id \in Active(WalletOf[p])
  BY <1>1, <1>2 DEF TickShape, Lane, Active, RowsOf
<1>3. tick[p].step \in ActiveStep => Active(WalletOf[p]) \subseteq {tick[p].id}
  BY <1>1, <1>2 DEF OneActiveInv, AtMostOneActive
<1> QED
  BY <1>1, <1>2, <1>3 DEF Lane, Front, AtHome

\* ... and a request that is about to be sent is waiting.
LEMMA LaneUnsent ==
    ASSUME OneWatcherPerWallet, OneActiveInv, NEW p \in Watcher, tick[p].step = "sendSubmit"
    PROVE  Unsent(tick[p].id)
<1>1. /\ tick[p].id \in Request /\ Active(WalletOf[p]) = {}
      /\ rows[tick[p].id] # Null /\ rows[tick[p].id].wallet = WalletOf[p]
  BY DEF OneActiveInv, TypeInv, Shapes, TickShape, HoldStep, Lanes, Lane, SubmitStep
<1>2. rows[tick[p].id].submitted = Null
  BY <1>1 DEF Active, RowsOf
<1>3. ASSUME NEW q \in Watcher, tick[q].step = "recordSubmit", tick[q].id = tick[p].id
      PROVE  FALSE
  <2>1. rows[tick[q].id].wallet = WalletOf[q]
    BY <1>3 DEF OneActiveInv, Lanes, Lane, SubmitStep
  <2> QED
    BY <1>1, <1>3, <2>1 DEF OneWatcherPerWallet
<1> QED
  BY <1>1, <1>2, <1>3 DEF Unsent

\* What is sent under a nonce stays within the credit.
LEMMA CreditsKept ==
    ASSUME OneWatcherPerWallet, SlotInv, NEW p \in Watcher, Spends(p)
    PROVE  Credits'
<1> SUFFICES ASSUME NEW r \in Request
             PROVE  (Cardinality(Slots(r)) + (IF Unsent(r) THEN 1 ELSE 0) <= inserts[r] + faults)'
  BY DEF Credits
<1>1. /\ Cardinality(Slots(r)) \in Nat /\ inserts[r] \in Nat /\ faults \in Nat
      /\ faults' \in Nat /\ faults <= faults'
      /\ Cardinality(Slots(r)) + (IF Unsent(r) THEN 1 ELSE 0) <= inserts[r] + faults
  BY SlotsFinite DEF SlotInv, SlotCore, Credits, OneActiveInv, TypeInv, TypeOK, StoreTypeOK, Spends
<1>2. Cardinality(Slots(r))' = Cardinality(Slots(r)') /\ inserts'[r] = inserts[r]
  BY DEF Spends
<1>3. CASE Slots(r)' = Slots(r)
  <2>1. /\ Cardinality(Slots(r)') = Cardinality(Slots(r))
        /\ Unsent(r)' => Unsent(r) \/ faults' = faults + 1
    BY <1>3 DEF Spends
  <2> QED
    BY <1>1, <1>2, <2>1
<1>4. CASE Slots(r)' # Slots(r)
  <2>1. /\ tick[p].step = "sendSubmit" /\ tick[p].id = r /\ faults' = faults
        /\ tick'[p].step = "recordSubmit" /\ tick'[p].id = r
        /\ Cardinality(Slots(r)') \in {Cardinality(Slots(r)), Cardinality(Slots(r)) + 1}
    BY <1>4 DEF Spends
  <2>2. Unsent(r) /\ ~ Unsent(r)'
    BY <2>1, LaneUnsent DEF SlotInv, Unsent
  <2> QED
    BY <1>1, <1>2, <2>1, <2>2
<1> QED
  BY <1>3, <1>4

\* Every step of the system preserves the bookkeeping.
LEMMA SlotNext ==
    ASSUME OneWatcherPerWallet, SlotInv, [Next]_vars
    PROVE  SlotInv'
<1>0. OneActiveInv' /\ TypeInv' /\ AtMostOneActive'
  BY LaneNext DEF SlotInv, OneActiveInv
<1>c. Fronts'
  BY <1>0, LaneFront, PTL
<1>a. /\ tick \in [Watcher -> Tick] /\ faults \in Nat /\ inserts \in [Request -> Nat]
      /\ rows \in [Request -> Row \union {Null}]
  BY DEF SlotInv, SlotCore, OneActiveInv, TypeInv, TypeOK, StoreTypeOK
\* Nothing is sent, signed or forgotten.
<1>b. ASSUME UNCHANGED <<tx, signedFor, tick, faults>>,
             \A w : Active(w)' = Active(w),
             \A r \in Request : rows'[r] # rows[r] => rows'[r].submitted = Null,
             \A r \in Request : inserts'[r] \in Nat /\ inserts[r] <= inserts'[r],
             \A r \in Request : Unsent(r)' => Unsent(r) \/ inserts'[r] = inserts[r] + 1
      PROVE  SlotInv'
  <2>1. /\ Accepted' = Accepted
        /\ \A r \in Request : Slots(r)' = Slots(r)
    BY <1>b DEF Accepted, Slots
  <2>2. SentSigned' /\ OneRequestPerNonce'
    BY <1>b, <2>1 DEF SlotInv, SlotCore, SentSigned, OneRequestPerNonce, SameSlot
  <2>3. SlotTicks'
    BY <1>b, <2>1 DEF SlotInv, SlotCore, SlotTicks, SlotTick, TxOf
  <2>4. RowSlots'
    BY <1>b, <2>1 DEF SlotInv, SlotCore, RowSlots, Active, RowsOf
  <2>5. ASSUME NEW r \in Request
        PROVE  (Cardinality(Slots(r)) + (IF Unsent(r) THEN 1 ELSE 0) <= inserts[r] + faults)'
    <3>1. Cardinality(Slots(r))' = Cardinality(Slots(r))
      BY <2>1
    <3>2. /\ Cardinality(Slots(r)) \in Nat
          /\ Cardinality(Slots(r)) + (IF Unsent(r) THEN 1 ELSE 0) <= inserts[r] + faults
      BY SlotsFinite DEF SlotInv, Credits
    <3>3. /\ faults' = faults /\ inserts'[r] \in Nat /\ inserts[r] <= inserts'[r]
          /\ Unsent(r)' => Unsent(r) \/ inserts'[r] = inserts[r] + 1
      BY <1>b
    <3> QED
      BY <1>a, <3>1, <3>2, <3>3
  <2> QED
    BY <1>0, <1>c, <2>2, <2>3, <2>4, <2>5 DEF SlotInv, SlotCore, Credits
<1>1. ASSUME NEW p \in Watcher, Step(p) PROVE SlotInv'
  <2>1. SlotCore' /\ Spends(p)
    BY <1>0, <1>1, SlotStep DEF SlotInv
  <2> QED
    BY <1>0, <2>1, CreditsKept DEF SlotInv
<1>2. ASSUME NEW p \in Watcher, Abort(p) PROVE SlotInv'
  <2>1. /\ Goto(p, tick[p].step, Idle) /\ UNCHANGED <<rows, inserts, tx, signedFor>>
        /\ faults' = faults + 1
    BY <1>2 DEF Abort, Goto, storeVars, nodeVars
  <2>2. Idle.step = "idle"
    BY DEF Idle, At
  <2>3. SlotCore' /\ Spends(p)
    <3>1. Front(p, Idle)'
      BY <2>2 DEF Front, ActiveStep, SubmitStep
    <3> QED
      BY <1>0, <1>a, <2>1, <2>2, <3>1, SlotKeep DEF SlotInv, ActiveStep, BeforeSend
  <2> QED
    BY <1>0, <1>a, <2>1, <2>3, CreditsKept DEF SlotInv
<1>3. ASSUME NEW r \in Request, NEW w \in Wallet, Arrive(r, w) PROVE SlotInv'
  <2>1. /\ UNCHANGED <<tx, signedFor, tick, faults>>
        /\ \/ rows' = rows /\ inserts' = inserts
           \/ /\ rows[r] = Null /\ rows' = [rows EXCEPT ![r] = NewRow(w)]
              /\ inserts' = [inserts EXCEPT ![r] = @ + 1]
    BY <1>3, <1>a DEF Arrive, Upsert, OnConflict, storeVars, localVars, nodeVars
  <2>2. \A s \in Request : rows'[s] # rows[s] => rows[s] = Null /\ rows'[s].submitted = Null
    BY <1>a, <2>1 DEF NewRow
  <2>3. \A v : Active(v)' = Active(v)
    BY <2>2 DEF Active, RowsOf
  <2>4. \A s \in Request : inserts'[s] \in Nat /\ inserts[s] <= inserts'[s]
    BY <1>a, <2>1
  <2>5. \A s \in Request : Unsent(s)' => Unsent(s) \/ inserts'[s] = inserts[s] + 1
    BY <1>a, <2>1 DEF Unsent
  <2> QED
    BY <2>1, <2>2, <2>3, <2>4, <2>5, <1>b
<1>4. CASE ChainStep \/ UNCHANGED vars
  <2>1. UNCHANGED <<tx, signedFor, tick, faults, rows, inserts>>
    BY <1>4 DEF ChainStep, Chain, MineBlock, ConfirmBlock, SlowBlock, Reorg,
                vars, storeVars, nodeVars, localVars
  <2>2. \A v : Active(v)' = Active(v)
    BY <2>1 DEF Active, RowsOf
  <2>3. \A r \in Request : Unsent(r)' => Unsent(r)
    BY <2>1 DEF Unsent
  <2>4. \A r \in Request : inserts'[r] \in Nat /\ inserts[r] <= inserts'[r]
    BY <1>a, <2>1
  <2> QED
    BY <2>1, <2>2, <2>3, <2>4, <1>b
<1> QED
  BY <1>1, <1>2, <1>3, <1>4 DEF Next

\* Nothing is sent initially.
LEMMA SlotInit == Init => SlotInv
<1> SUFFICES ASSUME Init PROVE SlotInv
  OBVIOUS
<1>1. OneActiveInv /\ Fronts
  BY LaneInit, LaneFront
<1>2. Accepted = {} /\ \A w : Active(w) = {}
  BY DEF Init, NodeInit, StoreInit, Accepted, Active, RowsOf
<1>3. SlotTicks
  BY DEF Init, SlotTicks, SlotTick, Idle, At, ActiveStep
<1>4. ASSUME NEW r \in Request
      PROVE  Cardinality(Slots(r)) + (IF Unsent(r) THEN 1 ELSE 0) <= inserts[r] + faults
  <2>1. Slots(r) = {} /\ ~ Unsent(r) /\ inserts[r] = 0 /\ faults = 0
    BY <1>2 DEF Init, StoreInit, Slots, Unsent
  <2> QED
    BY <2>1, FS_EmptySet
<1> QED
  BY <1>1, <1>2, <1>3, <1>4 DEF SlotInv, SlotCore, OneActiveInv, SentSigned, RowSlots,
                                OneRequestPerNonce, Credits

\* What the two theorems below rest on: with one watcher per wallet, the
\* nonces, the rows and the ticks stand to each other as SlotInv says, after
\* every step of loop.go:321-463.
THEOREM SlotInvariant ==
    ASSUME OneWatcherPerWallet PROVE Spec => []SlotInv
<1>1. SlotInv /\ [Next]_vars => SlotInv'
  BY SlotNext
<1> QED
  BY <1>1, SlotInit, PTL DEF Spec

\* With one watcher per wallet, no nonce of a wallet is ever taken by the
\* transactions of two requests, over faults, redeliveries, boosts and reorgs:
\* the nonce read at loop.go:353 is still free at loop.go:430.
THEOREM NonceServesOneRequest ==
    ASSUME OneWatcherPerWallet PROVE Spec => []OneRequestPerNonce
<1>1. SlotInv => OneRequestPerNonce
  BY DEF SlotInv, SlotCore
<1> QED
  BY <1>1, SlotInvariant, PTL

\* With one watcher per wallet, a request is sent under no more nonces than
\* the times it was inserted and the faults so far, however often it was
\* boosted (loop.go:430-448).
THEOREM ExecutionsAreBounded ==
    ASSUME OneWatcherPerWallet PROVE Spec => []ExecutionsBounded
<1>1. ASSUME SlotInv PROVE ExecutionsBounded
  <2> SUFFICES ASSUME NEW r \in Request PROVE Cardinality(Slots(r)) <= inserts[r] + faults
    BY DEF ExecutionsBounded
  <2>1. /\ Cardinality(Slots(r)) + (IF Unsent(r) THEN 1 ELSE 0) <= inserts[r] + faults
        /\ Cardinality(Slots(r)) \in Nat /\ inserts[r] \in Nat /\ faults \in Nat
    BY <1>1, SlotsFinite DEF SlotInv, SlotCore, Credits, OneActiveInv, TypeInv, TypeOK, StoreTypeOK
  <2> QED
    BY <2>1
<1> QED
  BY <1>1, SlotInvariant, PTL

-----------------------------------------------------------------------------
(* Without boosts.                                                         *)

\* A step of p that sends, records, announces and gives up nothing.
Quiet(p) ==
    /\ tick[p].step \notin {"recordSubmit", "submitted", "deleteFailed"}
    /\ tick'[p].step \notin BoostStep \union
            {"recordSubmit", "submitted", "failed", "deleteFailed"}
    /\ \A q \in Watcher : q # p => tick'[q] = tick[q]
    /\ tx' = tx /\ inserts' = inserts /\ faults' \in Nat /\ faults <= faults'
    /\ Reported \subseteq Reported'
    /\ \A m \in Reported' : m \in Reported \/ m.type = "Confirmed"
    /\ \A r \in Request : rows'[r] # Null =>
            /\ rows[r] # Null
            /\ rows'[r].wallet = rows[r].wallet /\ rows'[r].nonce = rows[r].nonce
            /\ rows'[r].submitted = rows[r].submitted /\ rows'[r].hash = rows[r].hash

\* p gives its request up before it is sent.
GivesUp(p) ==
    /\ Goto(p, "prepareSubmit", [tick[p] EXCEPT !.step = "failed"])
    /\ UNCHANGED <<rows, inserts, published, lost, tx, faults>>

\* p sends its request as h.
Submits(p, h) ==
    /\ signedFor[h] = Null
    /\ Goto(p, "sendSubmit", [tick[p] EXCEPT !.step = "recordSubmit", !.row.hash = h])
    /\ tx' = [tx EXCEPT ![h] = TxOf(tick[p], WalletOf[p])]
    /\ UNCHANGED <<rows, inserts, published, lost, faults>>

\* Without boosts every other step of a watcher is a quiet one.
LEMMA QuietStep ==
    ASSUME DisableBoosting, TypeInv, NEW p \in Watcher, Step(p), tick[p].step \notin BoostStep
    PROVE  \/ Quiet(p) \/ GivesUp(p) \/ \E h \in Hash : Submits(p, h)
           \/ PublishMined(p) \/ RecordSubmit(p) \/ PublishSubmitted(p)
           \/ PublishFailed(p) \/ DeleteFailed(p)
<1> DEFINE t == tick[p]
           Loud == BoostStep \union {"recordSubmit", "submitted", "failed", "deleteFailed"}
<1>0. /\ t \in Tick /\ TickShape(t) /\ t.step \notin BoostStep
      /\ tick \in [Watcher -> Tick] /\ faults \in Nat /\ StatusTypeOK
      /\ rows \in [Request -> Row \union {Null}]
  BY DEF TypeInv, TypeOK, StoreTypeOK, Shapes
<1> HIDE DEF t
\* p reads.
<1>a. ASSUME NEW from, NEW u, Goto(p, from, u), u.step \notin Loud,
             from \notin {"recordSubmit", "submitted", "deleteFailed"},
             UNCHANGED <<rows, inserts, published, lost, tx, faults>>
      PROVE  Quiet(p)
  <2>1. tick[p].step = from /\ tick'[p] = u /\ \A q \in Watcher : q # p => tick'[q] = tick[q]
    BY <1>0, <1>a DEF Goto
  <2> QED
    BY <1>0, <1>a, <2>1 DEF Quiet, Reported
\* p writes the mined columns of its row.
<1>b. ASSUME NEW from, NEW u, Goto(p, from, u), u.step \notin Loud,
             from \notin {"recordSubmit", "submitted", "deleteFailed"},
             UNCHANGED <<published, lost, tx, faults>>, t.id \in Request,
             NEW x, Update(t.id, [rows[t.id] EXCEPT !.mined = x])
      PROVE  Quiet(p)
  <2>1. tick[p].step = from /\ tick'[p] = u /\ \A q \in Watcher : q # p => tick'[q] = tick[q]
    BY <1>0, <1>b DEF Goto
  <2>2. /\ inserts' = inserts
        /\ \A r \in Request : rows'[r] # Null =>
            /\ rows[r] # Null
            /\ rows'[r].wallet = rows[r].wallet /\ rows'[r].nonce = rows[r].nonce
            /\ rows'[r].submitted = rows[r].submitted /\ rows'[r].hash = rows[r].hash
    BY <1>0, <1>b DEF Update, Row
  <2> QED
    BY <1>0, <1>b, <2>1, <2>2 DEF Quiet, Reported
<1>c. Idle.step \notin Loud /\ At("pick").step \notin Loud
  BY DEF Idle, At, BoostStep
<1>1. CASE ReadActive(p)
  <2>0. UNCHANGED <<rows, inserts, published, lost, tx, faults>>
    BY <1>1 DEF ReadActive, storeVars, nodeVars, statusVars
  <2>1. ASSUME NEW r, Goto(p, "idle", [At("head") EXCEPT !.id = r, !.row = rows[r]])
        PROVE  Quiet(p)
    <3> DEFINE u == [At("head") EXCEPT !.id = r, !.row = rows[r]]
    <3>1. Goto(p, "idle", u) /\ u.step = "head"
      BY <2>1 DEF At
    <3> HIDE DEF u
    <3> QED
      BY <2>0, <3>1, <1>a DEF BoostStep
  <2>2. ASSUME Goto(p, "idle", At("pick")) PROVE Quiet(p)
    BY <2>0, <2>2, <1>a, <1>c
  <2> QED
    BY <1>1, <2>1, <2>2 DEF ReadActive
<1>2. CASE ReadHead(p)
  <2> DEFINE u == [t EXCEPT !.step = "receipt", !.head = head]
  <2>1. Goto(p, "head", u) /\ u.step = "receipt"
    BY <1>0, <1>2 DEF ReadHead, Tick, t
  <2> HIDE DEF u
  <2> QED
    BY <1>2, <2>1, <1>a DEF ReadHead, storeVars, nodeVars, statusVars, BoostStep
<1>3. CASE ReadReceipt(p)
  <2> DEFINE rec == incl[t.row.hash]
             u == IF rec # Null THEN AfterFound(t, rec)
                  ELSE IF t.row.mined # Null THEN [t EXCEPT !.step = "clearMined"]
                  ELSE AfterMissing(t)
  <2>1. Goto(p, "receipt", u)
    BY <1>3 DEF ReadReceipt, t
  <2>2. u.step \notin Loud
    BY <1>0 DEF AfterFound, AfterMissing, Idle, At, Tick, BoostStep
  <2> HIDE DEF u
  <2> QED
    BY <1>3, <2>1, <2>2, <1>a DEF ReadReceipt, storeVars, nodeVars, statusVars
<1>4. CASE ClearMined(p)
  <2>1. /\ t.step = "clearMined" /\ t.id \in Request /\ t.row \in Row
        /\ Update(t.id, [rows[t.id] EXCEPT !.mined = Null])
    BY <1>0, <1>4 DEF ClearMined, Goto, t, TickShape, ActiveStep
  <2>2. Goto(p, "clearMined", Idle)
    BY <1>4 DEF ClearMined, AfterMissing
  <2> QED
    BY <1>4, <2>1, <2>2, <1>b, <1>c DEF ClearMined, nodeVars, statusVars
<1>5. CASE PrepareBoost(p) \/ RecordBoost(p) \/ SendBoost(p)
  BY <1>0, <1>5 DEF PrepareBoost, RecordBoost, SendBoost, Goto, BoostStep, t
<1>6. CASE RecordMined(p) \/ RecordMoved(p)
  <2>1. PICK from \in {"recordMined", "recordMoved"} : Goto(p, from, Idle)
    BY <1>6 DEF RecordMined, RecordMoved
  <2>2. /\ t.id \in Request /\ UNCHANGED <<published, lost, tx, faults>>
        /\ Update(t.id, [rows[t.id] EXCEPT !.mined = t.rec])
    BY <1>0, <1>6, <2>1 DEF RecordMined, RecordMoved, Goto, TickShape, ActiveStep, nodeVars,
                            statusVars, t
  <2> QED
    BY <2>1, <2>2, <1>b, <1>c
<1>7. CASE PublishConfirmed(p)
  <2> DEFINE u == [t EXCEPT !.step = "deleteConfirmed"]
             c == Confirmed(t.id, t.row.hash)
  <2>1. Goto(p, "confirmed", u) /\ u.step = "deleteConfirmed" /\ Report(c)
    BY <1>0, <1>7 DEF PublishConfirmed, Tick, t
  <2>2. c.type = "Confirmed"
    BY DEF Confirmed
  <2> HIDE DEF u, c
  <2>3. tick[p].step = "confirmed" /\ tick'[p] = u /\ \A q \in Watcher : q # p => tick'[q] = tick[q]
    BY <1>0, <2>1 DEF Goto
  <2>4. UNCHANGED <<rows, inserts, tx>>
    BY <1>7 DEF PublishConfirmed, storeVars, nodeVars
  <2>5. Reported' = Reported \union {c} /\ faults' \in Nat /\ faults <= faults'
    BY <1>0, <2>1 DEF Report, Deliver, Lose, Reported
  <2> QED
    BY <1>0, <2>1, <2>2, <2>3, <2>4, <2>5 DEF Quiet, BoostStep
<1>8. CASE DeleteConfirmed(p)
  <2>1. Goto(p, "deleteConfirmed", At("pick"))
    BY <1>8 DEF DeleteConfirmed
  <2>2. /\ tick[p].step = "deleteConfirmed" /\ tick'[p] = At("pick")
        /\ \A q \in Watcher : q # p => tick'[q] = tick[q]
    BY <1>0, <2>1 DEF Goto
  <2>3. \A r \in Request : rows'[r] # Null => rows'[r] = rows[r]
    BY <1>0, <1>8 DEF DeleteConfirmed, Delete
  <2> QED
    BY <1>0, <1>8, <1>c, <2>2, <2>3 DEF Quiet, DeleteConfirmed, Delete, nodeVars, statusVars, Reported
<1>9. CASE PickNext(p)
  <2>0. UNCHANGED <<rows, inserts, published, lost, tx, faults>>
    BY <1>9 DEF PickNext, storeVars, nodeVars, statusVars
  <2>1. ASSUME NEW r, Goto(p, "pick", [At("submitHead") EXCEPT !.id = r, !.row = rows[r]])
        PROVE  Quiet(p)
    <3> DEFINE u == [At("submitHead") EXCEPT !.id = r, !.row = rows[r]]
    <3>1. Goto(p, "pick", u) /\ u.step = "submitHead"
      BY <2>1 DEF At
    <3> HIDE DEF u
    <3> QED
      BY <2>0, <3>1, <1>a DEF BoostStep
  <2>2. ASSUME Goto(p, "pick", Idle) PROVE Quiet(p)
    BY <2>0, <2>2, <1>a, <1>c
  <2> QED
    BY <1>9, <2>1, <2>2 DEF PickNext
<1>10. CASE ReadSubmitHead(p)
  <2> DEFINE u == [t EXCEPT !.step = "prepareSubmit", !.head = head]
  <2>1. Goto(p, "submitHead", u) /\ u.step = "prepareSubmit"
    BY <1>0, <1>10 DEF ReadSubmitHead, Tick, t
  <2> HIDE DEF u
  <2> QED
    BY <1>10, <2>1, <1>a DEF ReadSubmitHead, storeVars, nodeVars, statusVars, BoostStep
<1>11. CASE PrepareSubmit(p)
  <2>0. UNCHANGED <<rows, inserts, published, lost, tx, faults>>
    BY <1>11 DEF PrepareSubmit, storeVars, nodeVars, statusVars
  <2>1. ASSUME NEW n \in Nonce,
               Goto(p, "prepareSubmit", [t EXCEPT !.step = "sendSubmit", !.row.nonce = n])
        PROVE  Quiet(p)
    <3> DEFINE u == [t EXCEPT !.step = "sendSubmit", !.row.nonce = n]
    <3>1. Goto(p, "prepareSubmit", u) /\ u.step = "sendSubmit"
      BY <1>0, <2>1 DEF Tick
    <3> HIDE DEF u
    <3> QED
      BY <2>0, <3>1, <1>a DEF BoostStep
  <2> QED
    BY <1>11, <2>0, <2>1 DEF PrepareSubmit, GivesUp, t
<1>12. CASE SendSubmit(p)
  <2>0. UNCHANGED <<rows, inserts, published, lost, faults>>
    BY <1>12 DEF SendSubmit, storeVars, statusVars
  <2>1. ASSUME Goto(p, "sendSubmit", Idle), UNCHANGED nodeVars PROVE Quiet(p)
    BY <2>0, <2>1, <1>a, <1>c DEF nodeVars
  <2> QED
    BY <1>12, <2>0, <2>1 DEF SendSubmit, NewHash, Refuse, Accept, Submits
<1>13. CASE SignFails(p)
  <2>1. Goto(p, t.step, Idle) /\ t.step \in {"recordBoost", "sendSubmit"}
    BY <1>13 DEF SignFails, Goto, t
  <2> QED
    BY <1>13, <2>1, <1>a, <1>c DEF SignFails, storeVars, nodeVars, statusVars
<1> QED
  BY <1>1, <1>2, <1>3, <1>4, <1>5, <1>6, <1>7, <1>8, <1>9, <1>10, <1>11, <1>12, <1>13 DEF Step

\* Submitted rows name the only transactions of their nonces while nothing is
\* sent and no submission is recorded,
LEMMA TxsKeep ==
    ASSUME OneTxPerNonce, RowTxs, tx' = tx,
           \A r \in Request : rows'[r] # Null /\ rows'[r].submitted # Null =>
               /\ rows[r] # Null
               /\ rows'[r].wallet = rows[r].wallet /\ rows'[r].nonce = rows[r].nonce
               /\ rows'[r].submitted = rows[r].submitted /\ rows'[r].hash = rows[r].hash
    PROVE  OneTxPerNonce' /\ RowTxs'
<1>1. Accepted' = Accepted
  BY DEF Accepted
<1>2. OneTxPerNonce'
  BY <1>1 DEF OneTxPerNonce, SameSlot
<1>3. RowTxs'
  BY <1>1 DEF RowTxs, Active, RowsOf
<1> QED
  BY <1>2, <1>3

\* ... when a request is sent under a free nonce,
LEMMA TxsSubmit ==
    ASSUME SlotCore, OneTxPerNonce, RowTxs, NEW p \in Watcher, NEW h \in Hash, Submits(p, h)
    PROVE  OneTxPerNonce' /\ RowTxs'
<1> DEFINE t == tick[p]
<1>1. /\ NodeTypeOK /\ TickShape(t) /\ SlotTick(p, t) /\ t.step = "sendSubmit"
      /\ rows' = rows
  BY DEF SlotCore, TypeInv, TypeOK, Shapes, SlotTicks, Submits, Goto
<1>2. t.id \in Request /\ t.row \in Row /\ t.row.nonce # Null
  BY <1>1 DEF TickShape, HoldStep, SubmitStep
<1>3. TxOf(t, WalletOf[p]) \in Tx
  BY <1>2 DEF TxOf, Tx, Row
<1>4. PICK x \in Tx : x = TxOf(t, WalletOf[p])
  BY <1>3
<1>5. tx[h] = Null /\ tx' = [tx EXCEPT ![h] = x]
  BY <1>4 DEF Submits, SlotCore, SentSigned, Accepted
<1> HIDE DEF t
<1>6. /\ Accepted' = Accepted \union {h} /\ h \notin Accepted
      /\ tx'[h] = x
      /\ \A g \in Accepted : g \in Hash /\ tx'[g] = tx[g]
  BY <1>1, <1>5, Sending
<1>7. \A g \in Accepted : ~ (tx[g].wallet = x.wallet /\ tx[g].nonce = x.nonce)
  BY <1>1, <1>4 DEF SlotTick, TxOf
<1>8. OneTxPerNonce'
  BY <1>6, <1>7 DEF OneTxPerNonce, SameSlot
<1>9. RowTxs'
  <2>1. \A w : Active(w)' = Active(w)
    BY <1>1 DEF Active, RowsOf
  <2> QED
    BY <1>1, <1>6, <2>1 DEF RowTxs
<1> QED
  BY <1>8, <1>9

\* ... and when its submission is recorded.
LEMMA TxsRecord ==
    ASSUME SlotCore, OneTxPerNonce, RowTxs, NEW p \in Watcher, RecordSubmit(p)
    PROVE  OneTxPerNonce' /\ RowTxs'
<1>p. PICK t : t = tick[p]
  OBVIOUS
<1> DEFINE new == [rows[t.id] EXCEPT !.submitted = t.head, !.nonce = t.row.nonce,
                                     !.hash = t.row.hash]
<1>1. /\ TypeInv /\ TickShape(t) /\ Front(p, t) /\ SlotTick(p, t)
      /\ t.step = "recordSubmit" /\ Update(t.id, new) /\ tx' = tx
      /\ rows \in [Request -> Row \union {Null}]
  BY <1>p DEF SlotCore, TypeInv, TypeOK, StoreTypeOK, Shapes, Fronts, SlotTicks,
              RecordSubmit, Goto, nodeVars
<1>2. /\ t.id \in Request /\ AtHome(p, t.id)
      /\ t.row.hash \in Accepted /\ tx[t.row.hash] = TxOf(t, WalletOf[p])
  BY <1>1 DEF TickShape, HoldStep, SubmitStep, Front, SlotTick
<1>3. \A r \in Request : r # t.id => rows'[r] = rows[r]
  BY <1>1, <1>2 DEF Update
<1>4. ASSUME rows[t.id] # Null
      PROVE  /\ rows'[t.id].wallet = WalletOf[p]
             /\ rows'[t.id].nonce = t.row.nonce /\ rows'[t.id].hash = t.row.hash
  <2>1. rows[t.id] \in Row /\ rows[t.id].wallet = WalletOf[p]
    BY <1>1, <1>2, <1>4, HomeWallet
  <2>2. new.wallet = WalletOf[p] /\ new.nonce = t.row.nonce /\ new.hash = t.row.hash
    BY <2>1 DEF Row
  <2> HIDE DEF new
  <2>3. rows'[t.id] = new
    BY <1>1, <1>2, <1>4 DEF Update
  <2> QED
    BY <2>2, <2>3
<1>5. rows[t.id] = Null => rows'[t.id] = Null
  BY <1>1 DEF Update
<1> HIDE DEF new
<1>6. Accepted' = Accepted
  BY <1>1 DEF Accepted
<1>7. OneTxPerNonce'
  BY <1>1, <1>6 DEF OneTxPerNonce, SameSlot
<1>8. RowTxs'
  <2> SUFFICES ASSUME NEW w \in Wallet, NEW r \in Active(w)'
               PROVE  /\ rows'[r].hash \in Accepted
                      /\ tx[rows'[r].hash] = [req |-> r, wallet |-> w, nonce |-> rows'[r].nonce]
    BY <1>1, <1>6 DEF RowTxs
  <2>0. r \in Request /\ rows'[r] # Null /\ rows'[r].wallet = w /\ rows'[r].submitted # Null
    BY DEF Active, RowsOf
  <2>1. CASE r = t.id
    BY <1>2, <1>4, <1>5, <2>0, <2>1 DEF TxOf
  <2>2. CASE r # t.id
    <3>1. r \in Active(w) /\ rows'[r] = rows[r]
      BY <1>3, <2>0, <2>2 DEF Active, RowsOf
    <3> QED
      BY <3>1 DEF RowTxs
  <2> QED
    BY <2>1, <2>2
<1> QED
  BY <1>7, <1>8

\* ... so the transaction a row names is the one that spends its nonce.
LEMMA TxsFollow == OneTxPerNonce /\ RowTxs => NoOrphanedInclusion
<1> SUFFICES ASSUME OneTxPerNonce, RowTxs, NEW w \in Wallet, NEW r \in Active(w),
                    NEW h \in Accepted \cap OnChain,
                    tx[h].wallet = w, tx[h].nonce = rows[r].nonce
             PROVE  rows[r].hash \in OnChain
  BY DEF NoOrphanedInclusion, NonceUsed
<1>1. PICK g \in Accepted : /\ g = rows[r].hash
                            /\ tx[g] = [req |-> r, wallet |-> w, nonce |-> rows[r].nonce]
  BY DEF RowTxs
<1>2. SameSlot(g, h)
  BY <1>1 DEF SameSlot
<1> QED
  BY <1>1, <1>2 DEF OneTxPerNonce

\* What a watcher other than p is about to give up stays unsubmitted when p
\* writes no row but those of its own wallet, or writes no submission.
LEMMA OthersUnboosted ==
    ASSUME SingleInv, OneActiveInv', NEW q \in Watcher, tick'[q] = tick[q],
           \A r \in Request : rows'[r] # Null /\ rows[r] # Null /\ rows[r].wallet = WalletOf[q] =>
                rows'[r].submitted = rows[r].submitted
    PROVE  /\ tick'[q].step \notin BoostStep
           /\ tick'[q].step \in {"failed", "deleteFailed"} => rows'[tick'[q].id].submitted = Null
<1>1. /\ tick[q].step \notin BoostStep
      /\ tick[q].step \in {"failed", "deleteFailed"} => rows[tick[q].id].submitted = Null
  BY DEF SingleInv, Unboosted
<1>2. ASSUME tick[q].step \in {"failed", "deleteFailed"}
      PROVE  /\ tick[q].id \in Request
             /\ rows[tick[q].id] # Null /\ rows[tick[q].id].wallet = WalletOf[q]
             /\ rows'[tick[q].id] # Null
  <2>1. TickShape(tick[q]) /\ Lane(q, tick[q]) /\ Lane(q, tick[q])'
    BY DEF SingleInv, SlotInv, SlotCore, OneActiveInv, TypeInv, Shapes, Lanes
  <2> QED
    BY <1>2, <2>1 DEF TickShape, HoldStep, Lane
<1> QED
  BY <1>1, <1>2

\* The invariant holds after a step of p that sends and records nothing.
LEMMA SingleKeep ==
    ASSUME SingleInv, SlotInv', NEW p \in Watcher,
           \A q \in Watcher : q # p => tick'[q] = tick[q],
           tick'[p].step \notin BoostStep,
           tick'[p].step \in {"failed", "deleteFailed"} => rows'[tick'[p].id].submitted = Null,
           tx' = tx,
           \A r \in Request : rows'[r] # Null =>
               /\ rows[r] # Null
               /\ rows'[r].wallet = rows[r].wallet /\ rows'[r].nonce = rows[r].nonce
               /\ rows'[r].submitted = rows[r].submitted /\ rows'[r].hash = rows[r].hash
    PROVE  SingleInv'
<1>0. OneActiveInv'
  BY DEF SlotInv, SlotCore
<1>1. \A q \in Watcher : q # p =>
        /\ tick'[q].step \notin BoostStep
        /\ tick'[q].step \in {"failed", "deleteFailed"} => rows'[tick'[q].id].submitted = Null
  BY <1>0, OthersUnboosted
<1>2. Unboosted'
  BY <1>1 DEF Unboosted
<1>3. OneTxPerNonce' /\ RowTxs'
  BY TxsKeep DEF SingleInv
<1> QED
  BY <1>2, <1>3 DEF SingleInv

\* Every step of the system preserves the invariant.
LEMMA SingleNext ==
    ASSUME DisableBoosting, OneWatcherPerWallet, SingleInv, [Next]_vars
    PROVE  SingleInv'
<1>0. SlotInv' /\ OneActiveInv'
  BY SlotNext DEF SingleInv, SlotInv, SlotCore
<1>1. /\ tick \in [Watcher -> Tick] /\ rows \in [Request -> Row \union {Null}] /\ NodeTypeOK
      /\ \A q \in Watcher : TickShape(tick[q]) /\ Lane(q, tick[q]) /\ SlotTick(q, tick[q])
  BY DEF SingleInv, SlotInv, SlotCore, OneActiveInv, TypeInv, TypeOK, StoreTypeOK, Shapes, Lanes, SlotTicks
\* A step of p that leaves rows alone and goes to no boost.
<1>2. ASSUME NEW p \in Watcher, NEW from, NEW u, Goto(p, from, u), UNCHANGED <<rows, tx>>,
             u.step \notin BoostStep,
             u.step \in {"failed", "deleteFailed"} => rows[u.id].submitted = Null
      PROVE  SingleInv'
  <2>1. tick'[p] = u /\ \A q \in Watcher : q # p => tick'[q] = tick[q]
    BY <1>1, <1>2 DEF Goto
  <2> QED
    BY <1>0, <1>2, <2>1, SingleKeep
<1>a. Idle.step = "idle"
  BY DEF Idle, At
<1>3. ASSUME NEW p \in Watcher, Quiet(p) PROVE SingleInv'
  BY <1>0, <1>3, SingleKeep DEF Quiet
<1>4. ASSUME NEW p \in Watcher, GivesUp(p) PROVE SingleInv'
  <2> DEFINE u == [tick[p] EXCEPT !.step = "failed"]
  <2>1. Goto(p, "prepareSubmit", u) /\ u.step = "failed" /\ u.id = tick[p].id
    BY <1>1, <1>4 DEF GivesUp, Tick
  <2>2. tick[p].step = "prepareSubmit"
    BY <2>1 DEF Goto
  <2>3. rows[tick[p].id].submitted = Null
    BY <1>1, <2>2 DEF TickShape, HoldStep, SubmitStep, Lane, Active, RowsOf
  <2> HIDE DEF u
  <2> QED
    BY <1>2, <1>4, <2>1, <2>3 DEF GivesUp, BoostStep
<1>5. ASSUME NEW p \in Watcher, NEW h \in Hash, Submits(p, h) PROVE SingleInv'
  <2> DEFINE t == tick[p]
             u == [t EXCEPT !.step = "recordSubmit", !.row.hash = h]
  <2>1. Goto(p, "sendSubmit", u) /\ u.step = "recordSubmit" /\ UNCHANGED rows
    BY <1>1, <1>5 DEF Submits, Tick
  <2>2. t.step = "sendSubmit" /\ tick'[p] = u /\ \A q \in Watcher : q # p => tick'[q] = tick[q]
    BY <1>1, <2>1 DEF Goto
  <2> HIDE DEF t, u
  <2>3. \A q \in Watcher : q # p =>
          /\ tick'[q].step \notin BoostStep
          /\ tick'[q].step \in {"failed", "deleteFailed"} => rows'[tick'[q].id].submitted = Null
    BY <1>0, <2>1, <2>2, OthersUnboosted
  <2>4. Unboosted'
    BY <2>1, <2>2, <2>3 DEF Unboosted, BoostStep
  <2>5. OneTxPerNonce' /\ RowTxs'
    BY <1>5, TxsSubmit DEF SingleInv, SlotInv
  <2> QED
    BY <1>0, <2>4, <2>5 DEF SingleInv
<1>6. ASSUME NEW p \in Watcher, PublishMined(p) PROVE SingleInv'
  <2> DEFINE u == [tick[p] EXCEPT !.step = "recordMined"]
  <2>1. Goto(p, "mined", u) /\ u.step = "recordMined"
    BY <1>1, <1>6 DEF PublishMined, Tick
  <2> HIDE DEF u
  <2> QED
    BY <1>2, <1>6, <2>1 DEF PublishMined, storeVars, nodeVars, BoostStep
<1>7. ASSUME NEW p \in Watcher, RecordSubmit(p) PROVE SingleInv'
  <2> DEFINE t == tick[p]
             u == [t EXCEPT !.step = "submitted"]
             new == [rows[t.id] EXCEPT !.submitted = t.head, !.nonce = t.row.nonce,
                                       !.hash = t.row.hash]
  <2>1. Goto(p, "recordSubmit", u) /\ u.step = "submitted" /\ Update(t.id, new) /\ UNCHANGED tx
    BY <1>1, <1>7 DEF RecordSubmit, Tick, nodeVars
  <2>2. t.step = "recordSubmit" /\ tick'[p] = u /\ \A q \in Watcher : q # p => tick'[q] = tick[q]
    BY <1>1, <2>1 DEF Goto
  <2>3. /\ t.id \in Request /\ t.row \in Row /\ rows[t.id] # Null
        /\ rows[t.id].wallet = WalletOf[p]
    BY <1>1, <2>2 DEF TickShape, HoldStep, SubmitStep, Lane
  <2>4. \A r \in Request : r # t.id => rows'[r] = rows[r]
    BY <1>1, <2>1, <2>3 DEF Update
  <2> HIDE DEF t, u, new
  <2>5. ASSUME NEW q \in Watcher, q # p
        PROVE  /\ tick'[q].step \notin BoostStep
               /\ tick'[q].step \in {"failed", "deleteFailed"} => rows'[tick'[q].id].submitted = Null
    <3>1. WalletOf[q] # WalletOf[p]
      BY <2>5 DEF OneWatcherPerWallet
    <3> QED
      BY <1>0, <2>2, <2>3, <2>4, <2>5, <3>1, OthersUnboosted
  <2>6. Unboosted'
    BY <2>1, <2>2, <2>5 DEF Unboosted, BoostStep
  <2>7. OneTxPerNonce' /\ RowTxs'
    BY <1>7, TxsRecord DEF SingleInv, SlotInv
  <2> QED
    BY <1>0, <2>6, <2>7 DEF SingleInv
<1>8. ASSUME NEW p \in Watcher, PublishSubmitted(p) PROVE SingleInv'
  BY <1>2, <1>8, <1>a DEF PublishSubmitted, storeVars, nodeVars, BoostStep
<1>9. ASSUME NEW p \in Watcher, PublishFailed(p) PROVE SingleInv'
  <2> DEFINE u == [tick[p] EXCEPT !.step = "deleteFailed"]
  <2>1. Goto(p, "failed", u) /\ u.step = "deleteFailed" /\ u.id = tick[p].id
    BY <1>1, <1>9 DEF PublishFailed, Tick
  <2>2. rows[tick[p].id].submitted = Null
    BY <2>1 DEF Goto, SingleInv, Unboosted
  <2> HIDE DEF u
  <2> QED
    BY <1>2, <1>9, <2>1, <2>2 DEF PublishFailed, storeVars, nodeVars, BoostStep
<1>10. ASSUME NEW p \in Watcher, DeleteFailed(p) PROVE SingleInv'
  <2>1. tick'[p] = Idle /\ \A q \in Watcher : q # p => tick'[q] = tick[q]
    BY <1>1, <1>10 DEF DeleteFailed, Goto
  <2>2. \A r \in Request : rows'[r] # Null => rows'[r] = rows[r]
    BY <1>1, <1>10 DEF DeleteFailed, Delete
  <2> QED
    BY <1>0, <1>10, <1>a, <2>1, <2>2, SingleKeep DEF DeleteFailed, nodeVars, BoostStep
<1>11. ASSUME NEW p \in Watcher, Abort(p) PROVE SingleInv'
  <2>1. Goto(p, tick[p].step, Idle) /\ UNCHANGED <<rows, tx>>
    BY <1>11 DEF Abort, Goto, storeVars, nodeVars
  <2> QED
    BY <1>2, <1>a, <2>1 DEF BoostStep
\* Nobody moves, and no submitted row changes.
<1>12. ASSUME UNCHANGED <<tx, tick>>, \A r \in Request : rows[r] # Null => rows'[r] = rows[r],
              \A r \in Request : rows'[r] # rows[r] => rows'[r].submitted = Null
       PROVE  SingleInv'
  <2>1. Unboosted'
    BY <1>0, <1>12, OthersUnboosted DEF Unboosted
  <2>2. OneTxPerNonce' /\ RowTxs'
    BY <1>12, TxsKeep DEF SingleInv
  <2> QED
    BY <1>0, <2>1, <2>2 DEF SingleInv
<1>13. ASSUME NEW r \in Request, NEW w \in Wallet, Arrive(r, w) PROVE SingleInv'
  <2>1. /\ UNCHANGED <<tx, tick>>
        /\ rows' = rows \/ (rows[r] = Null /\ rows' = [rows EXCEPT ![r] = NewRow(w)])
    BY <1>13, <1>1 DEF Arrive, Upsert, OnConflict, storeVars, localVars, nodeVars
  <2> QED
    BY <1>1, <1>12, <2>1 DEF NewRow
<1>14. CASE ChainStep \/ UNCHANGED vars
  <2>1. UNCHANGED <<tx, tick, rows>>
    BY <1>14 DEF ChainStep, Chain, MineBlock, ConfirmBlock, SlowBlock, Reorg,
                vars, storeVars, nodeVars, localVars
  <2> QED
    BY <1>12, <2>1
<1>15. ASSUME NEW p \in Watcher, Step(p) PROVE SingleInv'
  <2>1. TypeInv /\ tick[p].step \notin BoostStep
    BY <1>0 DEF SingleInv, SlotInv, SlotCore, Unboosted
  <2> QED
    BY <2>1, <1>0, <1>15, <1>3, <1>4, <1>5, <1>6, <1>7, <1>8, <1>9, <1>10, QuietStep
<1> QED
  BY <1>11, <1>13, <1>14, <1>15 DEF Next

\* Nothing is sent initially.
LEMMA SingleInit == Init => SingleInv
<1> SUFFICES ASSUME Init PROVE SingleInv
  OBVIOUS
<1>1. Accepted = {} /\ \A w : Active(w) = {}
  BY DEF Init, NodeInit, StoreInit, Accepted, Active, RowsOf
<1>2. Unboosted
  BY DEF Init, Unboosted, BoostStep, Idle, At
<1> QED
  BY <1>1, <1>2, SlotInit DEF SingleInv, OneTxPerNonce, RowTxs

\* With one watcher per wallet and no boosts, the nonce of a submitted row is
\* spent by no transaction but the one whose hash the row holds, so the receipt
\* query at loop.go:133 cannot miss the execution, over faults and reorgs.
THEOREM FollowsTheExecution ==
    ASSUME DisableBoosting, OneWatcherPerWallet PROVE Spec => []NoOrphanedInclusion
<1>1. SingleInv /\ [Next]_vars => SingleInv'
  BY SingleNext
<1>2. SingleInv => NoOrphanedInclusion
  BY TxsFollow DEF SingleInv
<1> QED
  BY <1>1, <1>2, SingleInit, PTL DEF Spec

-----------------------------------------------------------------------------
(* What is reported Failed.                                                *)

\* The invariant holds after a step of p that sends nothing, reports nothing
\* Failed and, when it gives a request up, deletes it or fails.
LEMMA FailedKeep ==
    ASSUME FailedInv, SingleInv', NEW p \in Watcher,
           \A q \in Watcher : q # p => tick'[q] = tick[q],
           tx' = tx, inserts' = inserts, faults' \in Nat, faults <= faults',
           \A r \in Request : Failed(r) \in Reported' => Failed(r) \in Reported,
           \A r \in Request : rows'[r] # Null => rows[r] # Null,
           tick[p].step = "deleteFailed" =>
               faults' = faults + 1 \/ rows'[tick[p].id] = Null
    PROVE  FailedInv'
<1>1. faults \in Nat
  BY DEF FailedInv, SingleInv, SlotInv, SlotCore, OneActiveInv, TypeInv, TypeOK
<1>2. \A r \in Request : Slots(r)' = Slots(r)
  BY DEF Slots, Accepted
<1>3. faults' = 0 => faults = 0 /\ (tick[p].step = "deleteFailed" => rows'[tick[p].id] = Null)
  BY <1>1
<1>4. FailedGone'
  BY <1>1, <1>3 DEF FailedInv, FailedGone
<1>5. FailedNotSent'
  BY <1>2, <1>3 DEF FailedInv, FailedNotSent
<1> QED
  BY <1>4, <1>5 DEF FailedInv

\* Every step of the system preserves the invariant.
LEMMA FailedNext ==
    ASSUME DisableBoosting, OneWatcherPerWallet, FailedInv, [Next]_vars
    PROVE  FailedInv'
<1>0. SingleInv' /\ OneActiveInv' /\ SingleInv
  BY SingleNext DEF FailedInv, SingleInv, SlotInv, SlotCore
<1>1. /\ tick \in [Watcher -> Tick] /\ rows \in [Request -> Row \union {Null}] /\ NodeTypeOK
      /\ faults \in Nat /\ inserts \in [Request -> Nat] /\ StatusTypeOK
      /\ \A q \in Watcher : TickShape(tick[q]) /\ Lane(q, tick[q]) /\ SlotTick(q, tick[q])
  BY <1>0 DEF SingleInv, SlotInv, SlotCore, OneActiveInv, TypeInv, TypeOK, StoreTypeOK, Shapes, Lanes,
              SlotTicks
\* A step of p that leaves the table alone and reports nothing Failed.
<1>2. ASSUME NEW p \in Watcher, NEW from, NEW u, Goto(p, from, u), UNCHANGED <<tx, inserts>>,
             \A r \in Request : rows'[r] # Null => rows[r] # Null,
             from # "deleteFailed" \/ faults' = faults + 1 \/ rows'[tick[p].id] = Null,
             \A r \in Request : Failed(r) \in Reported' => Failed(r) \in Reported,
             faults' \in Nat, faults <= faults'
      PROVE  FailedInv'
  <2>1. tick[p].step = from /\ \A q \in Watcher : q # p => tick'[q] = tick[q]
    BY <1>1, <1>2 DEF Goto
  <2> QED
    BY <1>0, <1>2, <2>1, FailedKeep
\* Reporting m is no failure.
<1>3. ASSUME NEW m, Report(m), m.type # "Failed"
      PROVE  /\ faults' \in Nat /\ faults <= faults'
             /\ \A r \in Request : Failed(r) \in Reported' => Failed(r) \in Reported
  BY <1>1, <1>3 DEF Report, Deliver, Lose, Reported, Failed
<1>4. ASSUME NEW p \in Watcher, Quiet(p) PROVE FailedInv'
  <2>1. \A r \in Request : Failed(r) \in Reported' => Failed(r) \in Reported
    BY <1>4 DEF Quiet, Failed
  <2> QED
    BY <1>0, <1>4, <2>1, FailedKeep DEF Quiet
<1>5. ASSUME NEW p \in Watcher, GivesUp(p) PROVE FailedInv'
  BY <1>1, <1>2, <1>5 DEF GivesUp, Reported
<1>6. ASSUME NEW p \in Watcher, NEW h \in Hash, Submits(p, h) PROVE FailedInv'
  <2>0. UNCHANGED <<rows, inserts, faults, Reported>>
    BY <1>6 DEF Submits, Reported
  <2>1. /\ tick[p].step = "sendSubmit"
        /\ \A q \in Watcher : q # p => tick'[q] = tick[q]
    BY <1>1, <1>6 DEF Submits, Goto
  <2>2. PICK r0 \in Request : r0 = tick[p].id /\ rows[r0] # Null /\ rows[r0].wallet = WalletOf[p]
    BY <1>1, <2>1 DEF TickShape, HoldStep, SubmitStep, Lane
  <2>3. ASSUME NEW q \in Watcher, tick[q].step = "deleteFailed" PROVE tick[q].id # r0
    <3>1. rows[tick[q].id].wallet = WalletOf[q] /\ q # p
      BY <1>1, <2>1, <2>3 DEF Lane
    <3> QED
      BY <2>2, <3>1 DEF OneWatcherPerWallet
  <2>4. ~ (Failed(r0) \in Reported /\ inserts[r0] = 1 /\ faults = 0)
    BY <2>2, <2>3 DEF FailedInv, FailedGone
  <2>5. \A r \in Request : r # r0 => Slots(r)' = Slots(r)
    <3>1. tick[p].row.nonce \in Nonce
      BY <1>1, <2>1 DEF TickShape, HoldStep, SubmitStep, Row
    <3>2. TxOf(tick[p], WalletOf[p]) \in Tx
      BY <2>2, <3>1 DEF TxOf, Tx
    <3>3. PICK x \in Tx : x = TxOf(tick[p], WalletOf[p])
      BY <3>2
    <3>4. x.req = r0 /\ tx[h] = Null /\ tx' = [tx EXCEPT ![h] = x]
      BY <1>0, <1>6, <2>2, <3>3 DEF Submits, SingleInv, SlotInv, SlotCore, SentSigned, Accepted, TxOf
    <3>5. \A r \in Request : r # x.req => Slots(r)' = Slots(r)
      BY <1>1, <3>4, Sending
    <3> QED
      BY <3>4, <3>5
  <2>6. FailedNotSent'
    BY <2>0, <2>4, <2>5 DEF FailedInv, FailedNotSent
  <2>7. FailedGone'
    BY <2>0, <2>1 DEF FailedInv, FailedGone
  <2> QED
    BY <1>0, <2>6, <2>7 DEF FailedInv
<1>7. ASSUME NEW p \in Watcher, PublishMined(p) PROVE FailedInv'
  <2>1. Mined(tick[p].id, tick[p].row.hash).type # "Failed"
    BY DEF Mined
  <2> QED
    BY <1>2, <1>3, <1>7, <2>1 DEF PublishMined, storeVars, nodeVars
<1>8. ASSUME NEW p \in Watcher, RecordSubmit(p) PROVE FailedInv'
  <2>1. \A r \in Request : rows'[r] # Null => rows[r] # Null
    BY <1>1, <1>8 DEF RecordSubmit, Update
  <2> QED
    BY <1>1, <1>2, <1>8, <2>1 DEF RecordSubmit, Update, nodeVars, statusVars, Reported
<1>9. ASSUME NEW p \in Watcher, PublishSubmitted(p) PROVE FailedInv'
  <2>1. PICK m : Report(m) /\ m.type = "Submitted"
    BY <1>9 DEF PublishSubmitted, Submitted
  <2>2. /\ faults' \in Nat /\ faults <= faults'
        /\ \A r \in Request : Failed(r) \in Reported' => Failed(r) \in Reported
    BY <2>1, <1>3
  <2>3. Goto(p, "submitted", Idle) /\ UNCHANGED <<tx, inserts, rows>>
    BY <1>9 DEF PublishSubmitted, storeVars, nodeVars
  <2>4. tick[p].step = "submitted" /\ \A q \in Watcher : q # p => tick'[q] = tick[q]
    BY <1>1, <2>3 DEF Goto
  <2> QED
    BY <1>0, <2>2, <2>3, <2>4, FailedKeep
<1>10. ASSUME NEW p \in Watcher, PublishFailed(p) PROVE FailedInv'
  <2>1. /\ tick[p].step = "failed" /\ tick'[p].step = "deleteFailed" /\ tick'[p].id = tick[p].id
        /\ \A q \in Watcher : q # p => tick'[q] = tick[q]
    BY <1>1, <1>10 DEF PublishFailed, Goto, Tick
  <2>2. /\ UNCHANGED <<rows, inserts, tx>> /\ faults' \in Nat /\ faults <= faults'
        /\ Reported' = Reported \union {Failed(tick[p].id)}
    BY <1>1, <1>10 DEF PublishFailed, Report, Deliver, Lose, Reported, storeVars, nodeVars
  <2>3. PICK r0 \in Request : /\ r0 = tick[p].id /\ rows[r0] # Null
                              /\ rows[r0].wallet = WalletOf[p] /\ rows[r0].submitted = Null
    <3>1. TickShape(tick[p]) /\ Lane(p, tick[p])
      BY <1>1
    <3>2. /\ tick[p].id \in Request /\ rows[tick[p].id] # Null
          /\ rows[tick[p].id].wallet = WalletOf[p]
      BY <2>1, <3>1 DEF TickShape, HoldStep, Lane
    <3>3. rows[tick[p].id].submitted = Null
      BY <1>0, <2>1 DEF SingleInv, Unboosted
    <3> QED
      BY <3>2, <3>3
  <2>4. ASSUME NEW q \in Watcher, tick[q].step = "recordSubmit" PROVE tick[q].id # r0
    <3>1. rows[tick[q].id].wallet = WalletOf[q] /\ q # p
      BY <1>1, <2>1, <2>4 DEF Lane, SubmitStep
    <3> QED
      BY <2>3, <3>1 DEF OneWatcherPerWallet
  <2>5. Unsent(r0)
    BY <2>3, <2>4 DEF Unsent
  <2>6. ASSUME inserts[r0] = 1, faults = 0 PROVE Slots(r0) = {}
    <3>1. Cardinality(Slots(r0)) + 1 <= 1 + 0 /\ Cardinality(Slots(r0)) \in Nat
      BY <1>0, <2>5, <2>6, SlotsFinite DEF SingleInv, SlotInv, SlotCore, Credits
    <3> QED
      BY <3>1, SlotsFinite, FS_EmptySet
  <2>7. \A r \in Request : Slots(r)' = Slots(r)
    BY <2>2 DEF Slots, Accepted
  <2>8. \A r \in Request : Failed(r) \in Reported' => Failed(r) \in Reported \/ r = r0
    BY <2>2, <2>3 DEF Failed
  <2>9. faults' = 0 => faults = 0
    BY <1>1, <2>2
  <2>10. FailedNotSent'
    BY <2>2, <2>6, <2>7, <2>8, <2>9 DEF FailedInv, FailedNotSent
  <2>11. FailedGone'
    BY <2>1, <2>2, <2>3, <2>8, <2>9 DEF FailedInv, FailedGone
  <2> QED
    BY <1>0, <2>10, <2>11 DEF FailedInv
<1>11. ASSUME NEW p \in Watcher, DeleteFailed(p) PROVE FailedInv'
  <2>1. /\ \A r \in Request : rows'[r] # Null => rows[r] # Null
        /\ rows'[tick[p].id] = Null
    <3>1. tick[p].id \in Request
      BY <1>1, <1>11 DEF DeleteFailed, Goto, TickShape, HoldStep
    <3> QED
      BY <1>1, <1>11, <3>1 DEF DeleteFailed, Delete
  <2> QED
    BY <1>1, <1>2, <1>11, <2>1 DEF DeleteFailed, Delete, nodeVars, statusVars, Reported
<1>12. ASSUME NEW p \in Watcher, Abort(p) PROVE FailedInv'
  <2>1. Goto(p, tick[p].step, Idle)
    BY <1>12 DEF Abort, Goto
  <2> QED
    BY <1>1, <1>2, <1>12, <2>1 DEF Abort, storeVars, nodeVars, statusVars, Reported
<1>13. ASSUME NEW r \in Request, NEW w \in Wallet, Arrive(r, w) PROVE FailedInv'
  <2>1. /\ UNCHANGED <<tx, tick, faults, Reported>>
        /\ \/ rows' = rows /\ inserts' = inserts
           \/ /\ rows[r] = Null /\ rows' = [rows EXCEPT ![r] = NewRow(w)]
              /\ inserts' = [inserts EXCEPT ![r] = @ + 1]
    BY <1>13, <1>1 DEF Arrive, Upsert, OnConflict, storeVars, localVars, nodeVars, statusVars,
                       Reported
  <2>2. \A s \in Request : Slots(s)' = Slots(s)
    BY <2>1 DEF Slots, Accepted
  <2>3. \A s \in Request : /\ inserts'[s] \in Nat
                           /\ inserts[s] # 0 => inserts'[s] # 0
                           /\ inserts'[s] = 1 /\ inserts[s] # 0 => inserts[s] = 1 /\ rows'[s] = rows[s]
                           /\ rows'[s] # Null /\ rows[s] = Null => inserts'[s] # 0
    BY <1>1, <2>1
  <2>4. FailedGone'
    BY <2>1, <2>3 DEF FailedInv, FailedGone
  <2>5. FailedNotSent'
    BY <2>1, <2>2, <2>3 DEF FailedInv, FailedGone, FailedNotSent
  <2> QED
    BY <1>0, <2>4, <2>5 DEF FailedInv
<1>14. CASE ChainStep \/ UNCHANGED vars
  <2>1. UNCHANGED <<tx, tick, faults, rows, inserts, Reported>>
    BY <1>14 DEF ChainStep, Chain, MineBlock, ConfirmBlock, SlowBlock, Reorg,
                vars, storeVars, nodeVars, localVars, statusVars, Reported
  <2>2. \A s \in Request : Slots(s)' = Slots(s)
    BY <2>1 DEF Slots, Accepted
  <2> QED
    BY <1>0, <2>1, <2>2 DEF FailedInv, FailedGone, FailedNotSent
<1>15. ASSUME NEW p \in Watcher, Step(p) PROVE FailedInv'
  <2>1. TypeInv /\ tick[p].step \notin BoostStep
    BY <1>0 DEF SingleInv, SlotInv, SlotCore, Unboosted
  <2> QED
    BY <2>1, <1>0, <1>15, <1>4, <1>5, <1>6, <1>7, <1>8, <1>9, <1>10, <1>11, QuietStep
<1> QED
  BY <1>12, <1>13, <1>14, <1>15 DEF Next

\* With one watcher per wallet and no boosts, a request inserted once that was
\* reported Failed is gone from the table or about to be deleted
\* (loop.go:395-404) as long as no call has failed: it is never picked again.
THEOREM FailedInvariant ==
    ASSUME DisableBoosting, OneWatcherPerWallet PROVE Spec => []FailedInv
<1>1. Init => FailedInv
  <2> SUFFICES ASSUME Init PROVE FailedInv
    OBVIOUS
  <2>1. Reported = {} /\ \A r \in Request : rows[r] = Null
    BY DEF Init, StatusInit, StoreInit, Reported
  <2> QED
    BY <2>1, SingleInit DEF FailedInv, FailedGone, FailedNotSent
<1>2. FailedInv /\ [Next]_vars => FailedInv'
  BY FailedNext
<1> QED
  BY <1>1, <1>2, PTL DEF Spec

\* With one watcher per wallet and no boosts, a request that was inserted once
\* and reported Failed (loop.go:395) has been sent under no nonce, as long as
\* no call has failed.
THEOREM FailedWasNotSent ==
    ASSUME DisableBoosting, OneWatcherPerWallet PROVE Spec => []FailedNotSent
<1>1. FailedInv => FailedNotSent
  BY DEF FailedInv
<1> QED
  BY <1>1, FailedInvariant, PTL

-----------------------------------------------------------------------------
(* What is announced Submitted.                                            *)

LEMMA SilentFinite ==
    IsFiniteSet(Hash) /\ IsFiniteSet(Silent) /\ IsFiniteSet(Silent') /\ Silent' \subseteq Hash
<1>1. IsFiniteSet(Hash)
  BY FS_Interval, MetaTransactionsAssumption DEF Hash
<1>2. Silent \in SUBSET Hash /\ Silent' \in SUBSET Hash
  BY DEF Silent, Accepted
<1> QED
  BY <1>1, <1>2, FS_Subset

\* The invariant holds after a step that sends nothing, announces what it
\* stops to carry, and reports Mined what was announced.
LEMMA AnnounceKeep ==
    ASSUME AnnounceInv, SingleInv', tx' = tx, faults \in Nat, faults' \in Nat, faults <= faults',
           Reported \subseteq Reported',
           \A q \in Watcher, h \in Hash : Announces(tick[q], h) =>
                Announces(tick'[q], h) \/ Submitted(tx[h].req, h) \in Reported',
           \A q \in Watcher, h \in Hash : Announces(tick'[q], h) => Announces(tick[q], h),
           \A r \in Request, h \in Hash : Mined(r, h) \in Reported' =>
                \/ Mined(r, h) \in Reported
                \/ /\ h \in Accepted /\ tx[h].req = r
                   /\ \A q \in Watcher : ~ Announces(tick[q], h)
    PROVE  AnnounceInv'
<1>1. Accepted' = Accepted /\ Accepted \subseteq Hash
  BY DEF Accepted
<1>2. MinedLater'
  BY <1>1 DEF AnnounceInv, MinedLater
<1>3. Silent' \in SUBSET Silent
  BY <1>1 DEF Silent
<1>4. Cardinality(Silent') <= Cardinality(Silent)
  BY <1>3, SilentFinite, FS_Subset
<1>5. Cardinality(Silent') \in Nat /\ Cardinality(Silent) \in Nat
  BY SilentFinite, FS_CardinalityType
<1>6. (Cardinality(Silent) <= faults)'
  BY <1>4, <1>5 DEF AnnounceInv
<1> QED
  BY <1>2, <1>6 DEF AnnounceInv

\* Every step of the system preserves the invariant.
LEMMA AnnounceNext ==
    ASSUME DisableBoosting, OneWatcherPerWallet, AnnounceInv, [Next]_vars
    PROVE  AnnounceInv'
<1>0. SingleInv' /\ OneActiveInv' /\ SingleInv
  BY SingleNext DEF AnnounceInv, SingleInv, SlotInv, SlotCore
<1>1. /\ tick \in [Watcher -> Tick] /\ NodeTypeOK /\ faults \in Nat
      /\ \A q \in Watcher : TickShape(tick[q]) /\ Lane(q, tick[q]) /\ SlotTick(q, tick[q])
  BY <1>0 DEF SingleInv, SlotInv, SlotCore, OneActiveInv, TypeInv, TypeOK, Shapes, Lanes, SlotTicks
\* A step of p that neither starts nor stops carrying a transaction.
<1>2. ASSUME NEW p \in Watcher, tx' = tx, faults' \in Nat, faults <= faults',
             Reported \subseteq Reported',
             \A q \in Watcher : q # p => tick'[q] = tick[q],
             \A h \in Hash : Announces(tick[p], h) <=> Announces(tick'[p], h),
             \A r \in Request, h \in Hash : Mined(r, h) \in Reported' =>
                \/ Mined(r, h) \in Reported
                \/ /\ h \in Accepted /\ tx[h].req = r
                   /\ \A q \in Watcher : ~ Announces(tick[q], h)
      PROVE  AnnounceInv'
  BY <1>0, <1>1, <1>2, AnnounceKeep
\* Reporting m.
<1>3. ASSUME NEW m, Report(m)
      PROVE  Reported' = Reported \union {m} /\ faults' \in Nat /\ faults <= faults'
  BY <1>1, <1>3 DEF Report, Deliver, Lose, Reported
<1>4. ASSUME NEW p \in Watcher, Quiet(p) PROVE AnnounceInv'
  <2>1. \A r \in Request, h \in Hash : Mined(r, h) \in Reported' => Mined(r, h) \in Reported
    BY <1>4 DEF Quiet, Mined
  <2>2. \A h \in Hash : Announces(tick[p], h) <=> Announces(tick'[p], h)
    BY <1>4 DEF Quiet, Announces
  <2> QED
    BY <1>2, <1>4, <2>1, <2>2 DEF Quiet
<1>5. ASSUME NEW p \in Watcher, NEW from, NEW u, Goto(p, from, u), UNCHANGED <<tx, Reported>>,
             faults' \in Nat, faults <= faults',
             \A h \in Hash : Announces(tick[p], h) <=> Announces(u, h)
      PROVE  AnnounceInv'
  <2>1. tick'[p] = u /\ \A q \in Watcher : q # p => tick'[q] = tick[q]
    BY <1>1, <1>5 DEF Goto
  <2> QED
    BY <1>2, <1>5, <2>1
<1>6. ASSUME NEW p \in Watcher, GivesUp(p) PROVE AnnounceInv'
  <2> DEFINE u == [tick[p] EXCEPT !.step = "failed"]
  <2>1. Goto(p, "prepareSubmit", u) /\ u.step = "failed" /\ UNCHANGED <<tx, Reported, faults>>
    BY <1>1, <1>6 DEF GivesUp, Tick, Reported
  <2> HIDE DEF u
  <2>2. \A h \in Hash : Announces(tick[p], h) <=> Announces(u, h)
    BY <2>1 DEF Announces, Goto
  <2> QED
    BY <1>1, <1>5, <2>1, <2>2
<1>7. ASSUME NEW p \in Watcher, NEW h \in Hash, Submits(p, h) PROVE AnnounceInv'
  <2> DEFINE t == tick[p]
             u == [t EXCEPT !.step = "recordSubmit", !.row.hash = h]
  <2>1. Goto(p, "sendSubmit", u) /\ UNCHANGED <<faults, Reported>>
    BY <1>1, <1>7 DEF Submits, Reported
  <2>2. t.step = "sendSubmit" /\ tick'[p] = u /\ \A q \in Watcher : q # p => tick'[q] = tick[q]
    BY <1>1, <2>1 DEF Goto
  <2>3. t \in Tick /\ t.id \in Request /\ t.row \in Row /\ t.row.nonce # Null
    BY <1>1, <2>2 DEF TickShape, HoldStep, SubmitStep
  <2>4. Announces(u, h) /\ \A g \in Hash : Announces(u, g) => g = h
    BY <2>3 DEF Tick, Row, Announces
  <2>5. PICK x \in Tx : x = TxOf(t, WalletOf[p])
    BY <2>3 DEF TxOf, Tx, Row
  <2>6. tx[h] = Null /\ tx' = [tx EXCEPT ![h] = x]
    BY <1>0, <1>7, <2>5 DEF Submits, SingleInv, SlotInv, SlotCore, SentSigned, Accepted
  <2> HIDE DEF t, u
  <2>7. /\ Accepted' = Accepted \union {h} /\ h \notin Accepted
        /\ \A g \in Accepted : g \in Hash /\ tx'[g] = tx[g]
    BY <1>1, <2>6, Sending
  <2>8. MinedLater'
    BY <2>1, <2>2, <2>4, <2>7 DEF AnnounceInv, MinedLater
  <2>9. \A g \in Hash : ~ Announces(t, g)
    BY <2>2 DEF Announces
  <2>10. Silent' \in SUBSET Silent
    BY <2>1, <2>2, <2>4, <2>7, <2>9 DEF Silent, t
  <2>11. Cardinality(Silent') <= Cardinality(Silent)
    BY <2>10, SilentFinite, FS_Subset
  <2>12. Cardinality(Silent') \in Nat /\ Cardinality(Silent) \in Nat
    BY SilentFinite, FS_CardinalityType
  <2>13. (Cardinality(Silent) <= faults)'
    BY <1>1, <2>1, <2>11, <2>12 DEF AnnounceInv
  <2> QED
    BY <1>0, <2>8, <2>13 DEF AnnounceInv
<1>8. ASSUME NEW p \in Watcher, PublishMined(p) PROVE AnnounceInv'
  <2> DEFINE t == tick[p]
             u == [t EXCEPT !.step = "recordMined"]
  <2>1. Goto(p, "mined", u) /\ u.step = "recordMined" /\ Report(Mined(t.id, t.row.hash)) /\ tx' = tx
    BY <1>1, <1>8 DEF PublishMined, Tick, nodeVars
  <2>2. t.step = "mined" /\ tick'[p] = u /\ \A q \in Watcher : q # p => tick'[q] = tick[q]
    BY <1>1, <2>1 DEF Goto
  <2>3. t.id \in Request /\ t.row.hash # Null /\ t.id \in Active(WalletOf[p]) /\ rows[t.id] = t.row
    BY <1>1, <2>2 DEF TickShape, RowShape, ActiveStep, Lane, Active, RowsOf, Row
  <2>4. WalletOf[p] \in Wallet
    BY TickerAssumption
  <2>5. /\ t.row.hash \in Accepted /\ tx[t.row.hash].req = t.id
        /\ tx[t.row.hash].wallet = WalletOf[p]
    <3>1. /\ t.row.hash \in Accepted
          /\ tx[t.row.hash] = [req |-> t.id, wallet |-> WalletOf[p], nonce |-> t.row.nonce]
      BY <1>0, <2>3, <2>4 DEF SingleInv, RowTxs
    <3> QED
      BY <3>1
  <2>6. ASSUME NEW q \in Watcher PROVE ~ Announces(tick[q], t.row.hash)
    <3> SUFFICES ASSUME Announces(tick[q], t.row.hash) PROVE FALSE
      OBVIOUS
    <3>1. tx[t.row.hash].wallet = WalletOf[q]
      <4>1. tx[t.row.hash] = TxOf(tick[q], WalletOf[q])
        BY <1>1 DEF SlotTick, Announces
      <4> QED
        BY <4>1 DEF TxOf
    <3>2. q = p
      BY <2>5, <3>1 DEF OneWatcherPerWallet
    <3> QED
      BY <2>2, <3>2 DEF Announces
  <2>7. \A h \in Hash : Announces(tick[p], h) <=> Announces(tick'[p], h)
    BY <2>1, <2>2 DEF Announces
  <2>8. /\ Reported' = Reported \union {Mined(t.id, t.row.hash)}
        /\ faults' \in Nat /\ faults <= faults'
    BY <1>3, <2>1
  <2>9. ASSUME NEW r \in Request, NEW h \in Hash, Mined(r, h) \in Reported'
        PROVE  \/ Mined(r, h) \in Reported
               \/ /\ h \in Accepted /\ tx[h].req = r
                  /\ \A q \in Watcher : ~ Announces(tick[q], h)
    <3>1. CASE Mined(r, h) = Mined(t.id, t.row.hash)
      <4>1. r = t.id /\ h = t.row.hash
        BY <3>1 DEF Mined
      <4> QED
        BY <2>5, <2>6, <4>1
    <3> QED
      BY <2>8, <2>9, <3>1
  <2> HIDE DEF t, u
  <2> QED
    BY <1>2, <2>1, <2>2, <2>7, <2>8, <2>9
<1>9. ASSUME NEW p \in Watcher, RecordSubmit(p) PROVE AnnounceInv'
  <2> DEFINE u == [tick[p] EXCEPT !.step = "submitted"]
  <2>1. /\ Goto(p, "recordSubmit", u) /\ u.step = "submitted" /\ u.row = tick[p].row
        /\ UNCHANGED <<tx, Reported, faults>>
    BY <1>1, <1>9 DEF RecordSubmit, Tick, Reported, nodeVars, statusVars
  <2> HIDE DEF u
  <2>2. \A h \in Hash : Announces(tick[p], h) <=> Announces(u, h)
    BY <2>1 DEF Announces, Goto
  <2> QED
    BY <1>1, <1>5, <2>1, <2>2
<1>10. ASSUME NEW p \in Watcher, PublishSubmitted(p) PROVE AnnounceInv'
  <2>1. /\ tick[p].step = "submitted" /\ tick'[p] = Idle /\ tx' = tx
        /\ \A q \in Watcher : q # p => tick'[q] = tick[q]
        /\ Report(Submitted(tick[p].id, tick[p].row.hash))
    BY <1>1, <1>10 DEF PublishSubmitted, Goto, nodeVars
  <2>2. /\ Reported' = Reported \union {Submitted(tick[p].id, tick[p].row.hash)}
        /\ faults' \in Nat /\ faults <= faults'
    BY <1>3, <2>1
  <2>3. tx[tick[p].row.hash].req = tick[p].id
    <3>1. tx[tick[p].row.hash] = TxOf(tick[p], WalletOf[p])
      BY <1>1, <2>1 DEF SlotTick
    <3> QED
      BY <3>1 DEF TxOf
  <2>4. \A q \in Watcher, h \in Hash : Announces(tick[q], h) =>
            Announces(tick'[q], h) \/ Submitted(tx[h].req, h) \in Reported'
    BY <2>1, <2>2, <2>3 DEF Announces
  <2>5. \A q \in Watcher, h \in Hash : Announces(tick'[q], h) => Announces(tick[q], h)
    BY <2>1 DEF Announces, Idle, At
  <2>6. \A r \in Request, h \in Hash : Mined(r, h) \in Reported' => Mined(r, h) \in Reported
    BY <2>2 DEF Mined, Submitted
  <2> QED
    BY <1>0, <1>1, <2>1, <2>2, <2>4, <2>5, <2>6, AnnounceKeep
<1>11. ASSUME NEW p \in Watcher, PublishFailed(p) PROVE AnnounceInv'
  <2> DEFINE u == [tick[p] EXCEPT !.step = "deleteFailed"]
  <2>1. Goto(p, "failed", u) /\ u.step = "deleteFailed" /\ Report(Failed(tick[p].id)) /\ tx' = tx
    BY <1>1, <1>11 DEF PublishFailed, Tick, nodeVars
  <2>2. /\ tick[p].step = "failed" /\ tick'[p] = u
        /\ \A q \in Watcher : q # p => tick'[q] = tick[q]
    BY <1>1, <2>1 DEF Goto
  <2>3. \A h \in Hash : Announces(tick[p], h) <=> Announces(tick'[p], h)
    BY <2>1, <2>2 DEF Announces
  <2>4. Reported' = Reported \union {Failed(tick[p].id)} /\ faults' \in Nat /\ faults <= faults'
    BY <1>3, <2>1
  <2>5. \A r \in Request, h \in Hash : Mined(r, h) \in Reported' => Mined(r, h) \in Reported
    BY <2>4 DEF Mined, Failed
  <2> HIDE DEF u
  <2> QED
    BY <1>2, <2>1, <2>2, <2>3, <2>4, <2>5
<1>12. ASSUME NEW p \in Watcher, DeleteFailed(p) PROVE AnnounceInv'
  <2>1. Goto(p, "deleteFailed", Idle) /\ UNCHANGED <<tx, Reported, faults>>
    BY <1>12 DEF DeleteFailed, Reported, nodeVars, statusVars
  <2>2. \A h \in Hash : Announces(tick[p], h) <=> Announces(Idle, h)
    BY <2>1 DEF Announces, Goto, Idle, At
  <2> QED
    BY <1>1, <1>5, <2>1, <2>2
\* A fault silences the transaction p carries, if any.
<1>13. ASSUME NEW p \in Watcher, Abort(p) PROVE AnnounceInv'
  <2> DEFINE g == tick[p].row.hash
  <2>1. /\ tick'[p] = Idle /\ faults' = faults + 1 /\ UNCHANGED <<tx, Reported>>
        /\ \A q \in Watcher : q # p => tick'[q] = tick[q]
    BY <1>1, <1>13 DEF Abort, Reported, nodeVars, statusVars
  <2>2. Accepted' = Accepted
    BY <2>1 DEF Accepted
  <2>3. \A h \in Hash : ~ Announces(Idle, h)
    BY DEF Announces, Idle, At
  <2>4. MinedLater'
    BY <2>1, <2>2, <2>3 DEF AnnounceInv, MinedLater
  <2>5. \A h : h # g => ~ Announces(tick[p], h)
    BY DEF Announces
  <2> HIDE DEF g
  <2>6. Silent' \subseteq Silent \union {g}
    BY <2>1, <2>2, <2>5 DEF Silent
  <2>7. /\ IsFiniteSet(Silent \union {g})
        /\ Cardinality(Silent \union {g}) = IF g \in Silent THEN Cardinality(Silent)
                                            ELSE Cardinality(Silent) + 1
    BY SilentFinite, FS_AddElement
  <2>8. Cardinality(Silent') <= Cardinality(Silent \union {g})
    BY <2>6, <2>7, FS_Subset
  <2>9. Cardinality(Silent') \in Nat /\ Cardinality(Silent) \in Nat
    BY SilentFinite, FS_CardinalityType
  <2>10. (Cardinality(Silent) <= faults)'
    BY <1>1, <2>1, <2>7, <2>8, <2>9 DEF AnnounceInv
  <2> QED
    BY <1>0, <2>4, <2>10 DEF AnnounceInv
<1>14. ASSUME UNCHANGED <<tx, tick, faults, Reported>> PROVE AnnounceInv'
  BY <1>0, <1>1, <1>14, AnnounceKeep
<1>15. ASSUME NEW r \in Request, NEW w \in Wallet, Arrive(r, w) PROVE AnnounceInv'
  BY <1>14, <1>15 DEF Arrive, localVars, nodeVars, statusVars, Reported
<1>16. CASE ChainStep \/ UNCHANGED vars
  BY <1>14, <1>16 DEF ChainStep, Chain, MineBlock, ConfirmBlock, SlowBlock, Reorg,
                      vars, storeVars, nodeVars, localVars, statusVars, Reported
<1>17. ASSUME NEW p \in Watcher, Step(p) PROVE AnnounceInv'
  <2>1. TypeInv /\ tick[p].step \notin BoostStep
    BY <1>0 DEF SingleInv, SlotInv, SlotCore, Unboosted
  <2> QED
    BY <2>1, <1>0, <1>17, <1>4, <1>6, <1>7, <1>8, <1>9, <1>10, <1>11, <1>12, QuietStep
<1> QED
  BY <1>13, <1>15, <1>16, <1>17 DEF Next

\* With one watcher per wallet and no boosts, a transaction is reported Mined
\* for the request it executes and after the tick that sent it has ended
\* (loop.go:264, 453), and each one that stays unannounced had a fault.
THEOREM AnnounceInvariant ==
    ASSUME DisableBoosting, OneWatcherPerWallet PROVE Spec => []AnnounceInv
<1>1. Init => AnnounceInv
  <2> SUFFICES ASSUME Init PROVE AnnounceInv
    OBVIOUS
  <2>1. Reported = {} /\ Accepted = {} /\ faults = 0
    BY DEF Init, StatusInit, NodeInit, Reported, Accepted
  <2>2. Silent = {}
    BY <2>1 DEF Silent
  <2>3. Cardinality(Silent) <= faults
    BY <2>1, <2>2, FS_EmptySet
  <2> QED
    BY <2>1, <2>3, SingleInit DEF AnnounceInv, MinedLater
<1>2. AnnounceInv /\ [Next]_vars => AnnounceInv'
  BY AnnounceNext
<1> QED
  BY <1>1, <1>2, PTL DEF Spec

\* With one watcher per wallet and no boosts, each transaction that clients
\* hear of as Mined and not as Submitted is due to a fault of its own between
\* SendTransaction and the Submitted event (loop.go:430-453).
THEOREM AnnouncedBeforeMined ==
    ASSUME DisableBoosting, OneWatcherPerWallet PROVE Spec => []UnannouncedBounded
<1>1. AnnounceInv => UnannouncedBounded
  <2> SUFFICES ASSUME AnnounceInv PROVE UnannouncedBounded
    OBVIOUS
  <2>1. Unannounced \in SUBSET Silent
    BY DEF AnnounceInv, MinedLater, Unannounced, Silent
  <2>2. Cardinality(Unannounced) <= Cardinality(Silent) /\ IsFiniteSet(Unannounced)
    BY <2>1, SilentFinite, FS_Subset
  <2>3. Cardinality(Unannounced) \in Nat /\ Cardinality(Silent) \in Nat /\ faults \in Nat
    BY <2>2, SilentFinite, FS_CardinalityType
       DEF AnnounceInv, SingleInv, SlotInv, SlotCore, OneActiveInv, TypeInv, TypeOK
  <2> QED
    BY <2>2, <2>3 DEF AnnounceInv, UnannouncedBounded
<1> QED
  BY <1>1, AnnounceInvariant, PTL
=============================================================================
