--------------------------- MODULE ConsumerProofs ---------------------------
(***************************************************************************)
(* At-least-once intake of requests, for every log and any number of       *)
(* members, wallets and faults.                                            *)
(***************************************************************************)
EXTENDS Consumer, TLAPS

USE MetaTransactionsAssumption, ConsumerAssumption

\* The number of events is a natural number, and a valid event names a request.
LEMMA LogFacts ==
    /\ Len(Log) \in Nat
    /\ \A i \in 1 .. Len(Log) : /\ Log[i] \in Event
                                /\ Valid(Log[i]) => DecodedId(Log[i]) \in Request
<1>1. Len(Log) \in Nat /\ \A i \in 1 .. Len(Log) : Log[i] \in Event
  OBVIOUS
<1>2. \A e \in Event : Valid(e) => DecodedId(e) \in Request
  BY DEF Event, Valid, DecodedId
<1> QED
  BY <1>1, <1>2

\* The table stays well formed when a request is stored.
LEMMA UpsertType ==
    ASSUME StoreTypeOK, NEW r \in Request, NEW w \in Wallet, Upsert(r, w)
    PROVE  StoreTypeOK'
BY DEF Upsert, OnConflict, StoreTypeOK, NewRow, Row, storeVars

\* Every claim of a member satisfies the same conditions.
ClaimOK(cl) ==
    /\ cl \in Claim
    /\ cl.marked <= cl.pos
    /\ Covered(cl.pos)
    /\ cl.step \in {"save", "mark"} => cl.pos < Len(Log) /\ Valid(Log[cl.pos + 1])
    /\ cl.step = "mark" => cl.pos + 1 \in stored

\* The invariant holds after a step of c once its new claim and the table are
\* well formed, nothing stored is forgotten, and what is committed is covered.
LEMMA IntakeFrom ==
    ASSUME IntakeInv, NEW c \in Member, NEW cl, ClaimOK(cl),
           claim' = [claim EXCEPT ![c] = cl],
           StoreTypeOK', stored \subseteq stored', stored' \subseteq 1 .. Len(Log),
           \A i \in stored' : Storable(Log[i]),
           committed' \in Position, Covered(committed'),
           owner' \in Member \union {Null}, faults' \in Nat
    PROVE  IntakeInv'
<1>1. /\ claim \in [Member -> Claim]
      /\ cl \in Claim
      /\ \A d \in Member : ClaimOK(claim[d])
  BY DEF IntakeInv, TypeOK, ClaimOK
<1>2. \A n : Covered(n) => Covered(n)'
  BY DEF Covered
<1>3. \A d \in Member : ClaimOK(claim'[d])
  BY <1>1
<1>4. \A d \in Member : ClaimOK(claim[d])'
  BY <1>2, <1>3 DEF ClaimOK
<1>5. TypeOK'
  BY <1>1 DEF TypeOK
<1>6. Covered(committed)'
  BY DEF Covered
<1> QED
  BY <1>4, <1>5, <1>6 DEF IntakeInv, ClaimOK

\* Marking the event just handled covers one position more.
LEMMA MarkCovers ==
    ASSUME NEW cl, ClaimOK(cl), cl.pos < Len(Log),
           Valid(Log[cl.pos + 1]) => cl.pos + 1 \in stored
    PROVE  ClaimOK(MarkMessage(cl))
<1> DEFINE new == MarkMessage(cl)
<1>1. /\ cl \in Claim /\ cl.pos \in Nat /\ Len(Log) \in Nat
  BY LogFacts DEF ClaimOK, Claim, Position
<1>2. /\ new \in Claim /\ new.pos = cl.pos + 1 /\ new.marked = cl.pos + 1
      /\ new.step = "receive"
  <2>1. cl.pos + 1 \in Position
    BY <1>1 DEF Position
  <2> QED
    BY <1>1, <2>1 DEF MarkMessage, Claim
<1>3. Covered(cl.pos + 1)
  BY <1>1 DEF ClaimOK, Covered
<1>4. ClaimOK(new)
  <2> HIDE DEF new
  <2> QED
    BY <1>1, <1>2, <1>3 DEF ClaimOK
<1> QED
  BY <1>4

\* Every step of the consumer group preserves the invariant.
LEMMA IntakeNext ==
    ASSUME IntakeInv, [Next]_vars
    PROVE  IntakeInv'
<1>0. /\ StoreTypeOK /\ committed \in Position /\ Covered(committed)
      /\ owner \in Member \union {Null} /\ faults \in Nat
      /\ stored \subseteq 1 .. Len(Log) /\ Len(Log) \in Nat
      /\ \A i \in stored : Storable(Log[i])
      /\ \A d \in Member : ClaimOK(claim[d])
      /\ ClaimOK(Down)
  BY LogFacts DEF IntakeInv, TypeOK, ClaimOK, Down, Claim, Position, Covered
<1>1. ASSUME NEW c \in Member, Join(c) PROVE IntakeInv'
  <2> DEFINE cl == [step |-> "receive", pos |-> committed, marked |-> committed, live |-> TRUE]
  <2>1. ClaimOK(cl)
    BY <1>0 DEF ClaimOK, Claim, Position
  <2>2. faults' \in Nat
    BY <1>0, <1>1 DEF Join, Fault
  <2> QED
    BY <1>0, <1>1, <2>1, <2>2, IntakeFrom DEF Join, storeVars, StoreTypeOK
<1>2. ASSUME NEW c \in Member, EndSession(c) PROVE IntakeInv'
  <2> DEFINE cl == [claim[c] EXCEPT !.live = FALSE]
  <2>1. ClaimOK(cl) /\ claim' = [claim EXCEPT ![c] = cl]
    BY <1>0, <1>2 DEF EndSession, ClaimOK, Claim
  <2>2. faults' \in Nat
    BY <1>0, <1>2 DEF EndSession, Fault
  <2> QED
    BY <1>0, <1>2, <2>1, <2>2, IntakeFrom DEF EndSession, storeVars, StoreTypeOK
<1>3. ASSUME NEW c \in Member, AutoCommit(c) PROVE IntakeInv'
  <2>1. Covered(claim[c].marked) /\ claim[c].marked \in Position
    BY <1>0 DEF ClaimOK, Claim, Covered, Position
  <2> QED
    BY <1>0, <1>3, <2>1 DEF AutoCommit, IntakeInv, TypeOK, storeVars, StoreTypeOK, Covered
<1>4. ASSUME NEW c \in Member, Skip(c) PROVE IntakeInv'
  <2>1. ClaimOK(MarkMessage(claim[c]))
    BY <1>0, <1>4, MarkCovers DEF Skip
  <2> QED
    BY <1>0, <1>4, <2>1, IntakeFrom DEF Skip, storeVars, StoreTypeOK
<1>5. ASSUME NEW c \in Member, Receive(c) PROVE IntakeInv'
  <2> DEFINE cl == [claim[c] EXCEPT !.step = "save"]
  <2>1. ClaimOK(cl) /\ claim' = [claim EXCEPT ![c] = cl]
    BY <1>0, <1>5 DEF Receive, ClaimOK, Claim
  <2> QED
    BY <1>0, <1>5, <2>1, IntakeFrom DEF Receive, storeVars, StoreTypeOK
<1>6. ASSUME NEW c \in Member, claim[c].step = "save", Store(c)
      PROVE  /\ StoreTypeOK' /\ stored \subseteq stored' /\ stored' \subseteq 1 .. Len(Log)
             /\ claim[c].pos + 1 \in stored' /\ \A i \in stored' : Storable(Log[i])
  <2>1. claim[c].pos + 1 \in 1 .. Len(Log) /\ Valid(Log[claim[c].pos + 1])
    BY <1>0, <1>6 DEF ClaimOK, Claim, Position
  <2>2. DecodedId(Log[claim[c].pos + 1]) \in Request
    BY <2>1, LogFacts
  <2> QED
    BY <1>0, <1>6, <2>1, <2>2, UpsertType DEF Store
<1>7. ASSUME NEW c \in Member, Save(c) PROVE IntakeInv'
  <2> DEFINE cl == [claim[c] EXCEPT !.step = "mark"]
  <2>1. /\ StoreTypeOK' /\ stored' \subseteq 1 .. Len(Log) /\ stored' = stored \union {claim[c].pos + 1}
        /\ \A i \in stored' : Storable(Log[i])
    BY <1>6, <1>7 DEF Save, Store
  <2>2. /\ cl \in Claim /\ cl.pos = claim[c].pos /\ cl.marked = claim[c].marked
        /\ claim' = [claim EXCEPT ![c] = cl] /\ claim[c].step = "save"
    BY <1>0, <1>7 DEF Save, ClaimOK, Claim
  <2>3. TypeOK'
    BY <1>0, <1>7, <2>1, <2>2 DEF Save, TypeOK, IntakeInv
  <2>4. \A n : Covered(n) => Covered(n)'
    BY <2>1 DEF Covered
  <2>5. \A d \in Member : ClaimOK(claim[d])'
    BY <1>0, <2>1, <2>2, <2>4 DEF ClaimOK, IntakeInv, TypeOK
  <2>6. Covered(committed)'
    BY <1>0, <1>7, <2>4 DEF Save, Covered
  <2> QED
    BY <2>1, <2>3, <2>5, <2>6 DEF IntakeInv, ClaimOK
<1>8. ASSUME NEW c \in Member, SaveFails(c) PROVE IntakeInv'
  <2> DEFINE cl == [claim[c] EXCEPT !.step = "ended", !.live = FALSE]
  <2>1. ClaimOK(cl) /\ claim' = [claim EXCEPT ![c] = cl] /\ claim[c].step = "save"
    BY <1>0, <1>8 DEF SaveFails, ClaimOK, Claim
  <2>2. /\ StoreTypeOK' /\ stored \subseteq stored' /\ stored' \subseteq 1 .. Len(Log)
        /\ \A i \in stored' : Storable(Log[i])
    BY <1>0, <1>6, <1>8, <2>1 DEF SaveFails, storeVars, StoreTypeOK
  <2>3. faults' \in Nat
    BY <1>0, <1>8 DEF SaveFails, Failure, Fault
  <2> QED
    BY <1>0, <1>8, <2>1, <2>2, <2>3, IntakeFrom DEF SaveFails
<1>9. ASSUME NEW c \in Member, Mark(c) PROVE IntakeInv'
  <2>1. ClaimOK(MarkMessage(claim[c]))
    BY <1>0, <1>9, MarkCovers DEF Mark, ClaimOK
  <2> QED
    BY <1>0, <1>9, <2>1, IntakeFrom DEF Mark, storeVars, StoreTypeOK
<1>10. ASSUME NEW c \in Member, Leave(c) PROVE IntakeInv'
  <2>1. Covered(claim[c].marked) /\ claim[c].marked \in Position
    BY <1>0 DEF ClaimOK, Claim, Covered, Position
  <2>2. committed' \in Position /\ Covered(committed')
    BY <1>0, <1>10, <2>1 DEF Leave
  <2> QED
    BY <1>0, <1>10, <2>2, IntakeFrom DEF Leave, storeVars, StoreTypeOK
<1>11. ASSUME NEW c \in Member, NilMessage(c) PROVE IntakeInv'
  BY <1>0, <1>11, IntakeFrom DEF NilMessage, storeVars, StoreTypeOK
<1>12. ASSUME NEW c \in Member, Crash(c) PROVE IntakeInv'
  <2>1. faults' \in Nat
    BY <1>0, <1>12 DEF Crash, Fault
  <2> QED
    BY <1>0, <1>12, <2>1, IntakeFrom DEF Crash, storeVars, StoreTypeOK
<1>13. ASSUME NEW r \in Request, Finish(r) PROVE IntakeInv'
  BY <1>0, <1>13 DEF Finish, Delete, groupVars, IntakeInv, TypeOK, StoreTypeOK, Covered
<1>14. CASE UNCHANGED vars
  BY <1>14 DEF vars, storeVars, groupVars, IntakeInv, TypeOK, StoreTypeOK, Covered
<1> QED
  BY <1>1, <1>2, <1>3, <1>4, <1>5, <1>7, <1>8, <1>9, <1>10, <1>11, <1>12, <1>13, <1>14
     DEF Next, Handle

\* What any claim has handled, marked or not, has reached the table, zombies
\* of earlier sessions included (consumer.go:65-89).
THEOREM IntakeInvariant == Spec => []IntakeInv
<1>1. Init => IntakeInv
  BY LogFacts DEF Init, StoreInit, IntakeInv, TypeOK, StoreTypeOK, Down, Claim, Position, Covered
<1>2. IntakeInv /\ [Next]_vars => IntakeInv'
  BY IntakeNext
<1> QED
  BY <1>1, <1>2, PTL DEF Spec

\* Whatever the log and however sessions end, the group's committed position
\* never passes a valid request that did not reach the table: ConsumeClaim
\* marks an event only after Upsert (consumer.go:80-85).
THEOREM IntakeLosesNothing == Spec => []NothingLost
<1>1. IntakeInv => NothingLost
  BY DEF IntakeInv, NothingLost
<1> QED
  BY <1>1, IntakeInvariant, PTL

\* An event that Postgres always refuses is never committed, nor is any behind
\* it: Upsert fails on each delivery and ConsumeClaim returns without marking
\* it, so the partition is blocked for good (consumer.go:80-83).
THEOREM RefusedBlocks ==
    Spec => [](\A i \in 1 .. Len(Log) : Blocked(i) => committed < i)
<1>1. ASSUME IntakeInv, NEW i \in 1 .. Len(Log), Blocked(i) PROVE committed < i
  <2>1. PICK j \in 1 .. i : AtRefused(j - 1)
    BY <1>1 DEF Blocked
  <2>2. j \in 1 .. Len(Log) /\ j - 1 + 1 = j /\ ~ Storable(Log[j])
    BY <2>1, LogFacts DEF AtRefused
  <2>3. Log[j].key = "refused" /\ Log[j].req \in Request
    BY <2>2, LogFacts DEF Storable, Event
  <2>4. Valid(Log[j])
    BY <2>3 DEF Valid, DecodedId
  <2>5. j \notin stored /\ Covered(committed) /\ committed \in Nat
    BY <1>1, <2>2 DEF IntakeInv, TypeOK, Position
  <2>6. ~ (j <= committed)
    BY <2>2, <2>4, <2>5 DEF Covered
  <2> QED
    BY <2>2, <2>5, <2>6
<1>2. IntakeInv => \A i \in 1 .. Len(Log) : Blocked(i) => committed < i
  BY <1>1
<1> QED
  BY <1>2, IntakeInvariant, PTL

\* A request delivered again, by any member and after any end of a session,
\* never changes the row a watcher may be following (consumer.go:79-83).
THEOREM RedeliveryKeepsRows == Spec => RowsKept
<1> DEFINE Kept == \A r \in Request : rows[r] # Null /\ rows'[r] # Null => rows'[r] = rows[r]
<1>1. ASSUME IntakeInv, [Next]_vars PROVE Kept
  <2>0. rows \in [Request -> Row \union {Null}]
    BY <1>1 DEF IntakeInv, TypeOK, StoreTypeOK
  <2>1. CASE UNCHANGED rows
    BY <2>1
  <2>2. ASSUME NEW c \in Member, Store(c) PROVE Kept
    BY <2>0, <2>2 DEF Store, Upsert, OnConflict
  <2>3. ASSUME NEW r \in Request, Finish(r) PROVE Kept
    BY <2>0, <2>3 DEF Finish, Delete
  <2>4. ASSUME NEW c \in Member, Handle(c) PROVE Store(c) \/ UNCHANGED rows
    BY <2>4 DEF Handle, Skip, Receive, Save, SaveFails, Mark, Leave, NilMessage, storeVars
  <2>5. ASSUME NEW c \in Member, Join(c) \/ EndSession(c) \/ AutoCommit(c) \/ Crash(c)
        PROVE  UNCHANGED rows
    BY <2>5 DEF Join, EndSession, AutoCommit, Crash, storeVars
  <2>6. UNCHANGED vars => UNCHANGED rows
    BY DEF vars, storeVars
  <2> QED
    BY <1>1, <2>1, <2>2, <2>3, <2>4, <2>5, <2>6 DEF Next
<1>2. IntakeInv /\ [Next]_vars => [Kept]_vars
  BY <1>1
<1> QED
  BY <1>2, IntakeInvariant, PTL DEF Spec, RowsKept
=============================================================================
