-------------------------- MODULE ExecutionProofs ---------------------------
(***************************************************************************)
(* How often the process executes a request and what it tells clients,     *)
(* over shutdowns, crashes, restarts and replayed events, and in part over *)
(* clean-ups.                                                              *)
(***************************************************************************)
EXTENDS ServiceProofs, SlotProofs, LaneRefinementProofs

-----------------------------------------------------------------------------
(* Deliveries.                                                             *)

LEMMA AheadFinite ==
    ASSUME NEW r, NEW cl
    PROVE  /\ IsFiniteSet(Deliveries(r)) /\ Occurrences(r) \in Nat
           /\ IsFiniteSet(Ahead(cl, r)) /\ Cardinality(Ahead(cl, r)) \in Nat
           /\ Cardinality(Ahead(cl, r)) <= Occurrences(r)
           /\ Deliveries(r) # {} => Occurrences(r) # 0
<1>1. IsFiniteSet(1 .. Len(Log)) /\ DOMAIN Log = 1 .. Len(Log)
  BY LogAssumption, LogFacts, FS_Interval
<1>2. Deliveries(r) \in SUBSET (1 .. Len(Log))
  BY <1>1 DEF Deliveries
<1>3. IsFiniteSet(Deliveries(r))
  BY <1>1, <1>2, FS_Subset
<1>4. Ahead(cl, r) \in SUBSET Deliveries(r)
  BY DEF Ahead
<1> QED
  BY <1>3, <1>4, FS_Subset, FS_CardinalityType, FS_EmptySet DEF Occurrences

\* A session that has fewer deliveries ahead.
LEMMA AheadLess ==
    ASSUME NEW r, NEW cl, NEW dl, Ahead(dl, r) \subseteq Ahead(cl, r)
    PROVE  /\ Cardinality(Ahead(dl, r)) <= Cardinality(Ahead(cl, r))
           /\ \A i : i \in Ahead(cl, r) /\ i \notin Ahead(dl, r) =>
                Cardinality(Ahead(dl, r)) + 1 <= Cardinality(Ahead(cl, r))
<1>1. IsFiniteSet(Ahead(cl, r)) /\ Cardinality(Ahead(cl, r)) \in Nat
  BY AheadFinite
<1>2. Cardinality(Ahead(dl, r)) <= Cardinality(Ahead(cl, r))
  BY <1>1, FS_Subset
<1>3. ASSUME NEW i, i \in Ahead(cl, r), i \notin Ahead(dl, r)
      PROVE  Cardinality(Ahead(dl, r)) + 1 <= Cardinality(Ahead(cl, r))
  <2>1. /\ IsFiniteSet(Ahead(cl, r) \ {i})
        /\ Cardinality(Ahead(cl, r) \ {i}) = Cardinality(Ahead(cl, r)) - 1
    BY <1>1, <1>3, FS_RemoveElement
  <2>2. Ahead(dl, r) \subseteq Ahead(cl, r) \ {i}
    BY <1>3
  <2>3. Cardinality(Ahead(dl, r)) <= Cardinality(Ahead(cl, r) \ {i})
    BY <2>1, <2>2, FS_Subset
  <2>4. Cardinality(Ahead(dl, r)) \in Nat
    BY AheadFinite
  <2> QED
    BY <1>1, <2>1, <2>3, <2>4
<1> QED
  BY <1>2, <1>3

\* What comes to r in a state with claim cl, committed position n and phase ph.
Rest(cl, ph, r) ==
    Cardinality(Ahead(cl, r)) + (IF ph = "up" /\ ~ cl.live THEN Occurrences(r) ELSE 0)

Coming(cl, n, ph, r) == IF Stuck(cl, n) THEN 0 ELSE Rest(cl, ph, r)

LEMMA ComingFacts ==
    /\ \A r : ToCome(r) = Coming(claim[Proc], committed, phase, r)
    /\ \A r : ToCome(r)' = Coming(claim'[Proc], committed', phase', r)
    /\ \A cl, ph, r : Rest(cl, ph, r) \in Nat
    /\ \A cl, n, ph, r : Coming(cl, n, ph, r) \in Nat /\ Coming(cl, n, ph, r) <= Rest(cl, ph, r)
<1>1. \A cl, ph, r : Rest(cl, ph, r) \in Nat
  BY AheadFinite DEF Rest
<1>2. /\ \A r : ToCome(r) = Coming(claim[Proc], committed, phase, r)
      /\ \A r : ToCome(r)' = Coming(claim'[Proc], committed', phase', r)
  BY DEF ToCome, Coming, Rest, Ahead, Occurrences, Deliveries, Stuck, C!AtRefused
<1>3. \A cl, n, ph, r : Coming(cl, n, ph, r) \in Nat /\ Coming(cl, n, ph, r) <= Rest(cl, ph, r)
  BY <1>1 DEF Coming
<1> QED
  BY <1>1, <1>2, <1>3

\* What Postgres refuses passes the checks before, and is not stored.
LEMMA RefusedFacts ==
    ASSUME C!IntakeInv, NEW n \in Nat, C!AtRefused(n)
    PROVE  C!Valid(Log[n + 1]) /\ ~ C!Storable(Log[n + 1]) /\ n + 1 \notin stored
<1>1. n + 1 \in 1 .. Len(Log) /\ ~ C!Storable(Log[n + 1])
  BY LogFacts DEF C!AtRefused
<1>2. Log[n + 1] \in C!Event
  BY <1>1, LogAssumption
<1>3. C!Valid(Log[n + 1])
  BY <1>1, <1>2, MetaTransactionsAssumption DEF C!Event, C!Storable, C!Valid, C!DecodedId
<1>4. AllStorable(stored)
  BY IntakeParts
<1> QED
  BY <1>1, <1>3, <1>4 DEF AllStorable

\* The session of a claim, at a committed position n.
Holding(cl, own, n) ==
    cl.step # "down" => own = Proc /\ cl.marked = cl.pos /\ n <= cl.pos

\* A step of the consumer stores one of the deliveries that may come, and
\* only a fault lets the process join once more.
Receives(r) ==
    /\ faults' \in {faults, faults + 1}
    /\ rows[r] # Null => rows'[r] = rows[r]
    /\ \E ins \in {0, 1} :
         /\ ToCome(r)' + ins <= ToCome(r) + (IF faults' = faults THEN 0 ELSE Occurrences(r))
         /\ rows[r] = Null /\ rows'[r] # Null => ins = 1 /\ Deliveries(r) # {}

LEMMA SessionStep ==
    ASSUME C!IntakeInv, Sessions, Consume
    PROVE  Sessions' /\ \A r \in Request : Receives(r)
<1> DEFINE c == claim[Proc]
           d == claim'[Proc]
           n == c.pos + 1
<1>0. /\ claim \in [{Proc} -> C!Claim] /\ c \in C!Claim /\ c.pos \in Nat /\ faults \in Nat
      /\ ClaimOK(c, stored) /\ rows \in [Request -> Row \union {Null}]
  BY IntakeParts DEF StoreTypeOK, C!Claim, C!Position
<1>1. phase' = phase /\ phase # "down"
  BY DEF Consume, processVars
<1>01. Holding(c, owner, committed) /\ (c.step = "ended" => ~ c.live)
  BY DEF Sessions, Holding
\* The claim changes to dl and the table stays.
<1>a. ASSUME NEW dl, d = dl, dl.step = "ended" => ~ dl.live, rows' = rows,
             Holding(dl, owner', committed'), faults' \in {faults, faults + 1},
             \/ Stuck(dl, committed')
             \/ /\ ~ Stuck(c, committed)
                /\ \A r : Rest(dl, phase, r) <= Rest(c, phase, r) +
                        (IF faults' = faults THEN 0 ELSE Occurrences(r))
      PROVE  Sessions' /\ \A r \in Request : Receives(r)
  <2>1. Sessions'
    BY <1>1, <1>a DEF Sessions, Holding
  <2>2. ASSUME NEW r \in Request PROVE Receives(r)
    <3> DEFINE more == IF faults' = faults THEN 0 ELSE Occurrences(r)
    <3>1. /\ Coming(dl, committed', phase, r) \in Nat /\ Coming(c, committed, phase, r) \in Nat
          /\ Rest(dl, phase, r) \in Nat /\ Rest(c, phase, r) \in Nat /\ more \in Nat
      BY ComingFacts, AheadFinite
    <3>2. CASE Stuck(dl, committed')
      <4>1. Coming(dl, committed', phase, r) = 0
        BY <3>2 DEF Coming
      <4> QED
        <5> HIDE DEF more
        <5>1. ToCome(r)' + 0 <= ToCome(r) + more
          BY <1>1, <1>a, <3>1, <4>1, ComingFacts
        <5> QED
          BY <1>a, <5>1 DEF Receives, more
    <3>3. CASE ~ Stuck(dl, committed')
      <4>1. /\ Coming(dl, committed', phase, r) = Rest(dl, phase, r)
            /\ Coming(c, committed, phase, r) = Rest(c, phase, r)
            /\ Rest(dl, phase, r) <= Rest(c, phase, r) + more
        BY <1>a, <3>3 DEF Coming
      <4> HIDE DEF more
      <4>2. ToCome(r)' + 0 <= ToCome(r) + more
        BY <1>1, <1>a, <3>1, <4>1, ComingFacts
      <4> QED
        BY <1>a, <4>2 DEF Receives, more
    <3> QED
      BY <3>2, <3>3
  <2> QED
    BY <2>1, <2>2
\* ... in particular when less is ahead.
<1>b. ASSUME NEW dl, d = dl, dl.step = "ended" => ~ dl.live, rows' = rows, faults' = faults,
             Holding(dl, owner', committed'), Stuck(c, committed) => Stuck(dl, committed'),
             dl.live = c.live, \A r : Ahead(dl, r) \subseteq Ahead(c, r)
      PROVE  Sessions' /\ \A r \in Request : Receives(r)
  <2>1. ASSUME NEW r PROVE Rest(dl, phase, r) <= Rest(c, phase, r)
    <3>1. /\ Cardinality(Ahead(dl, r)) <= Cardinality(Ahead(c, r))
          /\ Cardinality(Ahead(dl, r)) \in Nat /\ Cardinality(Ahead(c, r)) \in Nat
          /\ Occurrences(r) \in Nat
      BY <1>b, AheadLess, AheadFinite
    <3> QED
      BY <1>b, <3>1 DEF Rest
  <2>2. \A r : Rest(dl, phase, r) \in Nat /\ Rest(c, phase, r) \in Nat
    BY ComingFacts
  <2> QED
    BY <1>b, <2>1, <2>2, <1>a
\* The event is stored.
<1>c. ASSUME C!Store(Proc), c.step = "save", NEW r \in Request
      PROVE  /\ rows[r] # Null => rows'[r] = rows[r]
             /\ rows[r] = Null /\ rows'[r] # Null => n \in Deliveries(r)
             /\ n \in Deliveries(r) => n \in Ahead(c, r)
  <2>1. /\ n \in 1 .. Len(Log) /\ C!Valid(Log[n]) /\ DOMAIN Log = 1 .. Len(Log)
        /\ C!Storable(Log[n])
    BY <1>0, <1>c, LogFacts, LogAssumption DEF ClaimOK, C!Store
  <2>2. PICK id \in Request : id = C!DecodedId(Log[n])
    BY <2>1, LogFacts
  <2>3. \A s \in Request : /\ s # id => rows'[s] = rows[s]
                           /\ rows[s] # Null => rows'[s] = rows[s]
    BY <1>0, <1>c, <2>2 DEF C!Store, C!Upsert, C!OnConflict
  <2>4. r = id => n \in Deliveries(r)
    BY <2>1, <2>2 DEF Deliveries
  <2>5. n \in Deliveries(r) => n \in Ahead(c, r)
    BY <1>0, <1>c DEF Ahead
  <2> QED
    BY <2>3, <2>4, <2>5
<1>2. CASE phase = "up" /\ C!Join(Proc)
  <2> DEFINE dl == [step |-> "receive", pos |-> committed, marked |-> committed, live |-> TRUE]
  <2>1. /\ d = dl /\ rows' = rows /\ faults' = faults /\ c.step = "down" /\ ~ c.live
        /\ owner' = Proc /\ committed' = committed
    BY <1>0, <1>2 DEF C!Join, C!storeVars
  <2>2. /\ dl.live /\ dl.step = "receive" /\ dl.pos = committed /\ dl.marked = committed
        /\ committed <= committed
    BY IntakeParts DEF C!Position
  <2> HIDE DEF dl
  <2>3. ASSUME NEW r PROVE Rest(dl, phase, r) <= Rest(c, phase, r)
    <3>1. /\ Cardinality(Ahead(dl, r)) <= Occurrences(r) /\ Cardinality(Ahead(dl, r)) \in Nat
          /\ Cardinality(Ahead(c, r)) \in Nat /\ Occurrences(r) \in Nat
      BY AheadFinite
    <3> QED
      BY <1>2, <2>1, <2>2, <3>1 DEF Rest
  <2>4. \A r : Rest(dl, phase, r) \in Nat /\ Rest(c, phase, r) \in Nat
    BY ComingFacts
  <2>5. Stuck(c, committed) <=> Stuck(dl, committed')
    BY <2>1, <2>2 DEF Stuck
  <2>6. Holding(dl, owner', committed')
    BY <2>1, <2>2 DEF Holding
  <2> HIDE DEF c, d
  <2> QED
    BY <2>1, <2>2, <2>3, <2>4, <2>5, <2>6, <1>a
<1>3. CASE phase = "up" /\ C!EndSession(Proc)
  <2> DEFINE dl == [c EXCEPT !.live = FALSE]
  <2>1. /\ d = dl /\ rows' = rows /\ faults' = faults + 1 /\ c.live
        /\ dl.step = c.step /\ dl.pos = c.pos /\ dl.marked = c.marked /\ ~ dl.live
        /\ UNCHANGED <<owner, committed>>
    BY <1>0, <1>3 DEF C!EndSession, C!Fault, C!storeVars, C!Claim
  <2> HIDE DEF dl
  <2>2. ASSUME NEW r PROVE Rest(dl, phase, r) <= Rest(c, phase, r) + Occurrences(r)
    <3>1. Ahead(dl, r) = Ahead(c, r)
      BY <2>1 DEF Ahead
    <3>2. Cardinality(Ahead(c, r)) \in Nat /\ Occurrences(r) \in Nat
      BY AheadFinite
    <3> QED
      BY <2>1, <3>1, <3>2 DEF Rest
  <2>3. Stuck(c, committed) <=> Stuck(dl, committed')
    BY <2>1 DEF Stuck
  <2>4. Holding(dl, owner', committed')
    BY <1>01, <2>1 DEF Holding
  <2>5. faults' # faults
    BY <1>0, <2>1
  <2> HIDE DEF c, d
  <2> QED
    BY <2>1, <2>2, <2>3, <2>4, <2>5, <1>a
<1>4. CASE C!AutoCommit(Proc)
  <2>1. /\ d = c /\ rows' = rows /\ faults' = faults /\ c.step # "down"
        /\ committed' = c.marked /\ owner' = owner
    BY <1>4 DEF C!AutoCommit, C!storeVars
  <2>2. Stuck(c, committed) <=> Stuck(c, committed')
    BY <2>1 DEF Stuck
  <2>3. Holding(c, owner', committed')
    BY <1>0, <1>01, <2>1 DEF Holding
  <2> HIDE DEF c, d
  <2> QED
    BY <1>01, <2>1, <2>2, <2>3, <1>b
<1>5. CASE C!Skip(Proc) \/ C!Mark(Proc)
  <2> DEFINE dl == C!MarkMessage(c)
  <2>1. /\ d = dl /\ rows' = rows /\ faults' = faults /\ c.step \in {"receive", "mark"}
        /\ dl.step = "receive" /\ dl.pos = c.pos + 1 /\ dl.live = c.live
        /\ dl.marked = c.pos + 1 /\ UNCHANGED <<owner, committed>>
    BY <1>0, <1>5 DEF C!Skip, C!Mark, C!MarkMessage, C!storeVars, C!Claim
  <2> HIDE DEF dl
  <2>2. \A r : \A i \in Deliveries(r) : i \in Nat
    BY LogAssumption, LogFacts DEF Deliveries
  <2>3. \A r : Ahead(dl, r) \subseteq Ahead(c, r)
    BY <1>0, <2>1, <2>2 DEF Ahead
  <2>4. ~ C!AtRefused(c.pos)
    BY <1>0, <1>5, RefusedFacts DEF C!Skip, C!Mark, ClaimOK
  <2>5. ~ Stuck(c, committed)
    BY <2>1, <2>4 DEF Stuck
  <2>6. committed \in Nat
    BY IntakeParts DEF C!Position
  <2>7. Holding(dl, owner', committed')
    BY <1>0, <1>01, <2>1, <2>6 DEF Holding
  <2> HIDE DEF c, d
  <2> QED
    BY <2>1, <2>3, <2>5, <2>7, <1>b
<1>6. CASE C!Receive(Proc)
  <2> DEFINE dl == [c EXCEPT !.step = "save"]
  <2>1. /\ d = dl /\ rows' = rows /\ faults' = faults /\ c.step = "receive"
        /\ dl.step = "save" /\ dl.pos = c.pos /\ dl.live = c.live
        /\ dl.marked = c.marked /\ UNCHANGED <<owner, committed>>
    BY <1>0, <1>6 DEF C!Receive, C!storeVars, C!Claim
  <2> HIDE DEF dl
  <2>2. \A r : Ahead(dl, r) \subseteq Ahead(c, r)
    BY <2>1 DEF Ahead
  <2>3. (Stuck(c, committed) <=> Stuck(dl, committed')) /\ Holding(dl, owner', committed')
    BY <1>01, <2>1 DEF Stuck, Holding
  <2> HIDE DEF c, d
  <2> QED
    BY <2>1, <2>2, <2>3, <1>b
\* A stored event, or one whose statement failed.
<1>d. ASSUME NEW dl, d = dl, dl.step = "ended" => ~ dl.live, c.step = "save",
             C!Store(Proc) \/ rows' = rows, faults' \in {faults, faults + 1},
             Holding(dl, owner', committed'), ~ Stuck(c, committed),
             \A r : /\ Ahead(dl, r) \subseteq Ahead(c, r) /\ n \notin Ahead(dl, r)
                    /\ (IF phase = "up" /\ ~ dl.live THEN Occurrences(r) ELSE 0) <=
                           (IF phase = "up" /\ ~ c.live THEN Occurrences(r) ELSE 0) +
                           (IF faults' = faults THEN 0 ELSE Occurrences(r))
      PROVE  Sessions' /\ \A r \in Request : Receives(r)
  <2>1. Sessions'
    BY <1>1, <1>d DEF Sessions, Holding
  <2>2. ASSUME NEW r \in Request PROVE Receives(r)
    <3> DEFINE more == IF faults' = faults THEN 0 ELSE Occurrences(r)
    <3>1. /\ Cardinality(Ahead(dl, r)) \in Nat /\ Cardinality(Ahead(c, r)) \in Nat
          /\ Occurrences(r) \in Nat
      BY AheadFinite
    <3>2. Rest(dl, phase, r) <= Rest(c, phase, r) + more
      <4>1. Cardinality(Ahead(dl, r)) <= Cardinality(Ahead(c, r))
        BY <1>d, AheadLess
      <4> QED
        BY <1>d, <3>1, <4>1 DEF Rest
    <3>3. n \in Ahead(c, r) => Rest(dl, phase, r) + 1 <= Rest(c, phase, r) + more
      <4>1. n \in Ahead(c, r) => Cardinality(Ahead(dl, r)) + 1 <= Cardinality(Ahead(c, r))
        BY <1>d, AheadLess
      <4> QED
        BY <1>d, <3>1, <4>1 DEF Rest
    <3>4. rows[r] # Null => rows'[r] = rows[r]
      BY <1>c, <1>d
    <3>5. rows[r] = Null /\ rows'[r] # Null => n \in Ahead(c, r) /\ Deliveries(r) # {}
      BY <1>c, <1>d
    <3>6. /\ ToCome(r) = Rest(c, phase, r) /\ ToCome(r)' <= Rest(dl, phase, r)
          /\ Rest(c, phase, r) \in Nat /\ Rest(dl, phase, r) \in Nat
          /\ ToCome(r)' \in Nat /\ more \in Nat
      <4>1. ToCome(r) = Rest(c, phase, r)
        BY <1>d, ComingFacts DEF Coming
      <4>2. ToCome(r)' = Coming(dl, committed', phase, r)
        BY <1>1, <1>d, ComingFacts
      <4> QED
        BY <3>1, <4>1, <4>2, ComingFacts
    <3> HIDE DEF c, d, n, more
    <3>7. CASE rows[r] = Null /\ rows'[r] # Null
      <4>1. ToCome(r)' + 1 <= ToCome(r) + more
        BY <3>3, <3>5, <3>6, <3>7
      <4> QED
        BY <1>d, <3>4, <3>5, <3>7, <4>1 DEF Receives, more
    <3>8. CASE ~ (rows[r] = Null /\ rows'[r] # Null)
      <4>1. ToCome(r)' + 0 <= ToCome(r) + more
        BY <3>1, <3>2, <3>6
      <4> QED
        BY <1>d, <3>4, <3>8, <4>1 DEF Receives, more
    <3> QED
      BY <3>7, <3>8
  <2> QED
    BY <2>1, <2>2
<1>7. CASE C!Save(Proc)
  <2> DEFINE dl == [c EXCEPT !.step = "mark"]
  <2>1. /\ d = dl /\ C!Store(Proc) /\ faults' = faults /\ c.step = "save"
        /\ dl.step = "mark" /\ dl.pos = c.pos /\ dl.live = c.live
        /\ dl.marked = c.marked /\ UNCHANGED <<owner, committed>>
    BY <1>0, <1>7 DEF C!Save, C!Claim
  <2> HIDE DEF dl
  <2>2. \A r : \A i \in Deliveries(r) : i \in Nat
    BY LogAssumption, LogFacts DEF Deliveries
  <2>3. \A r : Ahead(dl, r) \subseteq Ahead(c, r) /\ n \notin Ahead(dl, r)
    BY <1>0, <2>1, <2>2 DEF Ahead
  <2>4. \A r : (IF phase = "up" /\ ~ dl.live THEN Occurrences(r) ELSE 0) <=
                 (IF phase = "up" /\ ~ c.live THEN Occurrences(r) ELSE 0) + 0
    BY <2>1, AheadFinite
  <2>5. ~ Stuck(c, committed)
    BY <2>1 DEF Stuck, C!AtRefused, C!Store
  <2>6. Holding(dl, owner', committed')
    BY <1>01, <2>1 DEF Holding
  <2>7. dl.step # "ended"
    BY <2>1
  <2> HIDE DEF c, d, n
  <2> QED
    BY <2>1, <2>3, <2>4, <2>5, <2>6, <2>7, <1>d
<1>8. CASE C!SaveFails(Proc)
  <2> DEFINE dl == [c EXCEPT !.step = "ended", !.live = FALSE]
  <2>1. /\ d = dl /\ c.step = "save" /\ dl.step = "ended" /\ ~ dl.live
        /\ dl.pos = c.pos /\ dl.marked = c.marked /\ UNCHANGED <<owner, committed>>
        /\ C!Store(Proc) \/ rows' = rows
        /\ \/ (~ c.live \/ C!AtRefused(c.pos)) /\ faults' = faults
           \/ faults' = faults + 1
    BY <1>0, <1>8 DEF C!SaveFails, C!Failure, C!Fault, C!storeVars, C!Claim
  <2> HIDE DEF dl
  <2>2. \A r : Ahead(dl, r) = {}
    BY <2>1 DEF Ahead
  <2>3. Holding(dl, owner', committed')
    BY <1>01, <2>1 DEF Holding
  <2>4. CASE C!AtRefused(c.pos)
    <3>1. Stuck(dl, committed')
      BY <2>1, <2>4 DEF Stuck
    <3>2. rows' = rows
      BY <2>1, <2>4 DEF C!AtRefused, C!Store
    <3> HIDE DEF c, d
    <3> QED
      BY <2>1, <2>3, <3>1, <3>2, <1>a
  <2>5. CASE ~ C!AtRefused(c.pos)
    <3>1. \A r : (IF phase = "up" /\ ~ dl.live THEN Occurrences(r) ELSE 0) <=
                   (IF phase = "up" /\ ~ c.live THEN Occurrences(r) ELSE 0) +
                   (IF faults' = faults THEN 0 ELSE Occurrences(r))
      BY <1>0, <2>1, <2>5, AheadFinite
    <3>2. ~ Stuck(c, committed)
      BY <2>1, <2>5 DEF Stuck
    <3> HIDE DEF c, d, n
    <3> QED
      BY <2>1, <2>2, <2>3, <3>1, <3>2, <1>d
  <2> QED
    BY <2>4, <2>5
<1>9. CASE C!Leave(Proc)
  <2>1. /\ d = C!Down /\ rows' = rows /\ faults' = faults /\ c.step # "down"
        /\ committed' = IF owner = Proc /\ committed < c.marked THEN c.marked ELSE committed
    BY <1>0, <1>9 DEF C!Leave, C!storeVars
  <2>2. ~ c.live
    BY <1>9 DEF C!Leave, Sessions
  <2>3. c.live = FALSE
    BY <1>0, <2>2 DEF C!Claim
  <2>4. C!Down.live = FALSE /\ C!Down.step = "down"
    BY DEF C!Down
  <2>5. \A r : Ahead(C!Down, r) = {}
    BY <2>4 DEF Ahead
  <2>6. committed' = c.pos
    <3>1. committed \in Nat /\ owner = Proc /\ c.marked = c.pos /\ committed <= c.pos
      BY <1>01, <2>1, IntakeParts DEF Holding, C!Position
    <3> HIDE DEF c
    <3> QED
      BY <1>0, <2>1, <3>1
  <2>7. Stuck(c, committed) <=> Stuck(C!Down, committed')
    BY <2>1, <2>4, <2>6 DEF Stuck
  <2>8. Holding(C!Down, owner', committed')
    BY <2>4 DEF Holding
  <2> HIDE DEF c, d
  <2> QED
    BY <2>1, <2>3, <2>4, <2>5, <2>7, <2>8, <1>b
<1> QED
  BY <1>2, <1>3, <1>4, <1>5, <1>6, <1>7, <1>8, <1>9 DEF Consume, Handle

-----------------------------------------------------------------------------
(* Steps that send nothing.                                                *)

\* What was sent stays in order when ticks end, new rows arrive and, at one
\* wallet, rows are deleted.
LEMMA SlotAside ==
    ASSUME SlotCore, TypeInv', UNCHANGED <<tx, signedFor>>,
           \A p \in Watcher : tick'[p] \in {tick[p], Idle},
           \A r \in Request : rows[r] # Null =>
                rows'[r] = rows[r] \/ (SingleWallet /\ rows'[r] = Null),
           \A r \in Request : rows[r] = Null /\ rows'[r] # Null => rows'[r].submitted = Null
    PROVE  SlotCore' /\ \A r \in Request : Slots(r)' = Slots(r)
<1>1. /\ TypeInv /\ AtMostOneActive /\ Fronts
      /\ SentSigned /\ SlotTicks /\ RowSlots /\ OneRequestPerNonce
  BY DEF SlotCore
<1>2. /\ Accepted' = Accepted
      /\ \A r \in Request : Slots(r)' = Slots(r)
  BY DEF Accepted, Slots
<1>3. \A w : \A r \in Active(w)' : r \in Active(w) /\ rows'[r] = rows[r]
  BY DEF Active, RowsOf
<1>4. AtMostOneActive'
  BY <1>1, <1>3 DEF AtMostOneActive
<1>5. ASSUME NEW p \in Watcher PROVE Front(p, tick[p])' /\ SlotTick(p, tick[p])'
  <2>1. Front(p, tick[p]) /\ TickShape(tick[p]) /\ SlotTick(p, tick[p])
    BY <1>1 DEF Fronts, TypeInv, Shapes, SlotTicks
  <2>2. CASE tick'[p] = Idle
    BY <2>2 DEF Front, SlotTick, Idle, At, ActiveStep, SubmitStep
  <2>3. CASE tick'[p] = tick[p]
    <3>1. ASSUME tick[p].step \in ActiveStep \union SubmitStep \union {"failed", "deleteFailed"}
          PROVE  AtHome(p, tick[p].id)'
      <4>1. tick[p].id \in Request /\ AtHome(p, tick[p].id)
        BY <2>1, <3>1 DEF TickShape, HoldStep, Front
      <4> QED
        BY <2>3, <4>1 DEF AtHome
    <3>2. Front(p, tick[p])'
      BY <1>3, <2>1, <2>3, <3>1 DEF Front
    <3>3. SlotTick(p, tick[p])'
      BY <1>2, <2>1, <2>3 DEF SlotTick, TxOf
    <3> QED
      BY <3>2, <3>3
  <2> QED
    BY <2>2, <2>3
<1>6. SentSigned' /\ OneRequestPerNonce'
  BY <1>1, <1>2 DEF SentSigned, OneRequestPerNonce, SameSlot
<1>7. RowSlots'
  BY <1>1, <1>2, <1>3 DEF RowSlots
<1> QED
  BY <1>2, <1>4, <1>5, <1>6, <1>7 DEF SlotCore, SlotTicks, Fronts

-----------------------------------------------------------------------------
(* The budget.                                                             *)

BudgetAt(s, f, r) == Occurrences(r) * (s + f) + (s - 1)

\* A fault adds the deliveries of one session, a start those and one more.
LEMMA BudgetFacts ==
    /\ \A r : Budget(r) = BudgetAt(starts, faults, r)
    /\ \A r : Budget(r)' = BudgetAt(starts', faults', r)
    /\ \A r : \A s, f \in Nat : BudgetAt(s, f, r) \in Int
    /\ \A r : \A s, f, g \in Nat : f < g =>
            BudgetAt(s, f, r) + Occurrences(r) <= BudgetAt(s, g, r)
    /\ \A r : \A s, f \in Nat : BudgetAt(s + 1, f, r) = BudgetAt(s, f, r) + Occurrences(r) + 1
    /\ \A r : \A f \in Nat : -1 <= BudgetAt(0, f, r)
<1>1. \A r : Occurrences(r) \in Nat
  BY AheadFinite
<1>2. ASSUME NEW n \in Nat, NEW m \in Nat
      PROVE  n * m \in Nat /\ n * (m + 1) = n * m + n
  BY <1>2, Z3
<1>3. ASSUME NEW s \in Nat, NEW f \in Nat, NEW g \in Nat, NEW r, f < g
      PROVE  BudgetAt(s, f, r) + Occurrences(r) <= BudgetAt(s, g, r)
  <2> DEFINE n == Occurrences(r)
             d == g - (f + 1)
  <2>1. n \in Nat /\ d \in Nat /\ s + f \in Nat
    BY <1>1, <1>3
  <2>2. n * d \in Nat /\ n * (s + f) \in Nat /\ n * (s + f + 1) = n * (s + f) + n
    BY <1>2, <2>1
  <2>3. n * (s + g) = n * (s + f + 1) + n * d
    <3>1. s + g = (s + f + 1) + d
      BY <1>3
    <3>2. \A x, y \in Nat : n * (x + y) = n * x + n * y
      BY <2>1, Z3
    <3>3. s + f + 1 \in Nat
      BY <2>1
    <3> HIDE DEF n, d
    <3> QED
      BY <2>1, <3>1, <3>2, <3>3
  <2> QED
    BY <1>3, <2>1, <2>2, <2>3 DEF BudgetAt
<1>4. ASSUME NEW s \in Nat, NEW f \in Nat, NEW r
      PROVE  /\ BudgetAt(s, f, r) \in Int
             /\ BudgetAt(s + 1, f, r) = BudgetAt(s, f, r) + Occurrences(r) + 1
  <2>1. s + f \in Nat /\ (s + 1) + f = (s + f) + 1 /\ Occurrences(r) \in Nat
    BY <1>1
  <2>2. /\ Occurrences(r) * (s + f) \in Nat
        /\ Occurrences(r) * ((s + f) + 1) = Occurrences(r) * (s + f) + Occurrences(r)
    BY <1>2, <2>1
  <2>3. Occurrences(r) * ((s + 1) + f) = Occurrences(r) * (s + f) + Occurrences(r)
    BY <2>1, <2>2
  <2> QED
    BY <2>1, <2>2, <2>3 DEF BudgetAt
<1>5. ASSUME NEW f \in Nat, NEW r PROVE -1 <= BudgetAt(0, f, r)
  <2>1. 0 + f = f /\ Occurrences(r) * f \in Nat
    BY <1>1, <1>2
  <2> QED
    BY <2>1 DEF BudgetAt
<1>6. /\ \A r : Budget(r) = BudgetAt(starts, faults, r)
      /\ \A r : Budget(r)' = BudgetAt(starts', faults', r)
  BY DEF Budget, BudgetAt, Occurrences, Deliveries
<1> QED
  BY <1>3, <1>4, <1>5, <1>6

\* r stays within its budget when nothing is sent and what is stored or begun
\* anew was still to come or is the budget of a fault.
LEMMA BudgetKeep ==
    ASSUME ServiceInv, NEW r \in Request, InBudget(r),
           starts' = starts, Slots(r)' = Slots(r), faults' \in Nat, faults <= faults',
           NEW ins \in {0, 1},
           ToCome(r)' + ins <= ToCome(r) + (IF faults' = faults THEN 0 ELSE Occurrences(r)),
           rows'[r] # Null => Deliveries(r) # {},
           starts = 0 => phase' = "down" /\ rows'[r] = Null,
           Due(r)' =>
                \/ Due(r)
                \/ ins = 1
                \/ faults' # faults /\ ToCome(r)' <= ToCome(r) /\ rows'[r] # Null
    PROVE  InBudget(r)'
<1>1. /\ starts \in Nat /\ faults \in Nat
      /\ Cardinality(Slots(r)) \in Nat /\ Cardinality(Slots(r))' = Cardinality(Slots(r))
      /\ Occurrences(r) \in Nat /\ (rows'[r] # Null => Occurrences(r) # 0)
      /\ ToCome(r) \in Nat /\ ToCome(r)' \in Nat
  BY SlotsFinite, AheadFinite, ComingFacts DEF ServiceInv, ServiceTypeOK, TypeOK
<1>2. /\ Budget(r) \in Int /\ Budget(r)' \in Int
      /\ Budget(r)' >= Budget(r) + (IF faults' = faults THEN 0 ELSE Occurrences(r))
  <2>1. /\ Budget(r) = BudgetAt(starts, faults, r) /\ Budget(r)' = BudgetAt(starts, faults', r)
        /\ BudgetAt(starts, faults, r) \in Int /\ BudgetAt(starts, faults', r) \in Int
        /\ faults < faults' => BudgetAt(starts, faults, r) + Occurrences(r) <=
                                   BudgetAt(starts, faults', r)
    BY <1>1, BudgetFacts
  <2> QED
    BY <1>1, <2>1
<1>4. /\ starts # 0 => Cardinality(Slots(r)) + ToCome(r) <= Budget(r)
      /\ starts # 0 /\ Due(r) =>
            Cardinality(Slots(r)) + 1 + ToCome(r) <= Budget(r)
      /\ starts = 0 => Slots(r) = {}
  BY DEF InBudget
<1>5. starts # 0 => Cardinality(Slots(r))' + ToCome(r)' <= Budget(r)'
  BY <1>1, <1>2, <1>4
<1>6. starts # 0 /\ Due(r)' =>
            Cardinality(Slots(r))' + 1 + ToCome(r)' <= Budget(r)'
  BY <1>1, <1>2, <1>4
<1>7. (Deliveries(r) # {})' <=> Deliveries(r) # {}
  BY DEF Deliveries
<1> QED
  BY <1>4, <1>5, <1>6, <1>7 DEF InBudget

-----------------------------------------------------------------------------
(* The steps of the process.                                               *)

\* A request sent or waiting before the process starts for the first time
\* does not exist.
LEMMA NotStarted ==
    ASSUME NEW r \in Request, InBudget(r), phase # "down"
    PROVE  starts # 0
BY DEF InBudget

\* A watcher sends what is due, and a fault of its own leaves a request
\* waiting.
LEMMA WatchBudget ==
    ASSUME OneWatcherPerWallet, BudgetInv, TypeInv', NEW p \in Watcher, Watch(p)
    PROVE  SlotCore' /\ Sessions' /\ \A r \in Request : InBudget(r)'
<1>1. /\ ServiceInv /\ SlotCore /\ Sessions /\ TypeInv
      /\ \A r \in Request : InBudget(r)
      /\ \A q \in Watcher : Front(q, tick[q])
  BY DEF BudgetInv, SlotCore, Fronts
<1>2. /\ Step(p) \/ Abort(p)
      /\ phase' = phase /\ phase # "down" /\ starts' = starts
      /\ UNCHANGED <<claim, owner, committed>> /\ inFlight' = inFlight \ {p}
  BY DEF Watch, Runs, consumerVars
<1>4. SlotCore' /\ Spends(p)
  <2>1. CASE Step(p)
    BY <1>1, <2>1, SlotStep
  <2>2. CASE Abort(p)
    <3>1. /\ Goto(p, tick[p].step, Idle) /\ UNCHANGED <<rows, inserts, tx, signedFor>>
          /\ faults' = faults + 1
      BY <2>2 DEF Abort, Goto, storeVars, nodeVars
    <3>2. Idle.step = "idle" /\ faults \in Nat
      BY <1>1 DEF Idle, At, TypeInv, TypeOK
    <3>3. Front(p, Idle)'
      BY <3>2 DEF Front, ActiveStep, SubmitStep
    <3> QED
      BY <1>1, <3>1, <3>2, <3>3, SlotKeep DEF ActiveStep, BeforeSend
  <2> QED
    BY <1>2, <2>1, <2>2
<1>5. Sessions'
  BY <1>1, <1>2 DEF Sessions
<1>6. ASSUME NEW r \in Request PROVE InBudget(r)'
  <2>1. /\ InBudget(r) /\ starts # 0 /\ faults \in Nat
        /\ ToCome(r)' = ToCome(r) /\ ToCome(r) \in Nat /\ Occurrences(r) \in Nat
    BY <1>1, <1>2, NotStarted, ComingFacts, AheadFinite DEF ServiceInv, TypeInv, TypeOK
  <2>2. /\ faults' \in Nat /\ faults <= faults'
        /\ Unsent(r)' => Unsent(r) \/ faults' = faults + 1
        /\ rows'[r] # Null => rows[r] # Null /\ rows'[r].wallet = rows[r].wallet
    BY <1>4 DEF Spends
  <2>3. rows'[r] # Null => Deliveries(r) # {}
    BY <2>1, <2>2 DEF InBudget
  <2>4. CASE Slots(r)' = Slots(r)
    <3>1. ASSUME Unsent(r)', ~ Halted(r)' PROVE Due(r) \/ (faults' # faults /\ rows'[r] # Null)
      <4>1. rows'[r] # Null /\ ~ Halted(r)
        BY <1>2, <2>2, <3>1 DEF Unsent, Halted
      <4> QED
        BY <2>1, <2>2, <3>1, <4>1 DEF Due
    <3>2. ASSUME NEW q \in Watcher, Holds(q, r)' PROVE Due(r)
      <4>1. CASE q # p
        BY <1>2, <1>4, <3>2, <4>1 DEF Spends, Holds, Due
      <4>2. CASE q = p
        <5>1. phase = "up" /\ tick'[p].step \in BeforeSend /\ tick'[p].id = r
          BY <1>2, <3>2, <4>2 DEF Holds
        <5> QED
          BY <1>4, <5>1 DEF Spends, Holds, Due, Halted
      <4> QED
        BY <4>1, <4>2
    <3>3. Due(r)' => \/ Due(r)
                     \/ faults' # faults /\ ToCome(r)' <= ToCome(r) /\ rows'[r] # Null
      BY <2>1, <3>1, <3>2 DEF Due
    <3>4. ToCome(r)' + 0 <= ToCome(r) + (IF faults' = faults THEN 0 ELSE Occurrences(r))
      BY <2>1
    <3> QED
      BY <1>1, <1>2, <2>1, <2>2, <2>3, <2>4, <3>3, <3>4, BudgetKeep
  <2>5. CASE Slots(r)' # Slots(r)
    <3>1. /\ tick[p].step = "sendSubmit" /\ tick[p].id = r /\ faults' = faults
          /\ tick'[p].step = "recordSubmit" /\ tick'[p].id = r
          /\ \A q \in Watcher : q # p => tick'[q] = tick[q]
          /\ Cardinality(Slots(r)') \in {Cardinality(Slots(r)), Cardinality(Slots(r)) + 1}
      BY <1>4, <2>5 DEF Spends
    <3>2. phase = "up" \/ p \in inFlight
      BY <3>1 DEF Watch, Runs, PublishStep
    <3>3. Due(r)
      BY <3>1, <3>2 DEF Due, Holds, BeforeSend
    <3>4. ~ Due(r)'
      <4>1. ~ Unsent(r)'
        BY <3>1 DEF Unsent
      <4>2. ASSUME NEW q \in Watcher, Holds(q, r)' PROVE FALSE
        <5>1. q # p
          BY <3>1, <4>2 DEF Holds, BeforeSend
        <5>2. tick[q].step \in SubmitStep /\ tick[q].id = r
          BY <3>1, <4>2, <5>1 DEF Holds, BeforeSend, SubmitStep
        <5>3. AtHome(q, r) /\ AtHome(p, r)
          BY <1>1, <3>1, <5>2 DEF Front, SubmitStep
        <5> QED
          BY <5>1, <5>3, HomeUnique
      <4> QED
        BY <4>1, <4>2 DEF Due
    <3>5. Cardinality(Slots(r)) + 1 + ToCome(r) <= Budget(r)
      BY <2>1, <3>3 DEF InBudget
    <3>6. /\ Cardinality(Slots(r)) \in Nat /\ starts \in Nat
          /\ Cardinality(Slots(r))' = Cardinality(Slots(r)')
      BY <1>1, SlotsFinite DEF ServiceInv, ServiceTypeOK
    <3>7. Budget(r)' = Budget(r) /\ Budget(r) \in Int
      BY <1>2, <2>1, <3>1, <3>6, BudgetFacts
    <3>8. Cardinality(Slots(r))' + ToCome(r)' <= Budget(r)'
      BY <2>1, <3>1, <3>5, <3>6, <3>7
    <3>9. (Deliveries(r) # {})' <=> Deliveries(r) # {}
      BY DEF Deliveries
    <3> QED
      BY <1>2, <2>1, <2>3, <3>4, <3>8, <3>9 DEF InBudget
  <2> QED
    BY <2>4, <2>5
<1> QED
  BY <1>4, <1>5, <1>6

\* A start brings the deliveries of one session, and one execution more of
\* what the last process left waiting.
LEMMA StartBudget ==
    ASSUME BudgetInv, NEW W, Start(W), NEW r \in Request, Slots(r)' = Slots(r)
    PROVE  InBudget(r)'
<1>1. /\ InBudget(r) /\ starts \in Nat /\ faults \in Nat /\ Sessions
      /\ Cardinality(Slots(r)) \in Nat /\ Cardinality(Slots(r))' = Cardinality(Slots(r))
      /\ ToCome(r) \in Nat /\ ToCome(r)' \in Nat /\ Occurrences(r) \in Nat
  BY SlotsFinite, ComingFacts, AheadFinite DEF BudgetInv, ServiceInv, ServiceTypeOK, TypeOK
<1>2. /\ phase = "down" /\ phase' = "up" /\ starts' = starts + 1
      /\ rows' = rows /\ faults' = faults /\ tick' = tick
      /\ claim' = claim /\ committed' = committed
  BY DEF Start, vars, storeVars, localVars, consumerVars
<1>3. ToCome(r)' <= Occurrences(r)
  <2>1. claim[Proc].step = "down"
    BY <1>1, <1>2 DEF Sessions
  <2>2. Ahead(claim[Proc], r) = {}
    BY <2>1 DEF Ahead
  <2>3. Cardinality(Ahead(claim[Proc], r)) = 0
    BY <2>2, FS_EmptySet
  <2>4. ToCome(r)' = Coming(claim[Proc], committed, "up", r)
    BY <1>2, ComingFacts
  <2> QED
    BY <1>1, <2>3, <2>4 DEF Coming, Rest
<1>4. /\ Budget(r)' = Budget(r) + Occurrences(r) + 1 /\ Budget(r) \in Int
      /\ starts = 0 => -1 <= Budget(r)
  <2>1. Budget(r) = BudgetAt(starts, faults, r) /\ Budget(r)' = BudgetAt(starts + 1, faults, r)
    BY <1>2, BudgetFacts
  <2> QED
    BY <1>1, <2>1, BudgetFacts
<1>6. CASE starts = 0
  <2>1. Slots(r) = {} /\ rows[r] = Null
    BY <1>1, <1>6 DEF InBudget
  <2>2. Cardinality(Slots(r)) = 0
    BY <2>1, FS_EmptySet
  <2>4. ~ Due(r)'
    <3>1. \A p \in Watcher : tick'[p].step = "idle"
      BY <1>1, <1>2 DEF Sessions, Idle, At
    <3> QED
      BY <1>2, <2>1, <3>1 DEF Due, Unsent, Holds, BeforeSend
  <2>3. Cardinality(Slots(r))' + ToCome(r)' <= Budget(r)'
    BY <1>1, <1>3, <1>4, <1>6, <2>2
  <2> QED
    BY <1>1, <1>2, <2>1, <2>3, <2>4 DEF InBudget
<1>7. CASE starts # 0
  <2>1. Cardinality(Slots(r)) + ToCome(r) <= Budget(r) /\ (rows[r] # Null => Deliveries(r) # {})
    BY <1>1, <1>7 DEF InBudget
  <2>2. Cardinality(Slots(r))' + 1 + ToCome(r)' <= Budget(r)'
    BY <1>1, <1>3, <1>4, <2>1
  <2>3. Cardinality(Slots(r))' + ToCome(r)' <= Budget(r)'
    BY <1>1, <1>3, <1>4, <2>1
  <2>4. (Deliveries(r) # {})' <=> Deliveries(r) # {}
    BY DEF Deliveries
  <2> QED
    BY <1>1, <1>2, <2>1, <2>2, <2>3, <2>4 DEF InBudget
<1> QED
  BY <1>6, <1>7

\* The end of the process leaves nothing to come and halts everything.
LEMMA GoneBudget ==
    ASSUME BudgetInv, Gone, NEW r \in Request, Slots(r)' = Slots(r)
    PROVE  InBudget(r)'
<1>1. ServiceInv /\ InBudget(r) /\ claim \in [{Proc} -> C!Claim] /\ faults \in Nat
  BY IntakeParts DEF BudgetInv, ServiceInv, TypeInv, TypeOK
<1>2. /\ phase' = "down" /\ inFlight' = {} /\ rows' = rows /\ starts' = starts
      /\ faults' = faults /\ claim'[Proc] = C!Down
  BY <1>1 DEF Gone, storeVars
<1>3. ToCome(r)' = 0
  <2>1. Ahead(C!Down, r) = {}
    BY DEF Ahead, C!Down
  <2>2. Cardinality(Ahead(C!Down, r)) = 0
    BY <2>1, FS_EmptySet
  <2>3. ToCome(r)' = Coming(C!Down, committed', "down", r)
    BY <1>2, ComingFacts
  <2> QED
    BY <2>2, <2>3 DEF Coming, Rest
<1>4. ToCome(r)' + 0 <= ToCome(r) + (IF faults' = faults THEN 0 ELSE Occurrences(r))
  BY <1>2, <1>3, ComingFacts
<1>5. ~ Due(r)'
  BY <1>2 DEF Due, Halted, Holds
<1>6. (rows'[r] # Null => Deliveries(r) # {}) /\ (starts = 0 => rows'[r] = Null)
  BY <1>1, <1>2 DEF InBudget
<1> QED
  BY <1>1, <1>2, <1>4, <1>5, <1>6, BudgetKeep

\* SIGTERM ends the session.
LEMMA SigtermBudget ==
    ASSUME BudgetInv, Sigterm, NEW r \in Request, Slots(r)' = Slots(r)
    PROVE  InBudget(r)'
<1>1. ServiceInv /\ InBudget(r) /\ claim \in [{Proc} -> C!Claim] /\ faults \in Nat
  BY IntakeParts DEF BudgetInv, ServiceInv, TypeInv, TypeOK
<1> DEFINE c == claim[Proc]
           d == claim'[Proc]
<1>2. /\ phase = "up" /\ phase' = "stopping" /\ rows' = rows /\ tick' = tick
      /\ starts' = starts /\ faults' = faults
      /\ d.step = c.step /\ d.pos = c.pos /\ committed' = committed
  BY <1>1 DEF Sigterm, vars, storeVars, localVars, C!Claim
<1>3. ToCome(r)' <= ToCome(r)
  <2> HIDE DEF c, d
  <2>1. Ahead(d, r) = Ahead(c, r)
    BY <1>2 DEF Ahead
  <2>2. Cardinality(Ahead(c, r)) \in Nat /\ Occurrences(r) \in Nat
    BY AheadFinite
  <2>3. /\ ToCome(r)' = Coming(d, committed, "stopping", r)
        /\ ToCome(r) = Coming(c, committed, "up", r)
    BY <1>2, ComingFacts DEF c, d
  <2>4. Stuck(d, committed) <=> Stuck(c, committed)
    BY <1>2 DEF Stuck
  <2> QED
    BY <2>1, <2>2, <2>3, <2>4 DEF Coming, Rest
<1>4. ToCome(r)' + 0 <= ToCome(r) + (IF faults' = faults THEN 0 ELSE Occurrences(r))
  BY <1>2, <1>3, ComingFacts
<1>5. Due(r)' => Due(r)
  BY <1>2 DEF Due, Unsent, Halted, Holds
<1>6. (rows'[r] # Null => Deliveries(r) # {}) /\ starts # 0
  BY <1>1, <1>2 DEF InBudget
<1> QED
  BY <1>1, <1>2, <1>4, <1>5, <1>6, BudgetKeep

\* What the cancellation of a tick leaves waiting, no other watcher sends.
LEMMA CancelledBudget ==
    ASSUME OneWatcherPerWallet, BudgetInv, NEW p \in Watcher, Cancelled(p),
           NEW r \in Request, Slots(r)' = Slots(r)
    PROVE  InBudget(r)'
<1>1. /\ ServiceInv /\ TypeInv /\ InBudget(r) /\ faults \in Nat
      /\ tick \in [Watcher -> Tick] /\ inFlight \subseteq Watcher
      /\ \A q \in Watcher : Front(q, tick[q])
  BY DEF BudgetInv, SlotCore, Fronts, ServiceInv, ServiceTypeOK, TypeInv, TypeOK
<1>2. /\ phase = "stopping" /\ phase' = phase /\ rows' = rows /\ starts' = starts
      /\ faults' = faults /\ claim' = claim /\ committed' = committed
      /\ inFlight' = inFlight \ {p}
      /\ tick'[p].step = "idle" /\ \A q \in Watcher : q # p => tick'[q] = tick[q]
  BY <1>1 DEF Cancelled, storeVars, consumerVars, Idle, At
<1>3. ToCome(r)' = ToCome(r) /\ ToCome(r) \in Nat
  BY <1>2, ComingFacts
<1>4. ToCome(r)' + 0 <= ToCome(r) + (IF faults' = faults THEN 0 ELSE Occurrences(r))
  BY <1>2, <1>3
<1>5. ~ Halted(r)' => ~ Halted(r)
  BY <1>2 DEF Halted
<1>6. ASSUME Unsent(r)', ~ Unsent(r) PROVE Halted(r)'
  <2>1. tick[p].step = "recordSubmit" /\ tick[p].id = r
    BY <1>2, <1>6 DEF Unsent
  <2>2. rows[r].wallet = WalletOf[p]
    <3>1. AtHome(p, r) /\ rows[r] # Null
      BY <1>1, <1>2, <1>6, <2>1 DEF Front, SubmitStep, Unsent
    <3> QED
      BY <1>1, <3>1, HomeWallet
  <2>3. \A q \in inFlight' : WalletOf[q] # rows'[r].wallet
    BY <1>1, <1>2, <2>2 DEF OneWatcherPerWallet
  <2> QED
    BY <1>2, <2>3 DEF Halted
<1>7. (rows'[r] # Null => Deliveries(r) # {}) /\ starts # 0
  BY <1>1, <1>2 DEF InBudget
<1>8. Due(r)' => Due(r)
  <2>1. \A q \in Watcher : Holds(q, r)' => Holds(q, r)
    BY <1>2 DEF Holds, BeforeSend
  <2> QED
    BY <1>5, <1>6, <2>1 DEF Due
<1> QED
  BY <1>1, <1>2, <1>4, <1>7, <1>8, BudgetKeep

\* What the consumer stores was to come.
LEMMA ConsumeBudget ==
    ASSUME BudgetInv, Consume, NEW r \in Request, Slots(r)' = Slots(r), Receives(r)
    PROVE  InBudget(r)'
<1>1. ServiceInv /\ InBudget(r) /\ faults \in Nat
  BY DEF BudgetInv, ServiceInv, TypeInv, TypeOK
<1>2. UNCHANGED <<phase, starts, inFlight, tick>> /\ phase # "down"
  BY DEF Consume, processVars
<1>3. /\ faults' \in {faults, faults + 1}
      /\ rows[r] # Null => rows'[r] = rows[r]
  BY DEF Receives
<1>4. PICK ins \in {0, 1} :
         /\ ToCome(r)' + ins <= ToCome(r) + (IF faults' = faults THEN 0 ELSE Occurrences(r))
         /\ rows[r] = Null /\ rows'[r] # Null => ins = 1 /\ Deliveries(r) # {}
  BY DEF Receives
<1>5. faults' \in Nat /\ faults <= faults'
  BY <1>1, <1>3
<1>6. rows'[r] # Null => Deliveries(r) # {}
  BY <1>1, <1>3, <1>4 DEF InBudget
<1>7. Due(r)' => Due(r) \/ ins = 1
  BY <1>2, <1>3, <1>4 DEF Due, Unsent, Halted, Holds
<1>8. starts # 0
  BY <1>1, <1>2, NotStarted
<1> QED
  BY <1>1, <1>2, <1>4, <1>5, <1>6, <1>7, <1>8, BudgetKeep

\* Nothing becomes due where at most a row is deleted.
LEMMA AsideBudget ==
    ASSUME BudgetInv, UNCHANGED <<claim, committed, phase, starts, inFlight, tick>>,
           faults' \in {faults, faults + 1}, NEW r \in Request, Slots(r)' = Slots(r),
           rows'[r] \in {rows[r], Null}
    PROVE  InBudget(r)'
<1>1. ServiceInv /\ InBudget(r) /\ faults \in Nat
  BY DEF BudgetInv, ServiceInv, TypeInv, TypeOK
<1>2. ToCome(r)' = ToCome(r) /\ ToCome(r) \in Nat /\ Occurrences(r) \in Nat
  BY ComingFacts, AheadFinite
<1>3. ToCome(r)' + 0 <= ToCome(r) + (IF faults' = faults THEN 0 ELSE Occurrences(r))
  BY <1>2
<1>4. Due(r)' => Due(r)
  BY DEF Due, Unsent, Halted, Holds
<1>5. /\ rows'[r] # Null => Deliveries(r) # {}
      /\ starts = 0 => phase' = "down" /\ rows'[r] = Null
  BY <1>1 DEF InBudget
<1>6. faults' \in Nat /\ faults <= faults'
  BY <1>1
<1> QED
  BY <1>1, <1>3, <1>4, <1>5, <1>6, BudgetKeep

\* Every step of the process keeps every request within its budget.
LEMMA BudgetNext ==
    ASSUME OneWatcherPerWallet, MaxCleans = 0 \/ SingleWallet, BudgetInv, [ServiceNext]_svars
    PROVE  BudgetInv'
<1>0. /\ ServiceInv /\ SlotCore /\ Sessions /\ TypeInv /\ C!IntakeInv
      /\ \A r \in Request : InBudget(r)
      /\ SingleWallet \/ \A c \in Caller : cleaning[c] = Null
      /\ claim \in [{Proc} -> C!Claim] /\ tick \in [Watcher -> Tick]
      /\ SingleWallet \/ (MaxCleans = 0 /\ cleans = 0)
      /\ rows \in [Request -> Row \union {Null}]
  BY IntakeParts DEF BudgetInv, ServiceInv, ServiceTypeOK, TypeInv, TypeOK, StoreTypeOK
<1>1. ServiceInv' /\ TypeInv'
  BY <1>0, ServiceInvNext DEF ServiceInv
<1>a. ASSUME SlotCore', Sessions', \A r \in Request : InBudget(r)',
             SingleWallet \/ \A c \in Caller : cleaning'[c] = Null
      PROVE  BudgetInv'
  BY <1>1, <1>a DEF BudgetInv
\* A step that sends nothing.
<1>b. ASSUME UNCHANGED <<tx, signedFor>>, \A p \in Watcher : tick'[p] \in {tick[p], Idle},
             rows' = rows
      PROVE  SlotCore' /\ \A r \in Request : Slots(r)' = Slots(r)
  BY <1>0, <1>1, <1>b, SlotAside
<1>2. ASSUME NEW p \in Watcher, Watch(p) PROVE BudgetInv'
  <2>1. cleaning' = cleaning
    BY <1>2 DEF Watch, cleanVars
  <2> QED
    BY <1>0, <1>1, <1>2, <2>1, <1>a, WatchBudget
<1>3. ASSUME NEW W \in Configs, Start(W) PROVE BudgetInv'
  <2>1. /\ UNCHANGED <<tx, signedFor, tick, rows, cleaning, claim, owner, committed>>
        /\ phase = "down" /\ phase' = "up"
    BY <1>3 DEF Start, vars, storeVars, nodeVars, localVars, cleanVars, consumerVars
  <2>2. SlotCore' /\ \A r \in Request : Slots(r)' = Slots(r)
    BY <2>1, <1>b
  <2>3. Sessions'
    BY <1>0, <2>1 DEF Sessions
  <2> QED
    BY <1>0, <1>3, <2>1, <2>2, <2>3, <1>a, StartBudget
<1>4. CASE Gone
  <2>1. /\ UNCHANGED <<tx, signedFor, rows>> /\ \A p \in Watcher : tick'[p] = Idle
        /\ \A c \in Caller : cleaning'[c] = Null
        /\ claim'[Proc] = C!Down
    BY <1>0, <1>4 DEF Gone, storeVars, nodeVars
  <2>2. SlotCore' /\ \A r \in Request : Slots(r)' = Slots(r)
    BY <2>1, <1>b
  <2>3. Sessions'
    BY <2>1 DEF Sessions, C!Down
  <2> QED
    BY <1>4, <2>1, <2>2, <2>3, <1>a, GoneBudget
<1>5. CASE Sigterm
  <2>1. /\ UNCHANGED <<tx, signedFor, tick, rows, cleaning, owner, committed>>
        /\ phase' = "stopping" /\ claim' = [claim EXCEPT ![Proc].live = FALSE]
    BY <1>5 DEF Sigterm, vars, storeVars, nodeVars, localVars, cleanVars
  <2>2. SlotCore' /\ \A r \in Request : Slots(r)' = Slots(r)
    BY <2>1, <1>b
  <2>3. /\ ~ claim'[Proc].live /\ claim'[Proc].step = claim[Proc].step
        /\ claim'[Proc].pos = claim[Proc].pos /\ claim'[Proc].marked = claim[Proc].marked
    BY <1>0, <2>1 DEF C!Claim
  <2>4. Sessions'
    BY <1>0, <2>1, <2>3 DEF Sessions
  <2> QED
    BY <1>0, <1>5, <2>1, <2>2, <2>4, <1>a, SigtermBudget
<1>6. ASSUME NEW p \in Watcher, Cancelled(p) PROVE BudgetInv'
  <2>1. /\ UNCHANGED <<tx, signedFor, rows, cleaning, claim, owner, committed, phase>>
        /\ \A q \in Watcher : tick'[q] \in {tick[q], Idle}
    BY <1>0, <1>6 DEF Cancelled, storeVars, nodeVars, cleanVars, consumerVars
  <2>2. SlotCore' /\ \A r \in Request : Slots(r)' = Slots(r)
    BY <2>1, <1>b
  <2>3. Sessions'
    BY <1>0, <2>1 DEF Sessions
  <2> QED
    BY <1>0, <1>6, <2>1, <2>2, <2>3, <1>a, CancelledBudget
<1>7. CASE Consume
  <2>1. UNCHANGED <<tx, signedFor, tick, cleaning>>
    BY <1>7 DEF Consume, nodeVars, cleanVars
  <2>2. Sessions' /\ \A r \in Request : Receives(r)
    BY <1>0, <1>7, SessionStep
  <2>3. ASSUME NEW r \in Request, rows'[r] # rows[r] PROVE rows'[r].submitted = Null
    <3>1. UNCHANGED storeVars \/ Inserts
      BY <1>0, <1>7, ConsumerTable DEF Consume, ConsumerStep
    <3>2. Beside
      BY <1>0, <1>7, <3>1, ConsumerTable DEF Consume, ConsumerStep, Beside
    <3>3. rows'[r] = Null \/ \E w \in Wallet : rows'[r] = NewRow(w)
      BY <1>0, <2>3, <3>2, BesideRows
    <3>4. rows'[r] # Null
      BY <2>2, <2>3 DEF Receives
    <3>5. PICK w \in Wallet : rows'[r] = NewRow(w)
      BY <3>3, <3>4
    <3>6. NewRow(w).submitted = Null
      BY DEF NewRow
    <3> QED
      BY <3>5, <3>6
  <2>4. SlotCore' /\ \A r \in Request : Slots(r)' = Slots(r)
    <3>1. \A r \in Request : rows[r] # Null => rows'[r] = rows[r]
      BY <2>2 DEF Receives
    <3> QED
      BY <1>0, <1>1, <2>1, <2>3, <3>1, SlotAside
  <2> QED
    BY <1>0, <1>7, <2>1, <2>2, <2>4, <1>a, ConsumeBudget
<1>8. ASSUME NEW c \in Caller, CleanDelete(c) PROVE BudgetInv'
  <2>1. /\ UNCHANGED <<tx, signedFor, tick, faults, phase, starts, inFlight>>
        /\ UNCHANGED <<claim, owner, committed>>
        /\ cleaning[c] # Null /\ Delete(cleaning[c])
    BY <1>8 DEF CleanDelete, nodeVars, localVars, consumerVars, processVars
  <2>2. SingleWallet
    BY <1>0, <2>1
  <2>3. \A r \in Request : rows'[r] \in {rows[r], Null}
    BY <1>0, <2>1 DEF Delete
  <2>4. SlotCore' /\ \A r \in Request : Slots(r)' = Slots(r)
    BY <1>0, <1>1, <2>1, <2>2, <2>3, SlotAside
  <2>5. Sessions'
    BY <1>0, <2>1 DEF Sessions
  <2>6. \A r \in Request : InBudget(r)'
    BY <2>1, <2>3, <2>4, AsideBudget
  <2> QED
    BY <2>2, <2>4, <2>5, <2>6, <1>a
<1>9. CASE \/ \E c \in Caller : CleanRead(c) \/ CleanFails(c)
           \/ Network \/ UNCHANGED svars
  <2>1. /\ UNCHANGED <<tx, signedFor, tick, rows, phase, starts, inFlight>>
        /\ UNCHANGED <<claim, owner, committed>>
        /\ faults' \in {faults, faults + 1}
    <3>1. ASSUME NEW c \in Caller, CleanRead(c) \/ CleanFails(c)
          PROVE  /\ UNCHANGED <<tx, signedFor, tick, rows, phase, starts, inFlight>>
                 /\ UNCHANGED <<claim, owner, committed>>
                 /\ faults' \in {faults, faults + 1}
      BY <3>1 DEF CleanRead, CleanFails, C!Fault, vars, storeVars, nodeVars, localVars,
                  consumerVars, processVars
    <3>2. CASE Network \/ UNCHANGED svars
      BY <3>2 DEF Network, ChainStep, Chain, MineBlock, ConfirmBlock, SlowBlock, Reorg, svars,
                  vars, storeVars, nodeVars, localVars, consumerVars, processVars
    <3> QED
      BY <1>9, <3>1, <3>2
  <2>2. SingleWallet \/ cleaning' = cleaning
    <3>1. ASSUME NEW c \in Caller, CleanRead(c) \/ CleanFails(c) PROVE SingleWallet
      BY <1>0, <3>1, ServiceAssumption DEF CleanRead, CleanFails
    <3>2. CASE Network \/ UNCHANGED svars
      BY <3>2 DEF Network, svars, cleanVars
    <3> QED
      BY <1>9, <3>1, <3>2
  <2>3. SlotCore' /\ \A r \in Request : Slots(r)' = Slots(r)
    BY <2>1, <1>b
  <2>4. Sessions'
    BY <1>0, <2>1 DEF Sessions
  <2>5. \A r \in Request : InBudget(r)'
    BY <2>1, <2>3, AsideBudget
  <2> QED
    BY <1>0, <2>2, <2>3, <2>4, <2>5, <1>a
<1> QED
  BY <1>2, <1>3, <1>4, <1>5, <1>6, <1>7, <1>8, <1>9 DEF ServiceNext, Die, Exit, Panic

LEMMA BudgetInit == ServiceInit => BudgetInv
<1> SUFFICES ASSUME ServiceInit PROVE BudgetInv
  OBVIOUS
<1>1. SlotCore
  BY SlotInit DEF ServiceInit, SlotInv
<1>2. claim[Proc] = C!Down
  BY DEF ServiceInit, C!Init
<1>3. Sessions
  BY <1>2 DEF Sessions, C!Down, ServiceInit, Init
<1>4. ASSUME NEW r \in Request PROVE InBudget(r)
  <2>1. Accepted = {}
    BY DEF ServiceInit, Init, NodeInit, Accepted
  <2>2. Slots(r) = {} /\ rows[r] = Null /\ phase = "down" /\ starts = 0
    BY <2>1 DEF ServiceInit, Init, StoreInit, Slots
  <2> QED
    BY <2>2 DEF InBudget
<1>5. \A c \in Caller : cleaning[c] = Null
  BY DEF ServiceInit
<1> QED
  BY <1>1, <1>3, <1>4, <1>5, ServiceInvInit DEF BudgetInv

\* The invariant behind the bound: while nobody calls a clean-up, or all
\* requests are at one wallet, what was sent of a request and what may still
\* come to the process is within the budget of the starts and faults so far.
THEOREM BudgetKept ==
    ASSUME OneWatcherPerWallet, MaxCleans = 0 \/ SingleWallet
    PROVE  ServiceSpec => []BudgetInv
<1>1. BudgetInv /\ [ServiceNext]_svars => BudgetInv'
  BY BudgetNext
<1> QED
  BY <1>1, BudgetInit, PTL DEF ServiceSpec

\* End to end (consumer.go:53-85, loop.go:430-448, main.go:175-181): from any
\* topic, over faults, lost commits, shutdowns, crashes, panics and restarts,
\* a request is executed at most once per delivery of each start and fault,
\* and once more per process that ended.  At one wallet, clean-ups
\* (meta_transaction_api.go:40) do not add to that, although they delete rows
\* that a watcher is about to send.
THEOREM RestartsExecuteOnceMore ==
    ASSUME OneWatcherPerWallet, MaxCleans = 0 \/ SingleWallet
    PROVE  ServiceSpec => []ServiceExecutions
<1>1. ASSUME BudgetInv PROVE ServiceExecutions
  <2> SUFFICES ASSUME NEW r \in Request, starts > 0
               PROVE  Cardinality(Slots(r)) <= Budget(r)
    BY DEF ServiceExecutions, Budget
  <2>1. /\ InBudget(r) /\ starts \in Nat /\ faults \in Nat /\ ToCome(r) \in Nat
        /\ Cardinality(Slots(r)) \in Nat
    BY <1>1, ComingFacts, SlotsFinite DEF BudgetInv, ServiceInv, ServiceTypeOK, TypeOK
  <2>2. Budget(r) \in Int
    BY <2>1, BudgetFacts
  <2>3. Cardinality(Slots(r)) + ToCome(r) <= Budget(r)
    BY <2>1 DEF InBudget
  <2> QED
    BY <2>1, <2>2, <2>3
<1> QED
  BY <1>1, BudgetKept, PTL

\* The comment at loop.go:103 holds over restarts too: processes that end in
\* the middle of a tick leave no second submitted row behind, and neither do
\* clean-ups at one wallet.
THEOREM OneSubmittedOverRestarts ==
    ASSUME OneWatcherPerWallet, MaxCleans = 0 \/ SingleWallet
    PROVE  ServiceSpec => []AtMostOneActive
<1>1. BudgetInv => AtMostOneActive
  BY DEF BudgetInv, SlotCore
<1> QED
  BY <1>1, BudgetKept, PTL

\* No restart lets two requests compete for a nonce: a process that ends
\* between the nonce (loop.go:353) and the transaction (loop.go:430) leaves
\* the nonce free for the next one.
THEOREM NoncesOverRestarts ==
    ASSUME OneWatcherPerWallet, MaxCleans = 0 \/ SingleWallet
    PROVE  ServiceSpec => []OneRequestPerNonce
<1>1. BudgetInv => OneRequestPerNonce
  BY DEF BudgetInv, SlotCore
<1> QED
  BY <1>1, BudgetKept, PTL

-----------------------------------------------------------------------------
(* Without boosts.                                                         *)

\* A step of a watcher keeps rows and transactions in line, and is no boost.
LEMMA FollowWatch ==
    ASSUME DisableBoosting, FollowInv, NEW p \in Watcher, Step(p) \/ Abort(p)
    PROVE  /\ OneTxPerNonce' /\ RowTxs'
           /\ \A q \in Watcher : tick'[q].step \notin BoostStep
<1>1. /\ SlotCore /\ TypeInv /\ OneTxPerNonce /\ RowTxs
      /\ \A q \in Watcher : tick[q].step \notin BoostStep
      /\ tick \in [Watcher -> Tick] /\ rows \in [Request -> Row \union {Null}]
  BY DEF FollowInv, BudgetInv, SlotCore, TypeInv, TypeOK, StoreTypeOK
\* p goes to u.
<1>a. ASSUME NEW from, NEW u, Goto(p, from, u), u.step \notin BoostStep
      PROVE  \A q \in Watcher : tick'[q].step \notin BoostStep
  BY <1>1, <1>a DEF Goto
<1>b. Idle.step \notin BoostStep
  BY DEF Idle, At, BoostStep
\* ... and nothing is sent or stored.
<1>c. ASSUME NEW from, NEW u, Goto(p, from, u), u.step \notin BoostStep, UNCHANGED <<tx, rows>>
      PROVE  /\ OneTxPerNonce' /\ RowTxs'
             /\ \A q \in Watcher : tick'[q].step \notin BoostStep
  <2>1. OneTxPerNonce' /\ RowTxs'
    BY <1>1, <1>c, TxsKeep
  <2> QED
    BY <1>a, <1>c, <2>1
<1>d. ASSUME NEW st, NEW from, st \notin BoostStep,
             Goto(p, from, [tick[p] EXCEPT !.step = st]), UNCHANGED <<tx, rows>>
      PROVE  /\ OneTxPerNonce' /\ RowTxs'
             /\ \A q \in Watcher : tick'[q].step \notin BoostStep
  <2> DEFINE u == [tick[p] EXCEPT !.step = st]
  <2>1. u.step = st
    BY <1>1 DEF Tick
  <2> HIDE DEF u
  <2> QED
    BY <1>c, <1>d, <2>1 DEF u
<1>2. CASE Quiet(p)
  <2>1. OneTxPerNonce' /\ RowTxs'
    BY <1>1, <1>2, TxsKeep DEF Quiet
  <2> QED
    BY <1>1, <1>2, <2>1 DEF Quiet
<1>3. CASE GivesUp(p)
  BY <1>3, <1>d DEF GivesUp, BoostStep
<1>4. ASSUME NEW h \in Hash, Submits(p, h)
      PROVE  /\ OneTxPerNonce' /\ RowTxs'
             /\ \A q \in Watcher : tick'[q].step \notin BoostStep
  <2> DEFINE u == [tick[p] EXCEPT !.step = "recordSubmit", !.row.hash = h]
  <2>1. Goto(p, "sendSubmit", u) /\ u.step = "recordSubmit"
    BY <1>1, <1>4 DEF Submits, Tick
  <2> HIDE DEF u
  <2>2. \A q \in Watcher : tick'[q].step \notin BoostStep
    BY <2>1, <1>a DEF BoostStep
  <2> QED
    BY <1>1, <1>4, <2>2, TxsSubmit
<1>5. CASE PublishMined(p)
  BY <1>5, <1>d DEF PublishMined, storeVars, nodeVars, BoostStep
<1>6. CASE RecordSubmit(p)
  <2> DEFINE u == [tick[p] EXCEPT !.step = "submitted"]
  <2>1. Goto(p, "recordSubmit", u) /\ u.step = "submitted"
    BY <1>1, <1>6 DEF RecordSubmit, Tick
  <2> HIDE DEF u
  <2>2. \A q \in Watcher : tick'[q].step \notin BoostStep
    BY <2>1, <1>a DEF BoostStep
  <2> QED
    BY <1>1, <1>6, <2>2, TxsRecord
<1>7. CASE PublishSubmitted(p)
  BY <1>7, <1>b, <1>c DEF PublishSubmitted, storeVars, nodeVars
<1>8. CASE PublishFailed(p)
  BY <1>8, <1>d DEF PublishFailed, storeVars, nodeVars, BoostStep
<1>9. CASE DeleteFailed(p)
  <2>1. Goto(p, "deleteFailed", Idle) /\ Delete(tick[p].id) /\ tx' = tx
    BY <1>9 DEF DeleteFailed, nodeVars
  <2>2. \A r \in Request : rows'[r] # Null => rows'[r] = rows[r]
    BY <1>1, <2>1 DEF Delete
  <2>3. OneTxPerNonce' /\ RowTxs'
    BY <1>1, <2>1, <2>2, TxsKeep
  <2> QED
    BY <1>a, <1>b, <2>1, <2>3
<1>10. CASE Abort(p)
  <2>1. Goto(p, tick[p].step, Idle) /\ UNCHANGED <<tx, rows>>
    BY <1>10 DEF Abort, Goto, storeVars, nodeVars
  <2> QED
    BY <1>b, <1>c, <2>1
<1>11. CASE Step(p)
  BY <1>1, <1>2, <1>3, <1>4, <1>5, <1>6, <1>7, <1>8, <1>9, <1>11, QuietStep
<1> QED
  BY <1>10, <1>11

\* Every step of the process keeps rows and transactions in line.
LEMMA FollowNext ==
    ASSUME DisableBoosting, OneWatcherPerWallet, MaxCleans = 0 \/ SingleWallet,
           FollowInv, [ServiceNext]_svars
    PROVE  FollowInv'
<1>0. /\ BudgetInv' /\ BudgetInv /\ OneTxPerNonce /\ RowTxs
      /\ \A q \in Watcher : tick[q].step \notin BoostStep
  BY BudgetNext DEF FollowInv
<1>1. /\ C!IntakeInv /\ TypeInv /\ rows \in [Request -> Row \union {Null}]
      /\ tick \in [Watcher -> Tick]
  BY <1>0 DEF BudgetInv, ServiceInv, TypeInv, TypeOK, StoreTypeOK
<1>2. ASSUME NEW p \in Watcher, Watch(p) PROVE FollowInv'
  <2>1. Step(p) \/ Abort(p)
    BY <1>2 DEF Watch
  <2> QED
    BY <1>0, <2>1, FollowWatch DEF FollowInv
\* Nothing is sent or recorded.
<1>a. ASSUME tx' = tx, \A p \in Watcher : tick'[p] \in {tick[p], Idle},
             \A r \in Request : rows'[r] # Null /\ rows'[r] # rows[r] => rows'[r].submitted = Null
      PROVE  FollowInv'
  <2>1. \A r \in Request : rows'[r] # Null /\ rows'[r].submitted # Null => rows'[r] = rows[r]
    BY <1>a
  <2>2. OneTxPerNonce' /\ RowTxs'
    BY <1>0, <1>a, <2>1, TxsKeep
  <2>3. \A q \in Watcher : tick'[q].step \notin BoostStep
    BY <1>0, <1>a DEF Idle, At, BoostStep
  <2> QED
    BY <1>0, <2>2, <2>3 DEF FollowInv
<1>3. CASE Gone
  BY <1>3, <1>a DEF Gone, storeVars, nodeVars
<1>4. ASSUME NEW p \in Watcher, Cancelled(p) PROVE FollowInv'
  <2>1. \A q \in Watcher : tick'[q] \in {tick[q], Idle}
    BY <1>1, <1>4 DEF Cancelled
  <2> QED
    BY <1>4, <1>a, <2>1 DEF Cancelled, storeVars, nodeVars
<1>5. CASE Consume
  <2>1. tx' = tx /\ tick' = tick
    BY <1>5 DEF Consume, nodeVars
  <2>2. ASSUME NEW r \in Request, rows'[r] # Null, rows'[r] # rows[r]
        PROVE  rows'[r].submitted = Null
    <3>1. UNCHANGED storeVars \/ Inserts
      BY <1>1, <1>5, ConsumerTable DEF Consume, ConsumerStep
    <3>2. Beside
      BY <1>1, <1>5, <3>1, ConsumerTable DEF Consume, ConsumerStep, Beside
    <3>3. PICK w \in Wallet : rows'[r] = NewRow(w)
      BY <1>1, <2>2, <3>2, BesideRows
    <3> QED
      BY <3>3 DEF NewRow
  <2> QED
    BY <1>a, <2>1, <2>2
<1>6. ASSUME NEW c \in Caller, CleanDelete(c) PROVE FollowInv'
  <2>1. tx' = tx /\ tick' = tick /\ Delete(cleaning[c])
    BY <1>6 DEF CleanDelete, nodeVars, localVars
  <2>2. \A r \in Request : rows'[r] # Null => rows'[r] = rows[r]
    BY <1>1, <2>1 DEF Delete
  <2> QED
    BY <1>a, <2>1, <2>2
<1>7. ASSUME UNCHANGED <<tx, tick, rows>> PROVE FollowInv'
  BY <1>7, <1>a
<1>8. ASSUME NEW W \in Configs, Start(W) PROVE FollowInv'
  BY <1>8, <1>7 DEF Start, vars, storeVars, nodeVars, localVars
<1>9. CASE Sigterm
  BY <1>9, <1>7 DEF Sigterm, vars, storeVars, nodeVars, localVars
<1>10. ASSUME NEW c \in Caller, CleanRead(c) \/ CleanFails(c) PROVE FollowInv'
  BY <1>10, <1>7 DEF CleanRead, CleanFails, vars, storeVars, nodeVars, localVars
<1>11. CASE Network \/ UNCHANGED svars
  BY <1>11, <1>7 DEF Network, ChainStep, Chain, MineBlock, ConfirmBlock, SlowBlock, Reorg,
                     svars, vars, storeVars, nodeVars, localVars
<1> QED
  BY <1>2, <1>3, <1>4, <1>5, <1>6, <1>8, <1>9, <1>10, <1>11 DEF ServiceNext, Die, Exit, Panic

LEMMA FollowInit == ServiceInit => FollowInv
<1> SUFFICES ASSUME ServiceInit PROVE FollowInv
  OBVIOUS
<1>1. SingleInv
  BY SingleInit DEF ServiceInit
<1> QED
  BY <1>1, BudgetInit DEF FollowInv, SingleInv, Unboosted

\* The invariant behind the next theorem, with boosting off.
THEOREM FollowInvariant ==
    ASSUME DisableBoosting, OneWatcherPerWallet, MaxCleans = 0 \/ SingleWallet
    PROVE  ServiceSpec => []FollowInv
<1>1. FollowInv /\ [ServiceNext]_svars => FollowInv'
  BY FollowNext
<1> QED
  BY <1>1, FollowInit, PTL DEF ServiceSpec

\* With boosting off, the nonce of a submitted row is spent by no transaction
\* but the one whose hash the row holds (loop.go:133), over shutdowns between
\* the transaction and its record (loop.go:430-448), over restarts, replayed
\* requests and, at one wallet, clean-ups.
THEOREM FollowsOverRestarts ==
    ASSUME DisableBoosting, OneWatcherPerWallet, MaxCleans = 0 \/ SingleWallet
    PROVE  ServiceSpec => []NoOrphanedInclusion
<1>1. FollowInv => NoOrphanedInclusion
  BY TxsFollow DEF FollowInv
<1> QED
  BY <1>1, FollowInvariant, PTL

-----------------------------------------------------------------------------
(* What clients are told, while nobody calls a clean-up.                   *)

\* The invariant of the ticker's refinement, in a process without clean-ups.
RestartInv == ServiceInv /\ TellInv /\ \A c \in Caller : cleaning[c] = Null

\* Without clean-ups, a step of the process is a step of the ticker, or inserts
\* a request, or keeps the table; the last two report and sign nothing, and
\* leave ticks alone or end them.
LEMMA UncleanedMoves ==
    ASSUME MaxCleans = 0, RestartInv, [ServiceNext]_svars
    PROVE  /\ \A c \in Caller : cleaning'[c] = Null
           /\ \/ [Next]_vars
              \/ /\ UNCHANGED storeVars \/ Inserts
                 /\ UNCHANGED <<published, lost, signedFor>>
                 /\ \A p \in Watcher : tick'[p] \in {tick[p], Idle}
<1>0. /\ C!IntakeInv /\ cleans = 0 /\ tick \in [Watcher -> Tick]
      /\ \A c \in Caller : cleaning[c] = Null
  BY DEF RestartInv, ServiceInv, ServiceTypeOK, TypeInv, TypeOK
<1>1. ASSUME NEW p \in Watcher, Watch(p) PROVE [Next]_vars /\ cleaning' = cleaning
  BY <1>1 DEF Watch, Next, cleanVars
<1>2. CASE Network
  BY <1>0, <1>2 DEF Network, Next, cleanVars
<1>3. CASE Gone
  <2>1. \A c \in Caller : cleaning'[c] = Null
    BY <1>3 DEF Gone
  <2>2. /\ UNCHANGED storeVars /\ UNCHANGED <<published, lost, signedFor>>
        /\ \A p \in Watcher : tick'[p] = Idle
    BY <1>3 DEF Gone, statusVars
  <2> QED
    BY <2>1, <2>2
<1>4. ASSUME NEW p \in Watcher, Cancelled(p)
      PROVE  /\ cleaning' = cleaning /\ UNCHANGED storeVars
             /\ UNCHANGED <<published, lost, signedFor>>
             /\ \A q \in Watcher : tick'[q] \in {tick[q], Idle}
  BY <1>0, <1>4 DEF Cancelled, statusVars, cleanVars
<1>5. CASE Consume
  <2>1. UNCHANGED storeVars \/ Inserts
    BY <1>0, <1>5, ConsumerTable DEF Consume, ConsumerStep
  <2> QED
    BY <1>0, <1>5, <2>1 DEF Consume, statusVars, cleanVars
<1>6. ASSUME NEW W \in Configs, Start(W) PROVE UNCHANGED vars /\ cleaning' = cleaning
  BY <1>6 DEF Start, cleanVars
<1>7. CASE Sigterm \/ UNCHANGED svars
  BY <1>0, <1>7 DEF Sigterm, svars, cleanVars
<1>8. ASSUME NEW c \in Caller PROVE ~ CleanRead(c) /\ ~ CleanDelete(c) /\ ~ CleanFails(c)
  BY <1>0 DEF CleanRead, CleanDelete, CleanFails
<1> QED
  BY <1>0, <1>1, <1>2, <1>3, <1>4, <1>5, <1>6, <1>7, <1>8 DEF ServiceNext, Die, Exit, Panic

\* Every step of such a process keeps the invariant, is a step of a lane or does
\* not show, and drops no row unless it is a step of the ticker.
LEMMA UncleanedStep ==
    ASSUME OneWatcherPerWallet, MaxCleans = 0, RestartInv, [ServiceNext]_svars
    PROVE  /\ RestartInv'
           /\ WL!LaneNext \/ UNCHANGED WL!laneVars
           /\ [Next]_vars \/ \A r \in Request : rows[r] # Null => rows'[r] = rows[r]
<1>0. /\ TellInv /\ ServiceInv' /\ TypeInv' /\ rows \in [Request -> Row \union {Null}]
      /\ \A c \in Caller : cleaning'[c] = Null
  BY ServiceInvNext, UncleanedMoves
     DEF RestartInv, ServiceInv, TypeInv, TypeOK, StoreTypeOK
<1>1. CASE [Next]_vars
  BY <1>0, <1>1, TellNext, SimNext DEF RestartInv
<1>2. ASSUME UNCHANGED <<published, lost, signedFor>>,
             \A p \in Watcher : tick'[p] \in {tick[p], Idle},
             UNCHANGED storeVars
      PROVE  TellInv' /\ UNCHANGED WL!laneVars /\ rows' = rows
  BY <1>0, <1>2, TellAside, SimKeep DEF storeVars
<1>3. ASSUME UNCHANGED <<published, lost, signedFor>>,
             \A p \in Watcher : tick'[p] \in {tick[p], Idle},
             NEW r \in Request, NEW w \in Wallet, Upsert(r, w)
      PROVE  /\ TellInv'
             /\ WL!LaneNext \/ UNCHANGED WL!laneVars
             /\ \A s \in Request : rows[s] # Null => rows'[s] = rows[s]
  <2>1. \A s \in Request : rows[s] # Null => rows'[s] = rows[s]
    BY <1>0, <1>3 DEF Upsert, OnConflict
  <2>2. \A s \in Request : rows'[s] \in {rows[s], NewRow(w)}
    BY <1>0, <1>3 DEF Upsert, OnConflict
  <2>3. NewRow(w).submitted = Null /\ NewRow(w).mined = Null /\ NewRow(w).hash = Null
    BY DEF NewRow
  <2>4. TellInv'
    BY <1>0, <1>3, <2>1, <2>2, <2>3, TellAside
  <2> QED
    BY <1>0, <1>3, <2>1, <2>4, SimInsert
<1>4. \/ [Next]_vars
      \/ /\ UNCHANGED storeVars \/ \E r \in Request, w \in Wallet : Upsert(r, w)
         /\ UNCHANGED <<published, lost, signedFor>>
         /\ \A p \in Watcher : tick'[p] \in {tick[p], Idle}
  BY UncleanedMoves DEF Inserts
<1>5. /\ TellInv'
      /\ WL!LaneNext \/ UNCHANGED WL!laneVars
      /\ [Next]_vars \/ \A r \in Request : rows[r] # Null => rows'[r] = rows[r]
  <2> DEFINE B == /\ UNCHANGED <<published, lost, signedFor>>
                  /\ \A p \in Watcher : tick'[p] \in {tick[p], Idle}
  <2>1. CASE [Next]_vars
    BY <1>1, <2>1 DEF RestartInv
  <2>2. CASE B /\ UNCHANGED storeVars
    BY <1>2, <2>2
  <2>3. ASSUME B, NEW r \in Request, NEW w \in Wallet, Upsert(r, w)
        PROVE  /\ TellInv'
               /\ WL!LaneNext \/ UNCHANGED WL!laneVars
               /\ \A s \in Request : rows[s] # Null => rows'[s] = rows[s]
    BY <1>3, <2>3
  <2> QED
    BY <1>4, <2>1, <2>2, <2>3
<1> QED
  BY <1>0, <1>5 DEF RestartInv

LEMMA RestartInit == ServiceInit => RestartInv
BY ServiceInvInit, TellInit DEF ServiceInit, RestartInv

LEMMA UncleanedInvariant ==
    ASSUME OneWatcherPerWallet, MaxCleans = 0
    PROVE  ServiceSpec => []RestartInv
<1>1. RestartInv /\ [ServiceNext]_svars => RestartInv'
  BY UncleanedStep
<1> QED
  BY <1>1, RestartInit, PTL DEF ServiceSpec

\* While nobody calls a clean-up, each tick has told its client what it owes by
\* then, and what the table says of a transaction was told, although shutdowns,
\* crashes and panics end ticks between any two calls (loop.go:263-458,
\* main.go:146-181).
THEOREM TellsInOrderOverRestarts ==
    ASSUME OneWatcherPerWallet, MaxCleans = 0
    PROVE  ServiceSpec => []TellInv
<1>1. RestartInv => TellInv
  BY DEF RestartInv
<1> QED
  BY <1>1, UncleanedInvariant, PTL

\* No restart lets a client hear Confirmed for a transaction it was not told
\* Mined of: the mined columns outlive the process that told it (loop.go:264,
\* 299).
THEOREM MinedFirstOverRestarts ==
    ASSUME OneWatcherPerWallet, MaxCleans = 0
    PROVE  ServiceSpec => []ConfirmedAfterMined
<1>1. TellInv => ConfirmedAfterMined
  BY DEF TellInv
<1> QED
  BY <1>1, TellsInOrderOverRestarts, PTL

\* The next process never drops a request whose outcome for the transaction
\* in its row no process has told (loop.go:205, 301, 397).
THEOREM NoSilentDropOverRestarts ==
    ASSUME OneWatcherPerWallet, MaxCleans = 0
    PROVE  ServiceSpec => DropsAreReported
<1> DEFINE Drop == \A r \in Request : rows[r] # Null /\ rows'[r] = Null =>
                      \/ Failed(r) \in Reported
                      \/ Confirmed(r, rows[r].hash) \in Reported
<1>1. RestartInv /\ [ServiceNext]_svars => [Drop]_vars
  <2> SUFFICES ASSUME RestartInv, [ServiceNext]_svars PROVE Drop
    OBVIOUS
  <2>1. TellInv /\ ([Next]_vars \/ \A r \in Request : rows[r] # Null => rows'[r] = rows[r])
    BY UncleanedStep DEF RestartInv
  <2> QED
    BY <2>1, DropTold
<1>2. ([][Drop]_vars) <=> DropsAreReported
  BY DEF DropsAreReported
<1> QED
  BY <1>1, <1>2, UncleanedInvariant, PTL DEF ServiceSpec

\* The process implements the promise of WalletLane, for any topic, number of
\* wallets, starts and faults, while nobody calls a clean-up: the end of a
\* process in the middle of a tick, a replayed event and a start with other
\* wallets are no steps a client can see (main.go:126-181, consumer.go:53-85).
THEOREM RestartsImplementLane ==
    ASSUME OneWatcherPerWallet, MaxCleans = 0
    PROVE  ServiceSpec => ImplementsLane
<1>1. ServiceInit => WL!LaneInit
  BY LaneStart DEF ServiceInit
<1>2. RestartInv /\ [ServiceNext]_svars => [WL!LaneNext]_(WL!laneVars)
  BY UncleanedStep
<1> QED
  BY <1>1, <1>2, UncleanedInvariant, PTL DEF ServiceSpec, ImplementsLane, WL!LaneSpec
=============================================================================
