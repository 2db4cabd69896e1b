------------------------------ MODULE Consumer ------------------------------
(***************************************************************************)
(* The request consumer (internal/consumer/consumer.go): ConsumeClaim on   *)
(* one partition of the request topic, run by the members of a consumer    *)
(* group (the replicas of the service), with the sarama session around it. *)
(* An offset is a position in Log; a position p means that Log[1..p] is    *)
(* done.                                                                   *)
(***************************************************************************)
EXTENDS Sequences, RequestStore

CONSTANTS
    Member,     \* processes that join the consumer group
    Log,        \* the partition: a sequence of events
    MaxFaults   \* bound: failed statements, rebalances and crashes

\* An event is a CloudEvent whose data names the request under a JSON key, or
\* is something json.Unmarshal rejects.  A "refused" one has a key "id" and an
\* id of 27 characters, but Postgres takes no row for it: the id holds a NUL, or
\* there is no key "data" and the column data is NOT NULL.
Event == [key : {"id", "requestId", "unparsable", "refused"}, req : Request]

ASSUME ConsumerAssumption ==
    /\ Log \in Seq(Event)
    /\ Null \notin Member
    /\ MaxFaults \in Nat

VARIABLES
    committed,  \* the group's committed position
    owner,      \* member of the current generation, or Null
    claim,      \* each member's claim
    stored,     \* history: positions whose request reached the table
    faults      \* faults so far

groupVars == <<committed, owner, claim>>
vars == <<storeVars, groupVars, stored, faults>>

Position == 0 .. Len(Log)

\* step is where ConsumeClaim stands, pos the events it has handled, marked
\* the session's marked position, live whether the session is not over.
Claim == [step   : {"down", "receive", "save", "mark", "ended"},
          pos    : Position,
          marked : Position,
          live   : BOOLEAN]

Down == [step |-> "down", pos |-> 0, marked |-> 0, live |-> FALSE]

TypeOK ==
    /\ StoreTypeOK
    /\ committed \in Position
    /\ owner \in Member \union {Null}
    /\ claim \in [Member -> Claim]
    /\ stored \subseteq 1 .. Len(Log)
    /\ faults \in Nat

Init ==
    /\ StoreInit
    /\ committed = 0
    /\ owner = Null
    /\ claim = [c \in Member |-> Down]
    /\ stored = {}
    /\ faults = 0

Fault ==
    /\ faults < MaxFaults
    /\ faults' = faults + 1

-----------------------------------------------------------------------------
(* Decoding.  encoding/json leaves TransactionEventData.ID empty when the   *)
(* object has no key "id", and an empty id is not 27 characters long.      *)

DecodedId(e) == IF e.key \in {"id", "refused"} THEN e.req ELSE Null

\* The event passes json.Unmarshal and the length check.
Valid(e) == e.key # "unparsable" /\ DecodedId(e) # Null

\* An INSERT of its row is not an error in itself.
Storable(e) == e.key # "refused"

\* The event after position n is one that Postgres always refuses.
AtRefused(n) == n < Len(Log) /\ ~ Storable(Log[n + 1])

-----------------------------------------------------------------------------
(* The consumer group.                                                     *)

\* Consume joins and is assigned the partition, from the committed position.
\* The broker has waited for the member of the earlier session to leave, or has
\* given up on it.
Join(c) ==
    /\ claim[c].step = "down"
    /\ \A d \in Member : ~ claim[d].live
    /\ IF \A d \in Member : claim[d].step = "down" THEN UNCHANGED faults ELSE Fault
    /\ owner' = c
    /\ claim' = [claim EXCEPT ![c] = [step |-> "receive", pos |-> committed,
                                      marked |-> committed, live |-> TRUE]]
    /\ UNCHANGED <<storeVars, committed, stored>>

\* A rebalance or SIGTERM ends the session: its context is cancelled and the
\* claim's channel is closed.
EndSession(c) ==
    /\ claim[c].live
    /\ Fault
    /\ claim' = [claim EXCEPT ![c].live = FALSE]
    /\ UNCHANGED <<storeVars, committed, owner, stored>>

\* sarama commits marked positions now and then; a member that is not of the
\* current generation is refused.
AutoCommit(c) ==
    /\ owner = c
    /\ claim[c].step # "down"
    /\ committed < claim[c].marked
    /\ committed' = claim[c].marked
    /\ UNCHANGED <<storeVars, owner, claim, stored, faults>>

-----------------------------------------------------------------------------
(* ConsumeClaim.                                                           *)

MarkMessage(cl) == [cl EXCEPT !.pos = cl.pos + 1, !.marked = cl.pos + 1,
                              !.step = "receive"]

\* Variant: returns an error on a bad event.
SkipReturns(c) ==
    /\ claim[c].step = "receive"
    /\ claim[c].pos < Len(Log)
    /\ ~ Valid(Log[claim[c].pos + 1])
    /\ claim' = [claim EXCEPT ![c] = [@ EXCEPT !.step = "ended", !.live = FALSE]]
    /\ UNCHANGED <<storeVars, committed, owner, stored, faults>>

\* An event that does not parse or whose id is invalid is marked and skipped.
\* select chooses freely, so events are taken even after the session's end.
Skip(c) ==
    /\ claim[c].step = "receive"
    /\ claim[c].pos < Len(Log)
    /\ ~ Valid(Log[claim[c].pos + 1])
    /\ claim' = [claim EXCEPT ![c] = MarkMessage(@)]
    /\ UNCHANGED <<storeVars, committed, owner, stored, faults>>

\* Variant: marks the event before it is stored.
ReceiveMarked(c) ==
    /\ claim[c].step = "receive"
    /\ claim[c].pos < Len(Log)
    /\ Valid(Log[claim[c].pos + 1])
    /\ claim' = [claim EXCEPT ![c] = [@ EXCEPT !.step = "save", !.marked = @ + 1]]
    /\ UNCHANGED <<storeVars, committed, owner, stored, faults>>

Receive(c) ==
    /\ claim[c].step = "receive"
    /\ claim[c].pos < Len(Log)
    /\ Valid(Log[claim[c].pos + 1])
    /\ claim' = [claim EXCEPT ![c].step = "save"]
    /\ UNCHANGED <<storeVars, committed, owner, stored, faults>>

\* The statement takes effect, under a wallet drawn at random.
Store(c) ==
    /\ Storable(Log[claim[c].pos + 1])
    /\ \E w \in Wallet : Upsert(DecodedId(Log[claim[c].pos + 1]), w)
    /\ stored' = stored \union {claim[c].pos + 1}

Save(c) ==
    /\ claim[c].step = "save"
    /\ Store(c)
    /\ claim' = [claim EXCEPT ![c].step = "mark"]
    /\ UNCHANGED <<committed, owner, faults>>

\* The statement fails because its context is cancelled, because Postgres
\* refuses the row, as it does on every redelivery, or by a fault.
Failure(c) ==
    \/ ~ claim[c].live /\ UNCHANGED faults
    \/ AtRefused(claim[c].pos) /\ UNCHANGED faults
    \/ claim[c].live /\ Fault

\* Variant: logs the error and marks the event all the same.
SaveFailsMarked(c) ==
    /\ claim[c].step = "save"
    /\ Failure(c)
    /\ \/ Store(c)
       \/ UNCHANGED <<storeVars, stored>>
    /\ claim' = [claim EXCEPT ![c] = MarkMessage(@)]
    /\ UNCHANGED <<committed, owner>>

\* Upsert reports an error, with or without effect: ConsumeClaim returns it,
\* the event stays unmarked, and sarama ends the session.
SaveFails(c) ==
    /\ claim[c].step = "save"
    /\ Failure(c)
    /\ \/ Store(c)
       \/ UNCHANGED <<storeVars, stored>>
    /\ claim' = [claim EXCEPT ![c] = [@ EXCEPT !.step = "ended", !.live = FALSE]]
    /\ UNCHANGED <<committed, owner>>

Mark(c) ==
    /\ claim[c].step = "mark"
    /\ claim' = [claim EXCEPT ![c] = MarkMessage(@)]
    /\ UNCHANGED <<storeVars, committed, owner, stored, faults>>

\* ConsumeClaim returns, and sarama commits what is marked before the loop in
\* New joins again.
Leave(c) ==
    /\ \/ claim[c].step = "ended"
       \/ claim[c].step = "receive" /\ ~ claim[c].live
    /\ claim' = [claim EXCEPT ![c] = Down]
    /\ committed' = IF owner = c /\ committed < claim[c].marked
                    THEN claim[c].marked ELSE committed
    /\ UNCHANGED <<storeVars, owner, stored, faults>>

\* After the session's end the closed channel yields a nil message, and
\* msg.Partition panics: the process dies with its uncommitted marks.
NilMessage(c) ==
    /\ claim[c].step = "receive"
    /\ ~ claim[c].live
    /\ claim' = [claim EXCEPT ![c] = Down]
    /\ UNCHANGED <<storeVars, committed, owner, stored, faults>>

\* The process dies anywhere.
Crash(c) ==
    /\ claim[c].step # "down"
    /\ Fault
    /\ claim' = [claim EXCEPT ![c] = Down]
    /\ UNCHANGED <<storeVars, committed, owner, stored>>

\* A watcher finishes a request and deletes its row (see Ticker).
Finish(r) ==
    /\ rows[r] # Null
    /\ Delete(r)
    /\ UNCHANGED <<groupVars, stored, faults>>

Handle(c) ==
    \/ Skip(c) \/ Receive(c) \/ Save(c) \/ SaveFails(c) \/ Mark(c)
    \/ Leave(c) \/ NilMessage(c)

Next ==
    \/ \E c \in Member : \/ Join(c) \/ EndSession(c) \/ AutoCommit(c)
                         \/ Handle(c) \/ Crash(c)
    \/ \E r \in Request : Finish(r)

Spec == Init /\ [][Next]_vars

-----------------------------------------------------------------------------
(* Properties.                                                             *)

\* Log[1..n] holds no valid request that did not reach the table.
Covered(n) == \A i \in 1 .. n : Valid(Log[i]) => i \in stored

\* At-least-once intake: the group never commits past a valid request that
\* did not reach the table, over rebalances, zombie members, failed
\* statements and crashes (consumer.go:80-85 marks only after Upsert).
NothingLost == Covered(committed)

\* The strengthening that makes NothingLost inductive: it holds of what every
\* claim has handled, committed or not.
IntakeInv ==
    /\ TypeOK
    /\ \A i \in stored : Storable(Log[i])
    /\ Covered(committed)
    /\ \A c \in Member :
         LET cl == claim[c]
         IN  /\ cl.marked <= cl.pos
             /\ Covered(cl.pos)
             /\ cl.step \in {"save", "mark"} =>
                  cl.pos < Len(Log) /\ Valid(Log[cl.pos + 1])
             /\ cl.step = "mark" => cl.pos + 1 \in stored

\* "Don't really want to update" (consumer.go:79): a redelivered request
\* never changes a row that is there, which a watcher may be following.
RowsKept ==
    [][\A r \in Request : rows[r] # Null /\ rows'[r] # Null => rows'[r] = rows[r]]_vars

\* A request in the form the README documents, with key "requestId", reaches
\* the table before its position is committed (consumer.go:35).
DocumentedStored ==
    \A i \in 1 .. committed : Log[i].key = "requestId" => i \in stored

\* The loop in New joins again after every session, ConsumeClaim goes on as
\* long as there are events, and sarama's default configuration commits marked
\* positions periodically (main.go:238-244).
Fairness ==
    /\ WF_vars(\E c \in Member : Join(c))
    /\ \A c \in Member : WF_vars(Handle(c)) /\ WF_vars(AutoCommit(c))

FairSpec == Spec /\ Fairness

\* The event at i or one before it is refused by Postgres for good.
Blocked(i) == \E j \in 1 .. i : AtRefused(j - 1)

\* Every event is committed in the end, stored if it is valid (NothingLost), and
\* neither an unparsable one nor one with a bad id blocks the partition
\* (consumer.go:54, 62); but one that Postgres always refuses blocks it for good,
\* with all that come after it (consumer.go:80-83, 100-109).
HandlesUpToRefused ==
    \A i \in 1 .. Len(Log) :
        IF Blocked(i) THEN [](committed < i) ELSE <>(i <= committed)
=============================================================================
