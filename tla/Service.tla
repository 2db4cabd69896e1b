------------------------------ MODULE Service -------------------------------
(***************************************************************************)
(* The process of cmd/meta-transaction-processor: the watchers, the        *)
(* request consumer and the gRPC server over one table, started, stopped   *)
(* by SIGTERM, killed, and started again, perhaps with another number of   *)
(* wallets.  One process runs at a time.                                   *)
(***************************************************************************)
EXTENDS Sequences, Ticker

CONSTANTS
    Log,        \* the partition of the request topic
    Configs,    \* sets of wallets the process may be started with
    Caller,     \* concurrent callers of CleanStuckMetaTransactions
    MaxCleans,  \* bound: calls of CleanStuckMetaTransactions
    MaxStarts   \* bound: starts of the process; the last one stays up

ASSUME ServiceAssumption ==
    /\ Configs \subseteq (SUBSET Wallet) \ {{}}
    /\ MaxCleans \in Nat
    /\ MaxStarts \in Nat

VARIABLES
    committed, owner, claim, stored,    \* as in Consumer
    phase,      \* "up", "stopping" after SIGTERM, or "down"
    config,     \* wallets of the running process: its senders
    starts,     \* starts so far
    inFlight,   \* watchers whose current call began before the cancellation
    older,      \* created_at: pairs of stored requests, the older one first
    cleaning,   \* id each caller's CleanStuckMetaTransactions holds, or Null
    cleans      \* calls so far

consumerVars == <<committed, owner, claim, stored>>
cleanVars    == <<cleaning, cleans>>
processVars  == <<phase, config, starts, inFlight>>
svars == <<vars, consumerVars, cleanVars, processVars, older>>

\* The process is the only member of the consumer group.
Proc == "processor"
C == INSTANCE Consumer WITH Member <- {Proc}

ASSUME LogAssumption == Log \in Seq(C!Event)

ServiceInit ==
    /\ Init
    /\ C!Init
    /\ phase = "down"
    /\ config = {}
    /\ starts = 0
    /\ inFlight = {}
    /\ older = {}
    /\ cleaning = [c \in Caller |-> Null]
    /\ cleans = 0

InTable == {r \in Request : rows[r] # Null}

\* The rows of the table are strictly ordered by created_at.
Chronology ==
    /\ older \subseteq InTable \X InTable
    /\ \A r, s \in InTable : <<r, s>> \in older <=> r # s /\ <<s, r>> \notin older
    /\ \A r, s, t \in InTable :
          <<r, s>> \in older /\ <<s, t>> \in older => <<r, t>> \in older

ServiceTypeOK ==
    /\ TypeOK
    /\ C!TypeOK
    /\ Chronology
    /\ phase \in {"up", "stopping", "down"}
    /\ config \in Configs \union {{}}
    /\ starts \in 0 .. MaxStarts
    /\ inFlight \subseteq Watcher
    /\ cleaning \in [Caller -> Request \union {Null}]
    /\ cleans \in 0 .. MaxCleans

\* Variant: created_at is never stamped.
StampNot == UNCHANGED older

\* Upsert stamps created_at: a new row is younger than all others.  The stamp is
\* the clock of the process, read just before the INSERT, so this is the order
\* of one claim, that is of one partition, under a clock that never goes back.
Stamp ==
    LET stays == {r \in Request : rows[r] # Null /\ rows'[r] # Null}
        new   == {r \in Request : rows[r] = Null /\ rows'[r] # Null}
    IN  older' = (older \intersect (stays \X stays)) \union (stays \X new)

\* ORDER BY created_at ASC LIMIT 1
Oldest == {r \in InTable : \A s \in InTable : <<s, r>> \notin older}

-----------------------------------------------------------------------------
(* The life of the process.                                                *)

Start(W) ==
    /\ phase = "down"
    /\ starts < MaxStarts
    /\ phase' = "up"
    /\ config' = W
    /\ starts' = starts + 1
    /\ UNCHANGED <<vars, consumerVars, cleanVars, inFlight, older>>

\* Everything the process keeps in memory is gone.
Gone ==
    /\ phase' = "down"
    /\ tick' = [p \in Watcher |-> Idle]
    /\ claim' = [claim EXCEPT ![Proc] = C!Down]
    /\ cleaning' = [c \in Caller |-> Null]
    /\ inFlight' = {}
    /\ UNCHANGED <<storeVars, statusVars, nodeVars, signedFor, faults,
                   committed, owner, stored, config, starts, cleans, older>>

Die ==
    /\ phase # "down"
    /\ starts < MaxStarts
    /\ Gone

\* cancel() ends the consumer's session and fails every call that starts
\* from now on; calls in flight may still succeed.
Sigterm ==
    /\ phase = "up"
    /\ starts < MaxStarts
    /\ phase' = "stopping"
    /\ inFlight' = Watcher
    /\ claim' = [claim EXCEPT ![Proc].live = FALSE]
    /\ UNCHANGED <<vars, cleanVars, committed, owner, stored, config, starts, older>>

\* tickerGroup.Wait returns.  Nothing waits for the consumer or the server.
Exit ==
    /\ phase = "stopping"
    /\ \A p \in Watcher : tick[p] = Idle
    /\ Gone

-----------------------------------------------------------------------------
(* The parts, while the process lives.                                     *)

\* Calls to the status producer take no context and are not cancelled.
PublishStep == {"mined", "confirmed", "submitted", "failed"}

\* One goroutine per sender; after the cancellation a watcher gets no further
\* than the call in flight and the events it publishes next.
Runs(p) ==
    /\ WalletOf[p] \in config
    /\ \/ phase = "up"
       \/ phase = "stopping" /\ (p \in inFlight \/ tick[p].step \in PublishStep)

Watch(p) ==
    /\ Runs(p)
    /\ Step(p) \/ Abort(p)
    /\ Stamp
    /\ inFlight' = inFlight \ {p}
    /\ UNCHANGED <<consumerVars, cleanVars, phase, config, starts>>

\* A call returns context.Canceled: the next one, or the one that was in flight,
\* which may have taken effect before.
Cancelled(p) ==
    /\ phase = "stopping"
    /\ tick[p].step # "idle"
    /\ tick[p].step \notin PublishStep \/ p \notin inFlight
    /\ tick' = [tick EXCEPT ![p] = Idle]
    /\ inFlight' = inFlight \ {p}
    /\ UNCHANGED <<storeVars, statusVars, nodeVars, signedFor, faults,
                   consumerVars, cleanVars, phase, config, starts, older>>

\* The consumer draws a wallet below numWallets, the number of senders.
DrawnFromConfig ==
    \A r \in Request : rows[r] = Null /\ rows'[r] # Null => rows'[r].wallet \in config

Handle ==
    \/ C!Skip(Proc) \/ C!Receive(Proc) \/ C!Save(Proc) \/ C!SaveFails(Proc)
    \/ C!Mark(Proc) \/ C!Leave(Proc)

Consume ==
    /\ phase # "down"
    /\ \/ phase = "up" /\ C!Join(Proc)
       \/ phase = "up" /\ C!EndSession(Proc)
       \/ C!AutoCommit(Proc)
       \/ Handle
    /\ DrawnFromConfig
    /\ Stamp
    /\ UNCHANGED <<statusVars, nodeVars, tick, signedFor, cleanVars, processVars>>

\* The nil message of a closed claim brings the whole process down.
Panic ==
    /\ starts < MaxStarts
    /\ C!NilMessage(Proc)
    /\ Gone

-----------------------------------------------------------------------------
(* CleanStuckMetaTransactions: read the oldest row, delete it by its id.    *)
(* Without a row the call returns an error and changes nothing.            *)

\* Variant: takes the latest row.
CleanReadLatest(c) ==
    /\ phase # "down"
    /\ cleaning[c] = Null
    /\ cleans < MaxCleans
    /\ \E r \in {s \in InTable : \A t \in InTable : <<s, t>> \notin older} :
          cleaning' = [cleaning EXCEPT ![c] = r]
    /\ cleans' = cleans + 1
    /\ UNCHANGED <<vars, consumerVars, processVars, older>>

CleanRead(c) ==
    /\ phase # "down"
    /\ cleaning[c] = Null
    /\ cleans < MaxCleans
    /\ \E r \in Oldest : cleaning' = [cleaning EXCEPT ![c] = r]
    /\ cleans' = cleans + 1
    /\ UNCHANGED <<vars, consumerVars, processVars, older>>

CleanDelete(c) ==
    /\ cleaning[c] # Null
    /\ Delete(cleaning[c])
    /\ Stamp
    /\ cleaning' = [cleaning EXCEPT ![c] = Null]
    /\ UNCHANGED <<statusVars, nodeVars, localVars, consumerVars, processVars, cleans>>

CleanFails(c) ==
    /\ cleaning[c] # Null
    /\ C!Fault
    /\ cleaning' = [cleaning EXCEPT ![c] = Null]
    /\ UNCHANGED <<storeVars, statusVars, nodeVars, tick, signedFor, consumerVars,
                   processVars, cleans, older>>

Network ==
    /\ ChainStep
    /\ UNCHANGED <<consumerVars, cleanVars, processVars, older>>

ServiceNext ==
    \/ \E W \in Configs : Start(W)
    \/ Die \/ Sigterm \/ Exit \/ Panic
    \/ \E p \in Watcher : Watch(p) \/ Cancelled(p)
    \/ Consume
    \/ \E c \in Caller : CleanRead(c) \/ CleanDelete(c) \/ CleanFails(c)
    \/ Network

ServiceSpec == ServiceInit /\ [][ServiceNext]_svars

-----------------------------------------------------------------------------
(* Properties.                                                             *)

\* The positions on the topic that may put r into the table.
Deliveries(r) ==
    {i \in DOMAIN Log : /\ C!Valid(Log[i]) /\ C!DecodedId(Log[i]) = r
                       /\ C!Storable(Log[i])}

Occurrences(r) == Cardinality(Deliveries(r))

\* End to end, over intake, ticks and restarts: every start and every fault
\* replays an event at most once, and every end of a process sends a request
\* at most once more (loop.go:430-448).  No other step executes it, and no
\* clean-up as long as all requests are at one wallet.
ServiceExecutions ==
    \A r \in Request :
        starts > 0 => Cardinality(Slots(r)) <=
                          Occurrences(r) * (starts + faults) + (starts - 1)

\* At-least-once intake holds for the process as a whole: the position the
\* next process starts from never passes a valid request that did not reach
\* the table (consumer.go:80-85), although the process exits, is killed or
\* panics without waiting for its consumer (main.go:175-181).
IntakeSafe == C!NothingLost

\* A request leaves the table after its outcome, or by the hand of an operator
\* (meta_transaction_api.go:40), also when a tick or a clean-up holds an id
\* that was deleted and delivered again meanwhile.
OnlyCleanForgets ==
    [][\A r \in Request : rows[r] # Null /\ rows'[r] = Null =>
         \/ Failed(r) \in Reported
         \/ \E h \in Hash : Confirmed(r, h) \in Reported
         \/ \E c \in Caller : cleaning[c] = r /\ cleaning'[c] = Null]_svars

\* A clean-up takes the oldest row of the table (meta_transaction_api.go:33),
\* although the row was chosen in an earlier statement and watchers, by the
\* order of ids, and the consumer moved in between; only a redelivery of the
\* very request makes the choice stale.  It holds of one claim and one clock:
\* with several, a row with an earlier created_at may be inserted later (models
\* 877-889).
CleansOldest ==
    [][\A c \in Caller :
         LET r == cleaning[c]
         IN  /\ r # Null /\ cleaning'[c] = Null
             /\ rows[r] # Null /\ rows'[r] = Null
             /\ inserts[r] = 1
             => r \in Oldest]_svars

\* Faults and process ends are finite.  The platform restarts the process, a
\* process runs its goroutines, and the network mines.
ServiceFairness ==
    /\ WF_svars(\E W \in Configs : Start(W))
    /\ WF_svars(Exit)
    /\ \A p \in Watcher : /\ WF_svars(Runs(p) /\ Step(p) /\ Watch(p))
                          /\ WF_svars(Cancelled(p))
    /\ WF_svars(C!Join(Proc) /\ Consume)
    /\ WF_svars(Handle /\ Consume)
    /\ WF_svars((\E B \in SUBSET Hash : MineBlock(B)) /\ Network)
    /\ WF_svars(ConfirmBlock /\ Network)

ServiceFairSpec == ServiceSpec /\ ServiceFairness

Outcome(r) == Failed(r) \in Reported \/ \E h \in Hash : Confirmed(r, h) \in Reported

\* The row waits at a wallet the process was not started with.
Stranded(r) == rows[r] # Null /\ rows[r].wallet \notin config

\* From the topic to the outcome: the request of every valid event that no
\* refused one blocks is reported Confirmed or Failed in the end, over crashes,
\* shutdowns and restarts, unless the wallets were reduced for good while it
\* was waiting at one of them (consumer.go:68, main.go:139).
OutcomeOrStranded ==
    \A i \in DOMAIN Log : C!Valid(Log[i]) /\ ~ C!Blocked(i) =>
        LET r == C!DecodedId(Log[i])
        IN  <> Outcome(r) \/ <>[] Stranded(r)
=============================================================================
