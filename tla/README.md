# A TLA+ model of the meta-transaction processor

The processor takes requests ("call this contract with this data") from a Kafka
topic, sends each as an Ethereum transaction from one of its wallets, follows
the transaction until it is confirmed, and reports each stage on a status topic.
What makes it hard is that every stage is a chain of calls to systems that fail
and move independently (PostgreSQL, an Ethereum node, Kafka, AWS KMS), with
nothing but one table to remember where it was.

## Inventory

| Part | State | Operations | Talks to |
|---|---|---|---|
| ticker, `internal/ticker/loop.go` | none between ticks; the locals of a running tick | `Tick`: follow the submitted row of the wallet (receipt, reorg, boost, mined, confirmed), or submit the next one | table, node, status producer, sender |
| request table, `internal/models` | rows of `meta_transaction_requests` | `One`, `Upsert` without update, `Update` of listed columns, `Delete` | shared by ticker, consumer, gRPC |
| status producer, `internal/status` | the status topic | `Submitted`, `Mined`, `Confirmed`, `Failed`; a failed send is logged and forgotten | Kafka |
| request consumer, `internal/consumer` | the claim of a group session; marked and committed offsets | `ConsumeClaim`, the join loop in `New` | Kafka, table |
| senders, `internal/sender` | a key | `Sign`, `Address`, `FromKMS`, `FromKey` | KMS |
| gRPC service, `internal/rpc` | none | `CleanStuckMetaTransactions` | table |
| process, `cmd/meta-transaction-processor` | a context | start everything, cancel on SIGTERM, wait for the ticks | all |
| Ethereum node (external) | chain, pool, nonces | the six methods of `EthClient` | – |

The parts share the table and nothing else. One goroutine for each wallet ticks
every `BlockTime` seconds; the consumer and the gRPC server run beside them. The
statements autocommit: no transaction spans two calls.

What is hard, and what has to be true:

* **ticker** – a tick is a dozen calls with a fault or another actor possible
  between any two. It must keep at most one submission for each wallet, not send
  a request more often than its faults explain, call a transaction confirmed
  only when it is final, report before it forgets, and get every request done.
* **table** – a redelivered request must not disturb a row a tick is following.
* **consumer** – an event may be marked only after its row is stored, over
  rebalances, zombie members and crashes; an event that does not parse or has
  no valid id must not block the rest.
* **gas price** – a replacement must be ten percent dearer in integers too.
* **gRPC service** – deleting a row must not corrupt a tick that holds it, nor
  anything but the request that was deleted.
* **process** – a shutdown, a crash or a restart, perhaps with another number of
  wallets, must neither lose an event nor execute it more often than explained.
* **senders** – KMS answers without a recovery id and with any S: the signature
  must have a low S and the V that recovers the key, or Sign must give up.

`PROJECT.json` lists the hazards line by line with the properties that cover
them.

## Modules

| Module | Models |
|---|---|
| `MetaTransactions` | the values: rows, transactions, receipts, status events |
| `RequestStore` | the table and its statements, as operators on `rows` |
| `StatusTopic` | the status producer: an event is delivered or silently lost |
| `EthNode` | the node (external): blocks, reorgs, nonces, acceptance |
| `Ticker` | `Watcher.Tick`, composing the three modules above |
| `WalletLane` | abstract: what the processor promises of a wallet |
| `LaneRefinement` | the refinement mapping from `Ticker` to `WalletLane` |
| `TickerInvariants`, `ServiceInvariants` | the inductive strengthenings used by the proofs |
| `Consumer` | `ConsumeClaim` and the consumer group, composing `RequestStore` |
| `Service` | the process: `Ticker`, `Consumer` and the gRPC call over one table, started, stopped and started again |
| `GasPrice` | the price of a submission and of its boosts |
| `KmsSigner` | `kmsSender.Sign`: low S and the search for V |
| `MCTicker`, `MCConsumer`, `MCService`, `MCKmsSigner` | instances for TLC |
| `TickerProofs`, `LaneRefinementProofs`, `SlotProofs` | theorems about the ticker |
| `ServiceProofs`, `ExecutionProofs` | theorems about the process as a whole |
| `ConsumerProofs`, `GasPriceProofs`, `KmsSignerProofs` | theorems about the consumer, the prices and the signer |

### Ticker

`tick[p]` holds the local variables of the tick that watcher `p` is running:
`step` (the call it is about to make), `id` and `row` (`activeTx` or `sendTx`),
`head` (`headNum`) and `rec` (the receipt). A step is one call out of `Tick`
together with the code up to the next call. Calls that neither change nor read
anything the model tells apart (gas price, estimate) are taken with their
neighbour.

```
idle -> head -> receipt -+-> mined -> recordMined -> idle
  |                      +-> confirmed -> deleteConfirmed -> pick
  |                      +-> recordMoved -> idle
  |                      +-> [clearMined] -> prepareBoost -> recordBoost -> sendBoost -> idle
  +-> pick -> submitHead -> prepareSubmit -> sendSubmit -> recordSubmit -> submitted -> idle
prepareBoost, prepareSubmit -> failed -> deleteFailed -> idle
```

Statements that name columns (`boil.Whitelist`) update just those columns of
the row as it is stored at that moment; an update or a delete without a row is
no error, as in the generated code. Any call may fail instead: `Abort` ends the
tick at any step and stands for an error return, a cancelled context and the
death of the process, which the code cannot tell apart since a tick keeps
nothing. A call that took effect and whose answer got lost is the step followed
by `Abort`.

Data is abstracted: a hash is the number of a signature, a block hash is its
number with the number of reorgs before it, a request is its key. `To`, `Data`,
logs and event envelopes steer nothing and are absent. `signedFor`, `inserts`
and `faults` are history variables.

`Arrive` is the consumer's `Upsert`, at any time and again after deletion.

`EthNode` lets an accepted transaction be mined at any time its nonce allows,
also one that was replaced or reorganised away, in a block with any others;
`Reorg` replaces up to `MaxReorgDepth` blocks by as many others that hold any
executable choice of transactions. `SendTransaction` is refused only when the
nonce is spent.

### WalletLane

What a client may rely on, without ticks, blocks, faults or a table. A wallet
has a `queue` of requests and a `lane` with nothing or one job in it, a request
with the hash clients are told; `told` is what was handed to the producer. A
request is enqueued, dispatched under a hash nobody was told yet, perhaps
replaced under another such hash, and retired after `Confirmed` for the hash in
the lane or after `Failed`. Progress is told only of the job in the lane, and
`Confirmed` only after `Mined`.

`LaneRefinement` maps the rows of a wallet without `submitted_block_number` to
its queue and the one with it to its lane. A tick's reads, the chain, errors
and crashes, and writes of the mined columns do not show; `RecordSubmit` is
`Dispatch`, `RecordBoost` is `Replace`, the four publishing steps are
`TellProgress` and `TellFailed`, the deletes are `Retire` or `Discard`, a first
`Arrive` is `Enqueue`.

### Service

`Service` extends `Ticker` and instantiates `Consumer` with a single member, the
process itself, over the same table; `MaxInserts` is 0, so that rows come from
the consumer only.

* `phase` is `up`, `stopping` (after `cancel()`) or `down`; `config` is the set
  of wallets the process was started with, from which the consumer draws
  (`DrawnFromConfig`) and which get a watcher (`Runs`).
* `Sigterm` cancels the context. A call in flight may still succeed
  (`inFlight`), after which the watcher makes no further call that takes a
  context; the status producer takes none, so an event that is due is still
  published. `Cancelled` is the error return of a cancelled call. `Exit` is
  `tickerGroup.Wait()` returning: it waits for the ticks and for nothing else, so
  the consumer may be cut off between `Upsert` and its mark, and a clean-up
  between its two statements.
* `Die` is a crash at any point, `Panic` the nil message of a closed claim; both
  lose everything in memory (`Gone`). The process started last (`MaxStarts`)
  stays up.
* `older` is the order of `created_at` as a relation on the stored rows;
  `Upsert` stamps a new row as the youngest (`Stamp`).
  `CleanStuckMetaTransactions` reads the row that is first in it (`CleanRead`)
  and deletes it by its id (`CleanDelete`), or fails in between.

That a new row is the youngest holds of one partition and one clock that never
goes back, which is the scope of the module: `created_at` is the clock of the
process read before the `INSERT` is sent (`meta_transaction_requests.go:877-889`),
so two claims, or two pods, can insert their rows in another order than they
stamped them. The chart's `kafka-topic.yaml` does not fix the number of
partitions. `CleansOldest` and the part of `ServiceInv` behind it rest on this
scope; nothing else does, since no other code reads `created_at`.

An event that Postgres always refuses (see Consumer) is on the topic like any
other. `Deliveries` of a request are its events that can be stored.

`CleanStuckMetaTransactions` takes the oldest row of the whole table. That need
not be the row that is stuck, nor a submitted one: watchers go by the order of
ids within a wallet.

### Consumer

One partition is a sequence `Log`; a position `p` says that the first `p`
events are done. `claim[c]` is the session of member `c`. The group (who owns
the partition, commits, session end) follows sarama's contract: a member joins
when the earlier session is over or its member is given up; a commit by a member
of an older generation is refused. A member whose session ended can still be in
the middle of an event (`live = FALSE`), the zombie that makes offsets hard.
`select` chooses freely between a message and `ctx.Done()`, and the closed
channel yields nil, on which `msg.Partition` panics (`NilMessage`). `Finish`
stands for the ticker's deletions.

An event has the key its id is under, since that is where code and README
differ; is `"unparsable"`; or is `"refused"`: it parses and its id has 27
characters, but Postgres takes no row for it (a NUL in the id; no `data`, which
is a NULL for a column that is NOT NULL). `Upsert` of such an event fails each time
(`Failure`, next to the failures of a cancelled context and of a fault), and
`ConsumeClaim` returns the error without marking it. A session that ends this
way costs no fault, since it is the event that ends it and not the environment;
a member that joins while another has not left does, because the broker gives up
on a member only when it does not answer.

### GasPrice

The `math/big` arithmetic of `loop.go:162-177` and `362-367`, apart from the
ticker because a price does not change what the ticker does.

### KmsSigner

The four parts of `Sign` (`kms.go:33-82`): the call to KMS, the fold of S, a
recovery under V = 0, another under V = 1. The curve is a cyclic group of prime
order `N` in which a point is its multiple of the generator, with functions
`XCoord` and `YParity` of which only this is assumed: two points share their x
when they are equal or each other's negative, and the two have different
parities. R is the x of the point KMS used, reduced modulo `N`. `Ecrecover` with
V = 0 or 1 takes R itself for the x; the ids 2 and 3, under which it would take
R + N, are never tried (`kms.go:62-81`).

Sign therefore gives up on two kinds of answers, and `GivesUpExactly` says on no
others, and always on these: the x of the point was `N` or more, so that R is no
x or that of other points; or recovery under V = 0 yields no key, so that V = 1
is not tried. At the size of secp256k1 the first has a probability of about
2^-128 and the second of about 2^-256. The tick then ends with an error,
and the next one builds the transaction anew and asks KMS again.

`MCKmsSigner` is the curve of secp256k1, y^2 = x^3 + 7, over the integers modulo
43. Its order, 31, is prime and less than 43 as `N` is less than the field of
secp256k1, so that nearly half of its points have an x that is reduced; one such R
is the x of other points, and the rest are no x (`OnTheCurve` is checked by TLC).

Definitions marked "Variant" are deliberately wrong forms of the definition
after them. They document which slip each property notices (`mutants` in
`PROJECT.json`) and are used by nothing else.

## Runs

| Run | Instance | Checks |
|---|---|---|
| `ticker_lane` | one wallet, two requests, two faults, one reorg, boosting off (the deployed setting) | `TypeOK`, `AtMostOneActive`, `ExecutionsBounded`, `NoOrphanedInclusion`, `FailedNotSent`, `ConfirmedFinal`, `UnannouncedBounded`, `OneRequestPerNonce`, `FailedInv`, `AnnounceInv`, `ImplementsLane` |
| `ticker_boost` | boosting on, one request that may be delivered again, a slow block, a fault, a reorg | `TellInv`, `FinalInv`, `SlotInv`, `ConfirmedAfterMined`, `DropsAreReported`, `ImplementsLane` |
| `ticker_wallets` | two watchers on two wallets, two requests, no faults | `AtMostOneActive`, `ImplementsLane` |
| `ticker_live` | fair; a slow block, a fault, a reorg | `Settles`, `SubmittedGetsConfirmed` |
| `service_clean` | the process with one wallet, two events in an order other than their ids', a clean-up, a fault | `ServiceTypeOK`, `ServiceInv`, `FollowInv`, `NoOrphanedInclusion`, `ServiceExecutions`, `OnlyCleanForgets`, `CleansOldest` |
| `service_restart` | fair; the process started twice with one or two wallets, an event and a refused one behind it; the ends of the process are the failures | `IntakeSafe`, `BudgetInv`, `OutcomeOrStranded`, `ImplementsLane` |
| `consumer_intake` | fair; two members, a log with a duplicate, a bad event and a refused one, two faults | `NothingLost`, `IntakeInv`, `RowsKept`, `HandlesUpToRefused` |
| `kms_signer` | every key, hash and KMS answer on a curve of order 31 | `TypeOK`, `ReturnsValid`, `GivesUpExactly` |
| `gas_price` | five market prices from 3 wei on, eight boosts | `RaisesEnough` |

These pass. What they show:

* A request is executed at most once for each insertion plus once for each
  fault (`ExecutionsBounded`). The bound is tight: a fault between
  `SendTransaction` and the `Update` behind it does send a request twice. No
  reorg, boost or interleaving adds an execution. Two requests never share a
  nonce (`OneRequestPerNonce`), so none displaces another.
* `Confirmed` is final although the depth is computed from a head older than
  the receipt: an old head can only make Tick wait longer.
* A row is deleted only after `Confirmed` for the hash it holds, or `Failed`,
  went to the producer. That the producer may lose it is in the model: the
  property speaks of what was handed over, and no stronger one holds.
* Without boosting, the nonce of a submitted row is spent only by the
  transaction whose hash is in the row, also when a clean-up deletes rows under
  a tick. A transaction is reported `Mined` without having been reported
  `Submitted` at most once for each fault (`UnannouncedBounded`).
* The ticker implements `WalletLane`, with boosting too (`ImplementsLane`), and
  so does the process without clean-ups: a client cannot tell that a tick was
  cut off and its process started again.
* With a clean-up at any point, the only requests forgotten without an outcome
  are the ones the operator deleted (`OnlyCleanForgets`), and what is deleted is
  still the oldest row unless it was delivered again meanwhile
  (`CleansOldest`).
* Every valid event on the topic with no refused event at or before it leads to
  `Confirmed` or `Failed`, over a shutdown, a crash, a panic and a restart,
  unless the new process has fewer wallets and the row lies at one of the missing
  ones for good (`OutcomeOrStranded`). The
  offset the next process starts from never passes an event that is not stored
  (`IntakeSafe`), and a request is executed at most once for each of its events
  in each start and after each fault, and once more for each process that ended
  (`ServiceExecutions`, which `BudgetInv` implies).

* The consumer handles every event up to the first that Postgres always refuses,
  whatever the events before it are, and none from there on
  (`HandlesUpToRefused`): a bad event that `ConsumeClaim` itself rejects is
  skipped, one that only the database rejects stops the partition for good.
* The signer returns only signatures that Ethereum accepts, and gives up exactly
  on the two kinds of answers named above.

What the runs do not show:

* `ticker_boost` has a single request: the parts of its properties about two
  requests (one submitted row, one request for each nonce) say nothing there, and
  are the subject of `ticker_lane`.
* `FailedNotSent` and `FailedInv` hold with boosting off. With boosting on,
  `EstimateGas` may revert because the first transaction is about to take
  effect, and Tick reports `Failed` and deletes the row while that transaction is
  pending (`loop.go:205-213`).
* A boost that is recorded and never sent leaves a row that waits for a hash the
  network does not know. The safety properties hold of such a row too, and
  liveness is not claimed with boosting on.
* In `service_clean` the process is started once; what restarts add to the
  executions is in `service_restart` (`BudgetInv`) and in the theorems.

Some properties do not survive a clean-up together with redelivery, and
`service_clean` does not claim them there. If a request is deleted while a tick
is about to record its submission, and Kafka delivers it again, the late
`Update` marks the new row. With several wallets that row may lie at another
wallet, which then has two submitted rows; whichever of them its watcher
follows and finishes, a request waiting behind them can be sent twice without
any fault. `AtMostOneActive`, which `FollowInv` contains, `NoOrphanedInclusion`
and `ServiceExecutions` are therefore checked with one wallet where there is a
clean-up, and proved for clean-ups at one wallet and for any number of wallets
without them. The row can also carry a mined block reported for the earlier
life of the request, so `ConfirmedAfterMined` fails.

Runs that end in a violation, each a disagreement with what the repository says
of itself (`findings` in `PROJECT.json`):

* `ticker_replicas` – two replicas on one wallet, as in a rolling update, break
  "at most one submitted transaction per wallet" (`loop.go:103`).
* `ticker_boost_race` – "Transaction not included yet" (`loop.go:138`) is stale
  by the time the boost overwrites the only hash the table has; the run
  ends there. From the code behind it, the replacement is refused and no later
  tick looks for the receipt of the execution.
* `consumer_readme` – the `requestId` of `README.md:10` is read as `id`.

### Bounds

`MaxTxs` bounds signatures; once they are used up a tick ends as on a signing
error (`SignFails`), so that the bound never blocks. Three are enough for two
requests and a send that was not recorded, or for the first transaction of a
request, a boost, and its next life; four, where the process is restarted or a
row cleaned up, for two of each. `MaxFaults` counts failed calls,
crashes and lost events together; one already reaches every window between two
calls, two let a fault hit the recovery from a fault. `MaxReorgs` is one: what a
second reorg does to a row is what the first does, since Tick keeps no trace but
the mined columns. `QuietAfter` equals `ConfirmationBlocks`, so that
confirmations are reached and the chain stops growing when nothing is waiting;
`MaxSlow` gives the blocks in which a boost becomes due. Two requests are enough
for one to be overtaken by a smaller key; `ticker_boost` has one that is
inserted twice, since boosting concerns one row and its lane.
`ticker_wallets` has no faults: what a fault does to one wallet is the subject of
`ticker_lane`, and the question here is whether two lanes meet. `ConfirmationBlocks` is the depth of
the deepest reorg in each run, the weakest setting for which finality can be
expected. In the consumer, five events hold a bad event, a request behind it, and a
refused event with a duplicate behind it, and two members are a zombie and its
successor.

`Service` has one process at a time (a single replica; two are the subject of
`ticker_replicas`). Two starts are one end of a process in any of its ways and
one recovery; `MaxStarts` is 1 in `service_clean`, where the clean-up is the
subject. One clean-up reaches every window of a tick and of the consumer, and a
fault brings redelivery of what it deleted. The two events of `service_clean`
arrive in the reverse order of their ids, so that the oldest row is not the one
the watcher takes first. `service_restart` has one valid event, since the question is
about what becomes of each event by itself, and behind it one that Postgres
refuses, which keeps a session from staying up. It has no faults besides SIGTERM, a
crash or a panic, which already end a tick and a session at every point; the
combination with faults, and any number of events and starts, is what the
theorems of `ExecutionProofs` cover for safety. `OutcomeOrStranded` together with
faults is not checked: the graph is too large for TLC's liveness check.

The request keys are ordered, so they are not symmetric; wallets and watchers
are too few for symmetry to pay.

### Fairness

`Step(p)` is weakly fair: `main.go:146-162` ticks until the process ends, and a
process that ends is started again. Mining an accepted transaction and producing
blocks on top of it are weakly fair: they are the network's promise, not the
code's. Faults, redelivery and reorgs are never forced, and finite. In the
consumer, `Handle` of each member is weakly fair, and so are some member joining
(the loop in `New`) and the commit of what a session has marked (sarama's
default configuration, which `main.go:238-244` keeps, commits every second).
`Settles` lets blocks pass without the transaction and a reorg take it off the
chain, but assumes that the network mines it in the end; while it does not, the
wallet waits. Liveness of the ticker is claimed with boosting off; with
boosting on the race above wedges the wallet. In `Service`, the platform starts
a process that is down, a process that is up runs its goroutines, one that is
stopping lets its cancelled calls return and exits; ends of processes and faults
are finite, so that the last process has the time to finish.

## Proofs

TLAPS checks these for all values of the constants that satisfy the modules'
assumptions (bounds included, so for unboundedly many signatures, faults,
requests).

* `TickerProofs!TypeCorrect`: `Spec => []TypeOK`. `TypeOK` alone is not
  inductive: `ReadReceipt` applies `incl` to the hash of a row, which is in its
  domain only because a submitted row has one. `Shapes` says what a row and a
  tick hold at each step; `TypeInv` is both.
* `TickerProofs!AtMostOneSubmitted`: if no two watchers share a wallet, `Spec =>
  []AtMostOneActive`. The invariant `OneActiveInv` adds `Lanes`: a tick that is
  about to submit still finds its wallet without a submitted row, and one that
  follows a row holds it as stored. The premise is exactly what
  `ticker_replicas` drops.
* `TickerProofs!ConfirmedIsFinal`: if `MaxReorgDepth <= ConfirmationBlocks`,
  `Spec => []ConfirmedFinal`. `FinalInv` adds that what is confirmed, or about to
  be, is buried at least `ConfirmationBlocks` deep, that a tick's head is no
  newer than the chain's, and that a hash belongs to one request wherever it is
  named.
* `LaneRefinementProofs!Refinement`: if no two watchers share a wallet, `Spec =>
  ImplementsLane`. Every step of `Ticker` is shown to be a step of `WalletLane`
  or to leave its state alone (`SimNext`), from the invariant `TellInv`
  (`TellsInOrder`). `OneActiveInv` alone does not do: that a deleted row had its
  outcome told needs `Told`, what a tick has told by the step it is at; that
  `Confirmed` follows `Mined` needs `MinedTold`, since the two are told by
  different ticks and only the mined columns remember the first; that a
  dispatched hash is new to the client needs `TellsSigned`. Its corollaries
  `MinedFirst` (`ConfirmedAfterMined`) and `NoSilentDrop` (`DropsAreReported`)
  are stated on their own.
* `TickerProofs!FinalityInvariant` and `ConsumerProofs!IntakeInvariant` state
  the inductive invariants behind the theorems of their modules.
* `ConsumerProofs!RedeliveryKeepsRows`: `Spec => RowsKept`.
* `ConsumerProofs!RefusedBlocks`: an event that Postgres always refuses is never
  committed, nor any behind it, the safety half of `HandlesUpToRefused`. A
  position behind it would have to be `Covered`, and the event is valid and, by
  `IntakeInv`, not stored.
* `ConsumerProofs!IntakeLosesNothing`: `Spec => []NothingLost`, for any log and
  any number of members. `IntakeInv` adds that everything before the position
  of any claim, dead or alive, is stored, and that marks never pass it.
* `GasPriceProofs!BoostsReplace`: if the node suggests at least 3 wei, every
  boost raises the price by a tenth. The invariant is that the price stays at 5
  wei or more, where a fifth rounded down is still a tenth. Below, the rounding
  eats the bump: 4 wei are boosted to 4 wei.

What is sent (`SlotProofs`), with no two watchers on one wallet:

* `NonceServesOneRequest`: `Spec => []OneRequestPerNonce`, and
  `ExecutionsAreBounded`: `Spec => []ExecutionsBounded`. The first rests on
  `SlotCore`, which asks less of a tick than `Lanes`, so that a clean-up at its
  wallet does not break it: that no row but the one it holds is submitted
  (`Fronts`), not that the row it holds is still stored. The nonce a tick has asked for is still free when it is used
  (`SlotTick`), and a submitted row keeps the nonce of a transaction that was
  sent for it (`RowSlots`), so that a boost takes no new one. The bound needs
  `Credits`: a request that waits and that no tick has just sent (`Unsent`) has
  one execution left. It is the credit that makes the bound inductive: sending
  spends it, and only an insertion or a fault gives a new one. `Spends` states
  this of every step, and is what `ExecutionProofs` builds on.
* `FollowsTheExecution`: with boosting off, `Spec => []NoOrphanedInclusion`. The
  invariant `SingleInv` adds that a nonce has a single transaction
  (`OneTxPerNonce`) and a submitted row names it (`RowTxs`). With boosting on
  the theorem is false, which is what `ticker_boost_race` shows.
* `FailedWasNotSent`: with boosting off, `Spec => []FailedNotSent`. `FailedInv`
  adds that a request reported `Failed` is about to be deleted or gone.
* `AnnouncedBeforeMined`: with boosting off, `Spec => []UnannouncedBounded`.
  `AnnounceInv` counts the transactions that were sent, are not announced, and
  whose tick is over (`Silent`); only a fault makes one.
* `SlotInvariant`, `FailedInvariant` and `AnnounceInvariant` state the inductive
  invariants themselves, which the theorems above read off.

What is signed (`KmsSignerProofs`), for every curve of prime order that satisfies
`CurveAssumption`, and any key, hash and answer of KMS:

* `SignTypeCorrect`, `SignReturnsValid` (`ReturnsValid`) and `SignGivesUpExactly`
  (`GivesUpExactly`), from the inductive `SignInv`: while `Sign` works on
  R and S, they are those of a point `k` with `S * k = hash + R * key` modulo
  `N` and R the reduced x of `k`. Replacing S by `N - S` turns `k` into `N - k`,
  which has the same x and the other parity, so that the equation survives LowS
  and, if R is the x of `k`, one of V = 0 and V = 1 stands for `k`. If it is not,
  the points that R stands for differ from `k`, and what they recover differs
  from the key. That scalars have inverses is not
  assumed but proved from the primality of `N` (`InverseCancels`): the least
  positive combination `a * s + b * N` divides both `s` and `N`, hence is 1. Its
  existence is the well-foundedness of the naturals, used once.

The process as a whole (`ServiceProofs`), for any log, configurations, number of
watchers, callers, starts and faults, with no premise unless one is named:

* `ServiceInvariant`: `ServiceSpec => []ServiceInv`, with `ServiceTypeCorrect`
  and `IntakeSurvives` (`IntakeSafe`) as corollaries. The consumer's `IntakeInv`
  carries over to the process because every other part leaves offsets and
  positions alone and every end of a process leaves an empty claim.
* `OutcomeBeforeDeletion` (`OnlyCleanForgets`), from `DeletesTold`: a tick at one
  of its two deletes has told the outcome. Unlike `DropsAreReported` it does not
  need the tick's row to be the stored one, which a clean-up breaks.
* `CleanTakesOldest` (`CleansOldest`), from `CleansChosen`: the chosen row stays
  the oldest, since rows are only added at the young end, until it is deleted
  and inserted again. That they are is the scope named under Service: one claim
  and one clock.
* `FinalOverRestarts`: if `MaxReorgDepth <= ConfirmationBlocks`, `ServiceSpec =>
  []ConfirmedFinal`. `FinalInv` survives the end of a process and clean-ups,
  since it asks nothing of rows that are gone.

What is sent over restarts and clean-ups (`ExecutionProofs`), with no two
watchers on one wallet, and `MaxCleans = 0 \/ SingleWallet`: nobody calls a
clean-up, or all requests are at one wallet. Without that premise the theorems
are false, as said under Runs.

* `RestartsExecuteOnceMore`: `ServiceSpec => []ServiceExecutions`, from
  `BudgetKept`: `ServiceSpec => []BudgetInv`. `Budget(r)` is the bound of the
  theorem. What was sent of a request plus what may still be delivered to this
  process (`ToCome`: its events ahead of the session's position, and all of them
  again if the session has to be joined anew, but none of them once the session
or its successor stands before an event that Postgres refuses) is within it. A request that is
  `Due` needs one more: one that waits, unless its watcher can do nothing more
  in this process (`Halted`), and one that a tick is about to send (`Holds`),
  which a clean-up may have deleted meanwhile and the consumer inserted again.
  What the end of a process leaves waiting is paid by the `+ 1` of the next
  start, and only then. A start adds the deliveries of one session, a fault
  those of another; a delivery that inserts the row pays for its execution; an
  `Abort` is paid by the fault it is. One watcher for each wallet is needed where
  a tick is cancelled behind its send: no other watcher, whose call is still in
  flight, may send the request again.
* `OneSubmittedOverRestarts` (`AtMostOneActive`) and `NoncesOverRestarts`
  (`OneRequestPerNonce`): what the ticker promises of a wallet also holds over
  ends of processes in the middle of a tick, and over rows deleted under one.
  `BudgetInv` contains `SlotCore` for this; the bound itself does not follow from
  `Credits`, since a restart is no fault of the ticker's.
* `FollowsOverRestarts`: with boosting off, `ServiceSpec =>
  []NoOrphanedInclusion`, from `FollowInvariant`: `ServiceSpec => []FollowInv`,
  which is `BudgetInv` with `OneTxPerNonce` and `RowTxs`. A row that the late
  `Update` of a tick marks, after its first life was deleted and Kafka delivered
  the request again, gets the nonce and the hash of what was really sent.

What clients are told over restarts (`ExecutionProofs` as well), with no two
watchers on one wallet and `MaxCleans = 0`. A clean-up deletes a request without
an outcome, which is no step of `WalletLane`.

* `RestartsImplementLane`: `ServiceSpec => ImplementsLane`. A step of the process
  is a step of the ticker, inserts a request, or leaves the table alone and at
  most ends ticks (`UncleanedMoves`). A tick that ended owes nothing
  (`TellAside`). What the next process relies on is in the table: the mined
  columns of a row are those of a transaction reported `Mined`, by whichever
  process reported it (`MinedTold`).
* `TellsInOrderOverRestarts` (`TellInv`), `MinedFirstOverRestarts`
  (`ConfirmedAfterMined`) and `NoSilentDropOverRestarts` (`DropsAreReported`)
  are what follows for the order of events.

Only model-checked:

* liveness (`Settles`, `SubmittedGetsConfirmed`, `HandlesUpToRefused`,
  `OutcomeOrStranded`), which is out of the prover's reach.

## Plan

Done: the modules and theorems above. Left, should the code change in these
places: a second replica with a lock on the wallet, which `ticker_replicas`
shows to be missing, and the order of a clean-up's two statements relative to a
tick at several wallets, where the theorems of `ExecutionProofs` stop.

## Not modelled

The private key sender calls a library. Metrics, logging, configuration,
migrations, generated stubs and test support keep no state the processor acts
on. The panic handler of the gRPC server logs and counts. The generated model
code beyond the statements the processor runs is never called. Reader and writer
connections are taken to be the same database, as the single host of the
settings makes them; a lagging read replica is not modelled. That
`README.md:26` lists no `Failed` among the status types while `status.go:183`
sends it is a matter of the document, not of behaviour.
