----------------------------- MODULE WalletLane -----------------------------
(***************************************************************************)
(* What the processor promises of a wallet, without ticks, blocks, faults  *)
(* or a table: requests wait in the wallet's queue, one at a time travels  *)
(* through its lane under the hash clients are told, and a request leaves  *)
(* only after its outcome was told.                                        *)
(***************************************************************************)
EXTENDS MetaTransactions

VARIABLES
    queue,  \* requests waiting at each wallet
    lane,   \* what travels at each wallet: nothing or one job
    told    \* status messages handed to the producer

laneVars == <<queue, lane, told>>

Job == [req : Request, hash : Hash]

LaneInit ==
    /\ queue = [w \in Wallet |-> {}]
    /\ lane = [w \in Wallet |-> {}]
    /\ told = {}

\* r is nowhere in the service.
Absent(r) ==
    \A w \in Wallet : r \notin queue[w] /\ \A j \in lane[w] : j.req # r

\* The client of r was never told of a transaction h.
Untold(r, h) == \A m \in told : m.req = r => m.hash # h

Enqueue(w, r) ==
    /\ Absent(r)
    /\ queue' = [queue EXCEPT ![w] = @ \union {r}]
    /\ UNCHANGED <<lane, told>>

Dispatch(w, r, h) ==
    /\ r \in queue[w]
    /\ lane[w] = {}
    /\ Untold(r, h)
    /\ queue' = [queue EXCEPT ![w] = @ \ {r}]
    /\ lane' = [lane EXCEPT ![w] = {[req |-> r, hash |-> h]}]
    /\ UNCHANGED told

\* A dearer transaction takes the place of the one under way.
Replace(w, j, h) ==
    /\ lane[w] = {j}
    /\ Untold(j.req, h)
    /\ lane' = [lane EXCEPT ![w] = {[j EXCEPT !.hash = h]}]
    /\ UNCHANGED <<queue, told>>

Tell(m) ==
    /\ told' = told \union {m}
    /\ UNCHANGED <<queue, lane>>

\* Progress is told of the job under way, Confirmed only after Mined.
TellProgress(w, j) ==
    /\ lane[w] = {j}
    /\ \/ Tell(Submitted(j.req, j.hash))
       \/ Tell(Mined(j.req, j.hash))
       \/ Mined(j.req, j.hash) \in told /\ Tell(Confirmed(j.req, j.hash))

TellFailed(w, r) ==
    /\ r \in queue[w] \/ \E j \in lane[w] : j.req = r
    /\ Tell(Failed(r))

\* The job under way leaves after the outcome of that very transaction.
Retire(w, j) ==
    /\ lane[w] = {j}
    /\ Confirmed(j.req, j.hash) \in told \/ Failed(j.req) \in told
    /\ lane' = [lane EXCEPT ![w] = {}]
    /\ UNCHANGED <<queue, told>>

Discard(w, r) ==
    /\ r \in queue[w]
    /\ Failed(r) \in told
    /\ queue' = [queue EXCEPT ![w] = @ \ {r}]
    /\ UNCHANGED <<lane, told>>

LaneNext ==
    \E w \in Wallet :
        \/ \E r \in Request : Enqueue(w, r) \/ TellFailed(w, r) \/ Discard(w, r)
        \/ \E r \in Request, h \in Hash : Dispatch(w, r, h)
        \/ \E j \in Job : TellProgress(w, j) \/ Retire(w, j)
        \/ \E j \in Job, h \in Hash : Replace(w, j, h)

LaneSpec == LaneInit /\ [][LaneNext]_laneVars
=============================================================================
