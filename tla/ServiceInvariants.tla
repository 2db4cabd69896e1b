------------------------- MODULE ServiceInvariants --------------------------
(***************************************************************************)
(* The strengthenings that make the safety properties of Service inductive.*)
(***************************************************************************)
EXTENDS Service, TickerInvariants

\* What a tick is about to delete it has reported.
DeletesTold ==
    \A p \in Watcher :
        /\ tick[p].step = "deleteFailed" => Failed(tick[p].id) \in Reported
        /\ tick[p].step = "deleteConfirmed" =>
                Confirmed(tick[p].id, tick[p].row.hash) \in Reported

\* What a clean-up is about to delete has been the oldest row ever since, if
\* it was not deleted and inserted again.
CleansChosen ==
    /\ \A r \in Request : rows[r] # Null => inserts[r] # 0
    /\ \A c \in Caller : LET r == cleaning[c] IN
          r # Null => /\ inserts[r] # 0
                      /\ rows[r] # Null /\ inserts[r] = 1 => r \in Oldest

ServiceInv ==
    /\ TypeInv /\ ServiceTypeOK /\ C!IntakeInv
    /\ DeletesTold /\ CleansChosen

-----------------------------------------------------------------------------
(* How often a request is executed, while nobody calls a clean-up or all   *)
(* requests are at one wallet.                                             *)

\* The session of the consumer, and what a process that is down holds.
Sessions ==
    LET cl == claim[Proc]
    IN  /\ phase = "down" => cl.step = "down" /\ \A p \in Watcher : tick[p] = Idle
        /\ cl.step = "ended" => ~ cl.live
        /\ cl.step # "down" => owner = Proc /\ cl.marked = cl.pos /\ committed <= cl.pos

\* The deliveries of r that a session may still store.
Ahead(cl, r) ==
    {i \in Deliveries(r) : \/ cl.step \in {"receive", "save"} /\ i > cl.pos
                           \/ cl.step = "mark" /\ i > cl.pos + 1}

\* The next event is refused by Postgres, in this session and in the next.
Stuck(cl, n) == C!AtRefused(IF cl.step = "down" THEN n ELSE cl.pos)

\* The deliveries of r to this process that may come: a process whose session
\* is over joins again.
ToCome(r) ==
    IF Stuck(claim[Proc], committed) THEN 0
    ELSE Cardinality(Ahead(claim[Proc], r)) +
            (IF phase = "up" /\ ~ claim[Proc].live THEN Occurrences(r) ELSE 0)

Budget(r) == Occurrences(r) * (starts + faults) + (starts - 1)

\* The watcher of r does nothing more before the process ends.
Halted(r) == phase # "up" /\ \A p \in inFlight : WalletOf[p] # rows[r].wallet

\* p is about to send r, and can in this process.
Holds(p, r) ==
    /\ tick[p].step \in BeforeSend /\ tick[p].id = r
    /\ phase = "up" \/ p \in inFlight

\* r may be sent before the process ends: it waits, or is held by a watcher,
\* although its row may be gone.
Due(r) == (Unsent(r) /\ ~ Halted(r)) \/ \E p \in Watcher : Holds(p, r)

\* What was sent and what may come is within the budget, also when a request
\* that is due is sent; only the end of a process leaves a request waiting on
\* the budget of the next one.
InBudget(r) ==
    /\ rows[r] # Null => Deliveries(r) # {}
    /\ starts = 0 => phase = "down" /\ rows[r] = Null /\ Slots(r) = {}
    /\ starts # 0 =>
         /\ Cardinality(Slots(r)) + ToCome(r) <= Budget(r)
         /\ Due(r) => Cardinality(Slots(r)) + 1 + ToCome(r) <= Budget(r)

BudgetInv ==
    /\ ServiceInv /\ SlotCore /\ Sessions
    /\ \A r \in Request : InBudget(r)
    /\ SingleWallet \/ \A c \in Caller : cleaning[c] = Null

\* With boosting off, a submitted row names the only transaction of its nonce.
FollowInv ==
    /\ BudgetInv /\ OneTxPerNonce /\ RowTxs
    /\ \A p \in Watcher : tick[p].step \notin BoostStep
=============================================================================
