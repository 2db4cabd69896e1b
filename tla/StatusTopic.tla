----------------------------- MODULE StatusTopic -----------------------------
(***************************************************************************)
(* The Kafka status producer.  Each of its four methods logs a failed send *)
(* and returns nothing, so its caller goes on as if the event were out.    *)
(***************************************************************************)
EXTENDS MetaTransactions

VARIABLES
    published,  \* events on the status topic
    lost        \* events whose SendMessage failed

statusVars == <<published, lost>>

StatusTypeOK ==
    /\ published \subseteq Message
    /\ lost \subseteq Message

StatusInit ==
    /\ published = {}
    /\ lost = {}

\* What the processor has tried to report.
Reported == published \union lost

Deliver(m) ==
    /\ published' = published \union {m}
    /\ UNCHANGED lost

Lose(m) ==
    /\ lost' = lost \union {m}
    /\ UNCHANGED published
=============================================================================
