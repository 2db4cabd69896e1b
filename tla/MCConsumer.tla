----------------------------- MODULE MCConsumer -----------------------------
(***************************************************************************)
(* Instances of Consumer for TLC.                                          *)
(***************************************************************************)
EXTENDS Consumer

ById(r)        == [key |-> "id", req |-> r]
ByRequestId(r) == [key |-> "requestId", req |-> r]
Refused(r)     == [key |-> "refused", req |-> r]
Garbage        == [key |-> "unparsable", req |-> 1]

\* Two requests with a bad event between them, then one that Postgres refuses
\* and a request behind it.
MixedLog == <<ById(1), Garbage, ById(2), Refused(1), ById(1)>>

\* A request the way the README documents it, after one the consumer accepts.
ReadmeLog == <<ById(1), ByRequestId(2)>>
=============================================================================
