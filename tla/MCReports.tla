----------------------------- MODULE MCReports -----------------------------
(* TLC's instances of the three modules a report passes: Delivery, from the  *)
(* collector to the server's memory; Pipeline, the layers around a handler;  *)
(* Api, the handlers.  Each has a picture of its own of a request, and they  *)
(* share no variable: one of them runs, and the others stay as they began.   *)
EXTENDS Delivery, Pipeline, Api, TLC

CONSTANTS alloc, pollCount, r1, r2, k1, k2

-----------------------------------------------------------------------------
\* Pipeline.

Plain(doc) == [via |-> "http", ip |-> "trusted", doc |-> doc, cut |-> FALSE, wrappings |-> <<>>,
               marked |-> FALSE, gzip |-> FALSE, accepts |-> FALSE, signature |-> NoSignature]

\* A GET; a document in the clear, one with the signature of another, one that is said to
\* be compressed and is not; a compressed one that breaks off; a call over gRPC.
OtherRequests == {
    Plain(None),
    [Plain(r1) EXCEPT !.signature = <<k1, r1>>],
    [Plain(r1) EXCEPT !.signature = <<k1, r2>>],
    [Plain(r1) EXCEPT !.gzip = TRUE, !.accepts = TRUE],
    [Plain(r1) EXCEPT !.marked = TRUE],
    [Plain(r1) EXCEPT !.via = "grpc"] }

-----------------------------------------------------------------------------
\* Api.

Metric(type, id, amount) == [type |-> type, id |-> id, amount |-> amount]
Ask(entry, metrics) == [entry |-> entry, ops |-> metrics]

\* Gauges and counters through every entry; what each entry refuses; a batch with an
\* element no storage looks at; a NaN, which only a URL can bring.
AllCalls == {
    Ask("url", <<Metric("counter", pollCount, 2)>>),
    Ask("url", <<Metric("gauge", alloc, NaN)>>),
    Ask("url", <<Metric("gauge", alloc, Nil)>>),
    Ask("json", <<Metric("gauge", alloc, 1)>>),
    Ask("json", <<Metric("counter", pollCount, 1)>>),
    Ask("json", <<Metric("counter", NoId, 1)>>),
    Ask("json", <<>>),
    Ask("batch", <<Metric("gauge", alloc, 2), Metric("counter", pollCount, 1),
                   Metric("other", pollCount, 1)>>),
    Ask("batch", <<>>),
    Ask("grpc", <<Metric("counter", pollCount, 2), Metric("gauge", alloc, 3)>>),
    Ask("grpc", <<Metric("counter", pollCount, 1), Metric("other", alloc, 3)>>),
    Ask("value", <<Metric("counter", pollCount, Nil)>>),
    Ask("valueJSON", <<Metric("gauge", alloc, Nil)>>),
    Ask("root", <<>>),
    Ask("ping", <<>>) }

-----------------------------------------------------------------------------
VARIABLE part  \* the module that runs

allDelivery == <<allVars, deliveryVars>>

\* Those that do not run have one initial state.  Without a trusted subnet every
\* address is treated as a trusted one is with it, so that one server without is enough.
ReportsInit ==
    /\ part \in {"delivery", "pipeline", "api"}
    /\ DeliveryInit /\ PipelineInit /\ ApiInit
    /\ part # "pipeline" => ~subnet
    /\ ~subnet => key = NoKey /\ ~private
    /\ part # "api" => storage = "memory"

ReportsNext ==
    /\ UNCHANGED part
    /\ \/ part = "delivery" /\ DeliveryNext /\ UNCHANGED <<pipelineVars, apiVars>>
       \/ part = "pipeline" /\ PipelineNext /\ UNCHANGED <<allDelivery, apiVars>>
       \/ part = "api" /\ ApiNext /\ UNCHANGED <<allDelivery, pipelineVars>>

ReportsSpec == ReportsInit /\ [][ReportsNext]_<<allDelivery, pipelineVars, apiVars, part>>

\* The goroutines of the three parts have the same names.
Symmetry == Permutations(Workers \cup Clients \cup Goroutines)

=============================================================================
