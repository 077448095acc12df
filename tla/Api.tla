-------------------------------- MODULE Api --------------------------------
(***************************************************************************)
(* The server's entry points: the HTTP handlers                            *)
(* (internal/handler/handler.go) and the gRPC method                       *)
(* (internal/grpcserver/server.go), through the service                    *)
(* (internal/service/metrics.go) to one of the three storages.             *)
(*                                                                         *)
(* A request runs in a goroutine of its own.  A step is one call of the    *)
(* storage, which is atomic (MetricStore; PgStorage shows it of the        *)
(* database), or of the audit publisher; between two of them others run.   *)
(***************************************************************************)
EXTENDS Integers, Sequences

CONSTANTS Goroutines, \* goroutines that serve requests
          ApiCalls,   \* what may be asked: [entry, ops]
          Ids, NoId,  \* metric names, the empty one among them
          Storages,   \* which storages main may have chosen: "memory", "sync", "pg"
          Nil, NaN,   \* no value; a float that JSON cannot express
          MaxInt,     \* the largest int64
          MaxCalls    \* bound: requests served

\* The operations of a request are its metrics, none when the body cannot be
\* decoded.  An amount is Nil when it is missing or, in a URL, no number.
Entries == {"url", "json", "batch", "grpc", "value", "valueJSON", "root", "ping"}
Updating == {"url", "json", "batch", "grpc"}
\* A JSON body of one metric is one operation.
ASSUME CallsAssumption ==
    \A r \in ApiCalls :
        /\ r.entry \in Entries
        /\ Len(r.ops) \in Nat /\ DOMAIN r.ops = 1..Len(r.ops)
        /\ \A i \in DOMAIN r.ops : r.ops[i].id \in Ids
        /\ r.entry = "json" => r.ops = <<>> \/ Len(r.ops) = 1
ASSUME AmountsAssumption ==
    /\ Nil \notin Int /\ MaxInt \in Nat
    /\ \A r \in ApiCalls : \A i \in DOMAIN r.ops :
           r.ops[i].type = "counter" => r.ops[i].amount \in Int \cup {Nil}
ASSUME StoragesAssumption == Storages \subseteq {"memory", "sync", "pg"}

VARIABLES storage,  \* the storage main has chosen
          gauges, counters, \* what it holds
          events,   \* what was given to Publisher.Publish, in order
          stage,    \* the next step of each goroutine
          asked,    \* its request
          seen,     \* what it read from the storage
          response, \* how it was answered
          \* history
          log,      \* what the storage held after each update applied, in order
          from,     \* the length of log when the request came
          own,      \* the request's own place in log; 0 when it was not applied
          calls     \* requests received

mapVars == <<gauges, counters>>
apiVars == <<storage, mapVars, events, stage, asked, seen, response, log, from, own, calls>>

Store == INSTANCE MetricStore WITH
             Calls <- {r.ops : r \in ApiCalls}, Absent <- Nil, applied <- Len(log)

\* The answers: 200 or OK, 400 or InvalidArgument, 404, 500 or Internal.
Replies == {"ok", "invalid", "notFound", "internal"}

NoRequest == [entry |-> "ping", ops |-> <<>>]

Nothing == [i \in Ids |-> Nil]

ApiInit == /\ storage \in Storages
           /\ gauges = Nothing /\ counters = Nothing
           /\ events = <<>>
           /\ stage = [c \in Goroutines |-> "idle"]
           /\ asked = [c \in Goroutines |-> NoRequest]
           /\ seen = [c \in Goroutines |-> Nil]
           /\ response = [c \in Goroutines |-> "none"]
           /\ log = <<>> /\ calls = 0
           /\ from = [c \in Goroutines |-> 0] /\ own = [c \in Goroutines |-> 0]

-----------------------------------------------------------------------------
\* What is decided before the storage is called.

\* The one metric of a request that is no batch.
The(r) == r.ops[1]
KnownType(op) == op.type \in {"gauge", "counter"}

\* The status Service errors are answered with, by the handlers and by gRPC.
Undecodable(r) == r.ops = <<>> /\ r.entry \in Updating \cup {"valueJSON"}
Nameless(r) == r.entry \in {"json", "valueJSON"} /\ The(r).id = NoId
Untyped(r) == \/ r.entry \notin {"batch", "grpc"} /\ ~KnownType(The(r))
              \/ r.entry = "grpc" /\ \E i \in DOMAIN r.ops : ~KnownType(r.ops[i])
Valueless(r) == r.entry \in {"url", "json"} /\ The(r).amount = Nil

Verdict(r) == IF r.entry \in {"root", "ping"} THEN "ok"
              ELSE IF Undecodable(r) THEN "invalid"
              ELSE IF Nameless(r) THEN "notFound"
              ELSE IF Untyped(r) \/ Valueless(r) THEN "invalid"
              ELSE "ok"

FirstStep(r) == IF r.entry \in Updating THEN "update"
                ELSE IF r.entry = "root" THEN "page"
                ELSE IF r.entry = "ping" THEN "ping"
                ELSE "read"

Respond(c, status) == /\ response' = [response EXCEPT ![c] = status]
                      /\ stage' = [stage EXCEPT ![c] = "idle"]

GoTo(c, step) == /\ stage' = [stage EXCEPT ![c] = step]
                 /\ UNCHANGED response

ReceiveCall(c, r) ==
    /\ stage[c] = "idle" /\ calls < MaxCalls
    /\ asked' = [asked EXCEPT ![c] = r]
    /\ IF Verdict(r) # "ok"
       THEN Respond(c, Verdict(r))
       ELSE /\ stage' = [stage EXCEPT ![c] = FirstStep(r)]
            /\ response' = [response EXCEPT ![c] = "none"]
    /\ seen' = [seen EXCEPT ![c] = Nil]
    /\ from' = [from EXCEPT ![c] = Len(log)]
    /\ own' = [own EXCEPT ![c] = 0]
    /\ calls' = calls + 1
    /\ UNCHANGED <<storage, mapVars, events, log>>

-----------------------------------------------------------------------------
\* The call of the storage that updates.

\* BIGINT, where int64 would wrap.
OutOfRange(ops) ==
    \E i \in DOMAIN ops :
        /\ Store!Counts(ops[i]) /\ counters[ops[i].id] # Nil
        /\ counters[ops[i].id] + ops[i].amount \notin (-MaxInt - 1)..MaxInt

\* What may come of it.  Memory never fails; SyncStorage has applied an
\* update whose Save fails, and hides that failure of a batch; the database
\* may or may not have committed what failed.
UpdateResults(r) ==
    LET done(ok) == [applied |-> TRUE, ok |-> ok]
        not == [applied |-> FALSE, ok |-> FALSE]
    IN  CASE storage = "memory" -> {done(TRUE)}
          [] storage = "sync" -> {done(TRUE), done(r.entry \in {"batch", "grpc"})}
          [] storage = "pg" -> IF OutOfRange(r.ops) THEN {not} ELSE {done(TRUE), done(FALSE), not}

\* (Definitions marked "Mutant" change the one that follows them the way a
\* bug would; no specification uses them.)
ErrorIsInvalid(r) == "invalid"  \* Mutant
\* UpdateHandler answers any error of Update with 400.
ErrorStatus(r) == IF r.entry = "url" THEN "invalid" ELSE "internal"

AuditsSingles(r) == r.entry \in {"url", "json"}  \* Mutant
Audits(r) == r.entry \in {"url", "json", "batch"}

Update(c) ==
    /\ stage[c] = "update"
    /\ \E result \in UpdateResults(asked[c]) :
       /\ IF result.applied
          THEN /\ gauges' = Store!Measured(gauges, asked[c].ops)
               /\ counters' = Store!Counted(counters, asked[c].ops)
               /\ log' = Append(log, [gauges |-> gauges', counters |-> counters'])
               /\ own' = [own EXCEPT ![c] = Len(log')]
          ELSE UNCHANGED <<mapVars, log, own>>
       /\ CASE ~result.ok -> Respond(c, ErrorStatus(asked[c]))
            [] result.ok /\ asked[c].entry = "json" -> GoTo(c, "read")
            [] result.ok /\ asked[c].entry # "json" ->
                   IF Audits(asked[c]) THEN GoTo(c, "publish") ELSE Respond(c, "ok")
    /\ UNCHANGED <<storage, events, asked, seen, from, calls>>

-----------------------------------------------------------------------------
\* The calls that read.

\* GetGauge and GetCounter.
Current(op) == IF op.type = "gauge" THEN gauges[op.id] ELSE counters[op.id]

Echo(c) == The(asked[c]).amount  \* Mutant
Found(c) == Current(The(asked[c]))

\* A JSON encoder refuses a NaN or an infinity, whatever was stored before.
Encoded(c, value) == IF asked[c].entry \in {"json", "valueJSON"} /\ value = NaN
                     THEN "internal" ELSE "ok"

\* pg.Storage reports an error as a metric that is not there.
ReadFails == storage = "pg"

Read(c) ==
    /\ stage[c] = "read"
    /\ \/ /\ Current(The(asked[c])) # Nil
          /\ seen' = [seen EXCEPT ![c] = Found(c)]
          /\ IF Audits(asked[c]) THEN GoTo(c, "publish")
             ELSE Respond(c, Encoded(c, Found(c)))
       \/ /\ Current(The(asked[c])) = Nil \/ ReadFails
          /\ Respond(c, "notFound")
          /\ UNCHANGED seen
    /\ UNCHANGED <<storage, mapVars, events, asked, log, from, own, calls>>

\* GetAll: one call.  pg.Storage reports an error as an empty store, so the
\* page is never refused.
Page(c) ==
    /\ stage[c] = "page"
    /\ Respond(c, "ok")
    /\ UNCHANGED <<storage, mapVars, events, asked, seen, log, from, own, calls>>

\* Only the database has something to ping.
Ping(c) ==
    /\ stage[c] = "ping"
    /\ \/ storage = "pg" /\ Respond(c, "ok")
       \/ Respond(c, "internal")
    /\ UNCHANGED <<storage, mapVars, events, asked, seen, log, from, own, calls>>

-----------------------------------------------------------------------------
\* publishAudit, then the answer.
Names(r) == [i \in DOMAIN r.ops |-> r.ops[i].id]

PublishAudit(c) ==
    /\ stage[c] = "publish"
    /\ events' = Append(events, [names |-> Names(asked[c]), of |-> own[c]])
    /\ Respond(c, Encoded(c, seen[c]))
    /\ UNCHANGED <<storage, mapVars, asked, seen, log, from, own, calls>>

ApiNext == \E c \in Goroutines : \/ \E r \in ApiCalls : ReceiveCall(c, r)
                                  \/ Update(c) \/ Read(c) \/ Page(c) \/ Ping(c)
                                  \/ PublishAudit(c)

ApiSpec == ApiInit /\ [][ApiNext]_apiVars

-----------------------------------------------------------------------------
\* Properties.

Responded(c, status) == stage[c] = "idle" /\ response[c] = status

\* An update answered with success was applied; one refused as invalid was not,
\* not even in part, except that UpdateHandler also says 400 of a failing storage
\* (handler.go:225-240, grpcserver/server.go:83-98).
SuccessIsTrue ==
    \A c \in Goroutines : asked[c].entry \in Updating =>
        /\ Responded(c, "ok") => own[c] # 0
        /\ Responded(c, "invalid") /\ asked[c].entry # "url" => own[c] = 0

\* The same, and one refused as unnamed was not applied, except that UpdateJSON also
\* says 404 when the database cannot be read back (service/metrics.go:71-107).
StatusIsTrue ==
    /\ SuccessIsTrue
    /\ \A c \in Goroutines :
           asked[c].entry \in Updating /\ Responded(c, "notFound") /\ storage # "pg" => own[c] = 0

\* What the storage held when n updates had been applied.
HeldAt(n) == IF n = 0 THEN [gauges |-> Nothing, counters |-> Nothing] ELSE log[n]
ValueAt(n, op) == IF op.type = "gauge" THEN HeldAt(n).gauges[op.id] ELSE HeldAt(n).counters[op.id]

\* The moments between the call and the answer, after the call's own update.
Moments(c) == {n \in from[c]..Len(log) : n >= own[c]}

\* A value is answered that the metric had while the request was served, and
\* after the request's own update, however requests interleave: the answers
\* are those of a store that serves one request at a time
\* (service/metrics.go:81-101, 109-154).
ReadsAreCurrent ==
    \A c \in Goroutines : seen[c] # Nil /\ asked[c].entry \in {"json", "value", "valueJSON"} =>
        \E n \in Moments(c) : seen[c] = ValueAt(n, The(asked[c]))

\* An event is published for an update only when it has been applied, once
\* at most, and for every HTTP update that was answered with success: an
\* answer of success is never ahead of its event (handler.go:87, 124, 173).
AuditedOnce ==
    /\ \A i \in DOMAIN events : events[i].of \in DOMAIN log
    /\ \A i, j \in DOMAIN events : events[i].of = events[j].of => i = j
    /\ \A c \in Goroutines : Responded(c, "ok") /\ asked[c].entry \in {"url", "json", "batch"} =>
           \E i \in DOMAIN events : events[i].of = own[c] /\ events[i].names = Names(asked[c])

=============================================================================
