----------------------------- MODULE ServerMain -----------------------------
(***************************************************************************)
(* The server process from its command line to its exit                    *)
(* (cmd/server/main.go): what the settings of Config make of it, the two   *)
(* listeners, the requests that are under way when the signal comes, and   *)
(* the stages of the shutdown, which share one timeout.                    *)
(*                                                                         *)
(* A store stands for the set of updates it holds; FileStore has the order *)
(* of updates and the crashes, AuditPublisher the inside of the publisher. *)
(***************************************************************************)
EXTENDS Config

CONSTANTS Requests, \* updates, each sent once
          Http,     \* those that come over HTTP; the others are gRPC calls
          Singles,  \* those of one metric, by UpdateHandler or UpdateJSONHandler; the
                    \* others are batches, as every gRPC call is
          BufferSize, \* of an audit queue
          MaxAccepted, \* a bound: how many of the requests come
          Ticker,   \* the goroutine that saves periodically
          Main,     \* the goroutine of main
          Old,      \* what an earlier run left
          None      \* no Save in progress

ASSUME RequestsAssumption == Http \subseteq Requests /\ Singles \subseteq Http /\ Old \notin Requests
ASSUME BufferSizeAssumption == BufferSize \in Nat /\ IsFiniteSet(Requests)
ASSUME SaversAssumption == Ticker # Main /\ {Ticker, Main} \cap Requests = {}

Savers == Requests \cup {Ticker, Main}
Sinks == {"audit_file", "audit_url"}

VARIABLES mode,      \* of storing: "none" in memory only, "final" at the end, "periodic",
                     \* "sync", "db"
          audits,    \* the sinks of the audit publisher; none, no publisher
          http,      \* the HTTP server: "off", "starting", "open", "closed"
          grpc,      \* the gRPC server: "off", "open", "closed"
          signalled, \* ctx is done
          deadline,  \* shutdownCtx: "none", "running", "over"
          call,      \* where each request is
          memory,    \* the updates in memory
          kept,      \* the updates in the file, or in the database
          snapshot,  \* what each Save is writing
          event,     \* what became of each request's audit event at each sink: "none",
                     \* "queued", "dropped" by Publish, "logged", "failed" in Notify
          \* history
          mayWait,   \* the sources let an answered update wait for a Save
          restored,  \* the earlier run's updates were read
          answered,  \* requests answered with success
          cut,       \* gRPC calls ended by Stop
          missed,    \* batches whose own Save failed
          owed,      \* what was answered when each Save copied the memory
          due,       \* what was answered when a Save that has succeeded did
          overlapped, \* a Save began while another was writing
          rushed,    \* the timeout ended a stage of the shutdown
          unsaved    \* the final Save failed

startVars == <<mode, audits, mayWait, restored>>
listenVars == <<http, grpc>>
stopVars == <<signalled, deadline, rushed>>
storeVars == <<memory, kept, snapshot, missed, owed, due, overlapped, unsaved>>
callVars == <<call, answered, cut>>
lifeVars == <<startVars, listenVars, stopVars, storeVars, callVars, event>>
serverVars == <<configVars, lifeVars>>

\* Where main is once it has its settings.
Stages == {"setup", "listen", "serving", "http", "grpc", "save", "audit", "pool"}
Ended == at \in {"refused", "exited", "fatal"}
Alive == at \in Stages

ServerInit ==
    /\ ConfigInit
    /\ mode = "none" /\ audits = {}
    /\ http = "off" /\ grpc = "off"
    /\ signalled = FALSE /\ deadline = "none"
    /\ call = [r \in Requests |-> "none"]
    /\ memory = {} /\ kept = {Old}
    /\ snapshot = [a \in Savers |-> None]
    /\ event = [s \in Sinks |-> [r \in Http |-> "none"]]
    /\ mayWait = TRUE /\ restored = FALSE
    /\ answered = {} /\ cut = {} /\ missed = {}
    /\ owed = [a \in Savers |-> {}] /\ due = {}
    /\ overlapped = FALSE /\ rushed = FALSE /\ unsaved = FALSE

InFlight(r) == call[r] \in {"serving", "saving", "stored"}

-----------------------------------------------------------------------------
\* Start.

\* main goes to the next stage.
Reach(stage) == at' = stage /\ UNCHANGED <<program, line, env, file, rest, path, given, cfg>>

\* It does, and has no more use for the sources.
Forget(stage) == /\ at' = stage
                 /\ line' = <<>> /\ env' = <<>> /\ file' = Unreadable
                 /\ rest' = <<>> /\ path' = "" /\ given' = {}
                 /\ UNCHANGED <<program, cfg>>

\* logger.Log.Fatal: os.Exit, without the deferred calls.
Fatal == Reach("fatal")

\* In milliseconds, as the source says it that counts for Strongest.
IntervalAsked == IF /\ ~Usable("store_interval") /\ FlagsFor("store_interval") = {}
                    /\ ReadsFile /\ "store_interval" \in DOMAIN file
                 THEN file["store_interval"].value
                 ELSE 1000 * Strongest("store_interval")

Mode == IF cfg["database_dsn"] # "" THEN "db"
        ELSE IF cfg["store_file"] = "" THEN "none"
        ELSE IF cfg["store_interval"] = 0 THEN "sync"
        ELSE IF cfg["store_interval"] > 0 THEN "periodic"
        ELSE "final"

\* The storage and the saver; a migration may fail, a file that cannot be
\* read is only logged.
OpenStorage ==
    /\ at = "ready" /\ program = "server"
    /\ mayWait' = /\ Strongest("database_dsn") = ""
                   /\ (Strongest("store_file") = "" \/ IntervalAsked \notin -999..999)
    /\ mode' = Mode
    /\ \E works \in BOOLEAN :
           /\ IF Mode = "db" /\ ~works THEN Forget("fatal") ELSE Forget("setup")
           /\ restored' = (Mode \in {"sync", "periodic", "final"} /\ cfg["restore"] /\ works)
           /\ memory' = IF restored' THEN kept ELSE {}
    /\ UNCHANGED <<audits, listenVars, stopVars, kept, snapshot, missed, owed, due, overlapped, unsaved,
                   callVars, event>>

\* setupAudit opens the file; the private key is loaded, the subnet parsed.
\* Then the goroutine of the HTTP server starts.
SetUp ==
    /\ at = "setup"
    /\ \/ /\ Reach("listen")
          /\ audits' = {s \in Sinks : cfg[s] # ""}
          /\ http' = "starting"
       \/ /\ \E s \in {"audit_file", "crypto_key", "trusted_subnet"} : cfg[s] # ""
          /\ Fatal
          /\ UNCHANGED <<audits, http>>
    /\ UNCHANGED <<mode, mayWait, restored, grpc, stopVars, storeVars, callVars, event>>

\* ListenAndServe, in its goroutine; it returns ErrServerClosed after Shutdown.
ListenHTTP ==
    /\ Alive /\ http = "starting"
    /\ \/ http' = "open" /\ UNCHANGED configVars
       \/ Fatal /\ UNCHANGED http
    /\ UNCHANGED <<startVars, grpc, stopVars, storeVars, callVars, event>>

\* The gRPC server, if there is one, needs both parts of its TLS key.  From
\* here on nothing depends on the settings, and the model drops them.
ListenGRPC ==
    /\ at = "listen"
    /\ \/ /\ (cfg["grpc_address"] = "" \/ \A s \in {"grpc_cert_file", "grpc_key_file"} : cfg[s] # "")
          /\ grpc' = IF cfg["grpc_address"] = "" THEN "off" ELSE "open"
          /\ at' = "serving"
       \/ cfg["grpc_address"] # "" /\ at' = "fatal" /\ UNCHANGED grpc
    /\ cfg' = <<>> /\ UNCHANGED <<program, line, env, file, rest, path, given>>
    /\ UNCHANGED <<startVars, http, stopVars, storeVars, callVars, event>>

-----------------------------------------------------------------------------
\* Requests.

\* Connections accepted before Shutdown bring requests a bit longer.
Accept(r) ==
    /\ Alive
    /\ call[r] = "none" /\ Cardinality({q \in Requests : call[q] # "none"}) < MaxAccepted
    /\ (IF r \in Http THEN http ELSE grpc) = "open"
    /\ call' = [call EXCEPT ![r] = "serving"]
    /\ UNCHANGED <<configVars, startVars, listenVars, stopVars, storeVars, answered, cut, event>>

\* The update.  The database has it or fails; SyncStorage goes on to Save.
Store(r) ==
    /\ Alive
    /\ call[r] = "serving"
    /\ IF mode = "db"
       THEN /\ \E ok \in BOOLEAN :
                 /\ kept' = IF ok THEN kept \cup {r} ELSE kept
                 /\ call' = [call EXCEPT ![r] = IF ok THEN "stored" ELSE "failed"]
            /\ UNCHANGED memory
       ELSE /\ memory' = memory \cup {r}
            /\ call' = [call EXCEPT ![r] = IF mode = "sync" THEN "saving" ELSE "stored"]
            /\ UNCHANGED kept
    /\ UNCHANGED <<configVars, startVars, listenVars, stopVars, snapshot, missed, owed, due,
                   overlapped, unsaved, answered, cut, event>>

\* Publish: the event goes into the queue of each sink, if that has room; the
\* worker may have taken one event out, which it still works on.
Published(s) == {r \in Http : event[s][r] # "none"}
InQueue(s) == {r \in Http : event[s][r] = "queued"}
MayTake(s) == Cardinality(InQueue(s)) <= BufferSize
MayDrop(s) == Cardinality(InQueue(s)) >= BufferSize

Publish(r) ==
    \E full \in SUBSET audits :
        /\ \A s \in audits : IF s \in full THEN MayDrop(s) ELSE MayTake(s)
        /\ event' = [s \in Sinks |-> [event[s] EXCEPT ![r] = IF s \in full THEN "dropped"
                                                            ELSE IF s \in audits THEN "queued" ELSE @]]

\* The handler publishes, then answers; the gRPC method only answers, and
\* nobody hears it after Stop.  A publisher that Close has locked ignores the event.
Answer(r) ==
    /\ Alive
    /\ call[r] = "stored"
    /\ call' = [call EXCEPT ![r] = "answered"]
    /\ answered' = answered \cup ({r} \ cut)
    /\ \/ r \in Http /\ at # "pool" /\ Publish(r)
       \/ (r \in Http => at \in {"audit", "pool"}) /\ UNCHANGED event
    /\ UNCHANGED <<configVars, startVars, listenVars, stopVars, storeVars, cut>>

-----------------------------------------------------------------------------
\* file.Save: a copy of the memory, then a new file in place of the old one.

Copy(a) == /\ snapshot[a] = None
           /\ snapshot' = [snapshot EXCEPT ![a] = memory]
           /\ owed' = [owed EXCEPT ![a] = answered]
           /\ overlapped' = (overlapped \/ \E b \in Savers : snapshot[b] # None)
           /\ UNCHANGED <<memory, kept, missed, due, unsaved>>

Replace(a, ok) == /\ snapshot[a] # None
                  /\ kept' = IF ok THEN snapshot[a] ELSE kept
                  /\ snapshot' = [snapshot EXCEPT ![a] = None]
                  /\ due' = IF ok THEN due \cup owed[a] ELSE due
                  /\ owed' = [owed EXCEPT ![a] = {}]
                  /\ UNCHANGED <<memory, overlapped>>

\* SyncStorage.  UpdateGauge and UpdateCounter return Save's error, UpdateBatch
\* only logs it.
SaveNow(r) ==
    /\ Alive
    /\ call[r] = "saving"
    /\ \/ Copy(r) /\ UNCHANGED call
       \/ \E ok \in BOOLEAN :
             /\ Replace(r, ok)
             /\ call' = [call EXCEPT ![r] = IF ok \/ r \notin Singles THEN "stored" ELSE "failed"]
             /\ missed' = IF ok \/ r \in Singles THEN missed ELSE missed \cup {r}
             /\ UNCHANGED unsaved
    /\ UNCHANGED <<configVars, startVars, listenVars, stopVars, answered, cut, event>>

\* The ticker's case may win against ctx.Done().
SavePeriodically ==
    /\ Alive
    /\ mode = "periodic"
    /\ \/ Copy(Ticker)
       \/ \E ok \in BOOLEAN : Replace(Ticker, ok) /\ UNCHANGED <<missed, unsaved>>
    /\ UNCHANGED <<configVars, startVars, listenVars, stopVars, callVars, event>>

-----------------------------------------------------------------------------
\* The audit publisher's worker for the sink s.

Notify(s, e) ==
    /\ Alive
    /\ e \in InQueue(s)
    /\ \E fate \in {"logged", "failed"} : event' = [event EXCEPT ![s][e] = fate]
    /\ UNCHANGED <<configVars, startVars, listenVars, stopVars, storeVars, callVars>>

-----------------------------------------------------------------------------
\* The signal and the shutdown.

\* NotifyContext catches it from here on, whatever main is doing.
Signal ==
    /\ Alive /\ ~signalled
    /\ signalled' = TRUE
    /\ UNCHANGED <<configVars, startVars, listenVars, deadline, rushed, storeVars, callVars, event>>

\* shutdownCtx; then srv.Shutdown closes the listener.
StartShutdown ==
    /\ at = "serving" /\ signalled
    /\ Reach("http")
    /\ deadline' = "running"
    /\ http' = "closed"
    /\ UNCHANGED <<startVars, grpc, signalled, rushed, storeVars, callVars, event>>

Expire ==
    /\ Alive /\ deadline = "running"
    /\ deadline' = "over"
    /\ UNCHANGED <<configVars, startVars, listenVars, signalled, rushed, storeVars, callVars, event>>

\* (Definitions marked "Mutant" change the one that follows them the way a
\* bug would; no specification uses them.)
WaitToTheEnd(stage, done, next) ==  \* Mutant
    at = stage /\ Reach(next) /\ done /\ UNCHANGED rushed
\* A stage that waits ends well or with the timeout.
Wait(stage, done, next) ==
    /\ at = stage
    /\ Reach(next)
    /\ \/ done /\ UNCHANGED rushed
       \/ deadline = "over" /\ rushed' = TRUE

NobodyAwaited == TRUE  \* Mutant
HttpDone == \A r \in Http : ~InFlight(r)
GrpcDone == \A r \in Requests \ Http : ~InFlight(r)

\* Shutdown leaves the connections alone when the context ends.  The one of
\* the pprof server follows, which a profile being taken may hold up until
\* then; only afterwards the gRPC listener closes.
DrainHTTP ==
    /\ Wait("http", HttpDone, "grpc")
    /\ grpc' = IF grpc = "open" THEN "closed" ELSE grpc
    /\ UNCHANGED <<startVars, http, signalled, deadline, storeVars, callVars, event>>

\* GracefulStop, or Stop, which closes the connections under the calls.
DrainGRPC ==
    /\ Wait("grpc", GrpcDone, "save")
    /\ cut' = cut \cup {r \in Requests \ Http : InFlight(r)}
    /\ UNCHANGED <<startVars, listenVars, signalled, deadline, storeVars, call, answered, event>>

FinalSave ==
    /\ at = "save"
    /\ IF mode \in {"sync", "periodic", "final"}
       THEN \/ Copy(Main) /\ UNCHANGED configVars
            \/ \E ok \in BOOLEAN : Replace(Main, ok) /\ unsaved' = ~ok /\ UNCHANGED missed /\ Reach("audit")
       ELSE Reach("audit") /\ UNCHANGED storeVars
    /\ UNCHANGED <<startVars, listenVars, stopVars, callVars, event>>

\* auditPub.Close.  Events that meet the cancelled context are lost.
CloseAudit ==
    /\ Wait("audit", \A s \in Sinks : InQueue(s) = {}, "pool")
    /\ event' = [s \in Sinks |-> [r \in Http |-> IF r \in InQueue(s) THEN "failed" ELSE event[s][r]]]
    /\ UNCHANGED <<startVars, listenVars, signalled, deadline, storeVars, callVars>>

\* A request in a database mode holds a connection of the pool.
HoldsConnection(r) == mode = "db" /\ call[r] = "serving"

\* The deferred pool.Close waits for the connections, without a timeout.
Exit ==
    /\ at = "pool"
    /\ \A r \in Requests : ~HoldsConnection(r)
    /\ Reach("exited")
    /\ UNCHANGED lifeVars

-----------------------------------------------------------------------------
Shutdown == DrainHTTP \/ DrainGRPC \/ FinalSave \/ CloseAudit \/ Exit

ServerNext ==
    \/ ConfigNext /\ UNCHANGED lifeVars
    \/ OpenStorage \/ SetUp \/ ListenHTTP \/ ListenGRPC
    \/ \E r \in Requests : Accept(r) \/ Store(r) \/ SaveNow(r) \/ Answer(r)
    \/ \E s \in Sinks, e \in Http : Notify(s, e)
    \/ SavePeriodically
    \/ Signal \/ StartShutdown \/ Expire \/ Shutdown

\* Main runs and timers fire, but a request may take for ever: only the query
\* of a gRPC call that Stop has cancelled comes back.
ServerFairness ==
    /\ WF_serverVars(StartShutdown) /\ WF_serverVars(Expire) /\ WF_serverVars(Shutdown)
    /\ \A r \in Requests \ Http : WF_serverVars(r \in cut /\ Store(r))

ServerSpec == ServerInit /\ [][ServerNext]_serverVars /\ ServerFairness

-----------------------------------------------------------------------------
\* Properties.

\* What the death of the process at any moment can lose, a Fatal of the gRPC
\* listener included, which skips the final Save, unless Saves overlapped: of the
\* updates answered with success only those that no Save begun afterwards has
\* written; and none at all when the operator asked for a database, or for a file
\* with an interval under a second (in whatever source and unit: "500ms" counts as
\* 0), but for a batch whose own Save failed, which only the log tells
\* (file.go:49-57, main.go:68-117, 192-215, storage.go:112-133).
LossWindow ==
    ~overlapped => /\ due \subseteq kept
                   /\ ~mayWait => answered \ missed \subseteq kept

\* When every stage of the shutdown ended before the timeout, what was
\* answered over either listener, the moments of the shutdown included, is in
\* the file with what was restored, unless writing failed, and each of its
\* sinks was notified of the audit event.  Only a full queue drops one: then
\* more events than it has places were published (main.go:248-293,
\* publisher.go:70-83).
NothingLostOnExit ==
    at = "exited" /\ ~rushed =>
        /\ mode # "none" /\ ~unsaved /\ ~overlapped =>
               answered \cup (IF restored THEN {Old} ELSE {}) \subseteq kept
        /\ \A s \in audits, r \in answered \cap Http :
               \/ event[s][r] \in {"logged", "failed"}
               \/ /\ event[s][r] = "dropped"
                  /\ Cardinality(Published(s)) > BufferSize

\* A signal stops a server that serves, although requests may hang: at the
\* latest it waits for the connection of an HTTP request in the database,
\* which no timeout ends (main.go:78, 248-279).
StopsOnSignal ==
    (signalled /\ at = "serving") ~> (Ended \/ (at = "pool" /\ \E r \in Http : HoldsConnection(r)))

=============================================================================
