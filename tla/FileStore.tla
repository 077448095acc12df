----------------------------- MODULE FileStore -----------------------------
(***************************************************************************)
(* The server's memory and file storage: repository.MemStorage,            *)
(* file.Save, file.Load and file.SyncStorage, and the parts of             *)
(* cmd/server/main.go that run them: the restore at start, the periodic    *)
(* saver, the request handlers, the signal, the draining of requests and   *)
(* the final save.                                                         *)
(*                                                                         *)
(* A store, and a file, stands for the updates it has absorbed, in order:  *)
(* two stores that absorbed the same updates hold the same metrics.  An    *)
(* update is one call of UpdateGauge, UpdateCounter or UpdateBatch, which  *)
(* MemStorage runs under its lock.                                         *)
(***************************************************************************)
EXTENDS Integers, Sequences, SequencesExt

CONSTANTS Handlers,      \* goroutines that serve requests
          Periodic,      \* the goroutine of the periodic saver
          Main,          \* the goroutine of main, for the final save
          Updates,       \* each is received at most once
          Batched,       \* those that come as UpdateBatch
          Unencodable,   \* those that set a gauge to NaN or an infinity
          Entry,         \* the map entry an update writes
          Modes,         \* by StoreInterval: = 0 "sync", > 0 "periodic", < 0 "final"
          Restore,       \* cfg.Restore
          DiskFails,     \* writing the file may fail
          ReadFails,     \* reading the file may fail
          ShutdownExpires, \* requests may outlast ShutdownTimeout
          MaxStarts,     \* bound: starts of the process
          None, Torn     \* no update; a file that is no JSON document

ASSUME SaversAssumption == Periodic # Main /\ {Periodic, Main} \cap Handlers = {}
ASSUME UpdatesAssumption == /\ Batched \cup Unencodable \subseteq Updates
                            /\ None \notin Updates
                            /\ Torn \notin Seq(Updates)
ASSUME ModesAssumption == Modes \subseteq {"sync", "periodic", "final"}
ASSUME SwitchesAssumption == {Restore, DiskFails, ReadFails, ShutdownExpires} \subseteq BOOLEAN

Savers == Handlers \cup {Periodic, Main}

VARIABLES mode,      \* by the configuration, the same for every start
          phase,     \* of main
          mem,       \* the metrics in memory
          file,      \* the metrics in FileStoragePath
          pc,        \* where each handler, the saver and main's last Save are
          update,    \* the update each handler serves
          snapshot,  \* the document each Save is writing
          \* history
          starts,    \* starts of the process
          received,  \* updates received
          acked,     \* updates answered without an error
          restored,  \* this process began with what the file held
          drained,   \* main saw every request end before the final save
          finalSaved, \* the final Save succeeded
          orderly    \* every start restored the file, and no Save began while
                     \* another was writing

runVars  == <<phase, starts, restored, drained, finalSaved>>
callVars == <<pc, update, snapshot>>
ackVars  == <<received, acked>>
vars == <<mode, runVars, mem, file, callVars, ackVars, orderly>>

Saving(a) == pc[a] \in {"encode", "write", "rename"}
Writing(a) == pc[a] \in {"write", "rename"}
Running == phase # "down"

RunTypeOK == /\ phase \in {"down", "serving", "draining", "saving", "closing"}
             /\ starts \in Nat
             /\ restored \in BOOLEAN /\ drained \in BOOLEAN /\ finalSaved \in BOOLEAN
CallTypeOK == /\ pc \in [Savers -> {"idle", "apply", "encode", "write", "rename", "exited"}]
              /\ update \in [Handlers -> Updates \cup {None}]
              /\ snapshot \in [Savers -> Seq(Updates)]

\* The values of the variables; no request is served after main has seen
\* them all end.
TypeOK ==
    /\ RunTypeOK
    /\ CallTypeOK
    /\ mem \in Seq(Updates)
    /\ file \in Seq(Updates) \cup {Torn}
    /\ received \subseteq Updates /\ acked \subseteq received
    /\ mode \in Modes /\ orderly \in BOOLEAN
    /\ drained => \A h \in Handlers : pc[h] = "idle"

AllIdle == [a \in Savers |-> "idle"]

Init == /\ mode \in Modes
        /\ phase = "down" /\ starts = 0
        /\ mem = <<>> /\ file = <<>>  \* a file that does not exist loads like an empty one
        /\ pc = AllIdle
        /\ update = [h \in Handlers |-> None]
        /\ snapshot = [a \in Savers |-> <<>>]
        /\ received = {} /\ acked = {}
        /\ restored = FALSE /\ drained = FALSE /\ finalSaved = FALSE
        /\ orderly = TRUE

-----------------------------------------------------------------------------
\* Start and crash.

\* (Definitions marked "Mutant" change the one that follows them the way a
\* bug would; no specification uses them.)
LoadedNothing == <<>>  \* Mutant
\* Load puts every metric of the file into the new, empty store: gauges are
\* set and counters added to nothing.
Loaded == file

\* An error of Load is logged, and the server goes on with an empty store.
Start ==
    /\ phase = "down" /\ starts < MaxStarts
    /\ phase' = "serving"
    /\ starts' = starts + 1
    /\ \E readable \in {TRUE, ~ReadFails} :
           LET loads == Restore /\ readable /\ file # Torn IN
           /\ mem' = IF loads THEN Loaded ELSE <<>>
           /\ restored' = (loads \/ file = <<>>)
           /\ orderly' = (orderly /\ restored')
    /\ drained' = FALSE /\ finalSaved' = FALSE
    /\ UNCHANGED <<mode, file, callVars, ackVars>>

Vanish == /\ pc' = AllIdle
          /\ update' = [h \in Handlers |-> None]
          /\ snapshot' = [a \in Savers |-> <<>>]

\* The process dies between two steps; the file system stays.
Crash ==
    /\ Running
    /\ phase' = "down"
    /\ mem' = <<>>
    /\ drained' = FALSE /\ finalSaved' = FALSE /\ restored' = FALSE
    /\ Vanish
    /\ UNCHANGED <<mode, starts, file, ackVars, orderly>>

-----------------------------------------------------------------------------
\* file.Save, for any goroutine that calls it.

\* json.MarshalIndent refuses a NaN or an infinity, until another update
\* overwrites that gauge.
Encodable(log) ==
    \A i \in DOMAIN log : log[i] \in Unencodable =>
        \E j \in (i + 1)..Len(log) : Entry[log[j]] = Entry[log[i]]

AcksAnyway(h, ok) == TRUE  \* Mutant
\* SyncStorage.UpdateBatch logs the error of Save and returns nil.
Acknowledges(h, ok) == ok \/ update[h] \in Batched

SaverStopsOnError(ok) == IF ok THEN "idle" ELSE "exited"  \* Mutant
AfterPeriodicSave(ok) == "idle"

\* The caller of Save goes on when it returns; the snapshot is dropped.
SaveReturns(a, ok) ==
    /\ snapshot' = [snapshot EXCEPT ![a] = <<>>]
    /\ pc' = [pc EXCEPT ![a] = IF a = Periodic THEN AfterPeriodicSave(ok) ELSE "idle"]
    /\ update' = [h \in Handlers |-> IF h = a THEN None ELSE update[h]]
    /\ acked' = acked \cup {update[h] : h \in {g \in Handlers \cap {a} : Acknowledges(g, ok)}}
    /\ IF a = Main THEN phase' = "closing" /\ finalSaved' = ok
                   ELSE UNCHANGED <<phase, finalSaved>>
    /\ UNCHANGED <<mode, starts, restored, drained, received, mem>>

\* GetAll copies the maps under the read lock; then the copy is encoded.
Encode(a) ==
    /\ Running
    /\ pc[a] = "encode"
    /\ IF Encodable(mem)
       THEN /\ snapshot' = [snapshot EXCEPT ![a] = mem]
            /\ pc' = [pc EXCEPT ![a] = "write"]
            /\ orderly' = (orderly /\ \A b \in Savers : ~Writing(b))
            /\ UNCHANGED <<mode, runVars, mem, update, ackVars>>
       ELSE SaveReturns(a, FALSE) /\ UNCHANGED orderly
    /\ UNCHANGED file

FileWhileWriting == file

\* CreateTemp, Write and Close; one that fails removes the temporary file.
WriteTemp(a) ==
    /\ Running
    /\ pc[a] = "write"
    /\ \/ /\ pc' = [pc EXCEPT ![a] = "rename"]
          /\ UNCHANGED <<mode, runVars, mem, update, snapshot, ackVars>>
       \/ DiskFails /\ SaveReturns(a, FALSE)
    /\ file' = FileWhileWriting
    /\ UNCHANGED orderly

Rename(a) ==
    /\ Running
    /\ pc[a] = "rename"
    /\ \/ file' = snapshot[a] /\ SaveReturns(a, TRUE)
       \/ DiskFails /\ UNCHANGED file /\ SaveReturns(a, FALSE)
    /\ UNCHANGED orderly

Save(a) == Encode(a) \/ WriteTemp(a) \/ Rename(a)

-----------------------------------------------------------------------------
\* Requests.

\* The listeners are open while main serves; connections accepted before the
\* shutdown, and gRPC until its own GracefulStop, bring requests a bit longer.
Receive(h, u) ==
    /\ phase \in {"serving", "draining"}
    /\ pc[h] = "idle"
    /\ u \notin received
    /\ pc' = [pc EXCEPT ![h] = "apply"]
    /\ update' = [update EXCEPT ![h] = u]
    /\ received' = received \cup {u}
    /\ UNCHANGED <<mode, runVars, mem, file, snapshot, acked, orderly>>

\* The update of MemStorage; SyncStorage then saves, without a lock of its own.
Apply(h) ==
    /\ Running
    /\ pc[h] = "apply"
    /\ mem' = Append(mem, update[h])
    /\ IF mode = "sync"
       THEN pc' = [pc EXCEPT ![h] = "encode"] /\ UNCHANGED <<update, acked>>
       ELSE /\ pc' = [pc EXCEPT ![h] = "idle"]
            /\ acked' = acked \cup {update[h]}
            /\ update' = [update EXCEPT ![h] = None]
    /\ UNCHANGED <<mode, runVars, file, snapshot, received, orderly>>

-----------------------------------------------------------------------------
\* The periodic saver, the signal and the shutdown.

\* The ticker's case of the select, which may win against ctx.Done().
Tick ==
    /\ Running
    /\ mode = "periodic"
    /\ pc[Periodic] = "idle"
    /\ pc' = [pc EXCEPT ![Periodic] = "encode"]
    /\ UNCHANGED <<mode, runVars, mem, file, update, snapshot, ackVars, orderly>>

SaverExit ==
    /\ phase \in {"draining", "saving", "closing"}
    /\ mode = "periodic"
    /\ pc[Periodic] = "idle"
    /\ pc' = [pc EXCEPT ![Periodic] = "exited"]
    /\ UNCHANGED <<mode, runVars, mem, file, update, snapshot, ackVars, orderly>>

Signal ==
    /\ phase = "serving"
    /\ phase' = "draining"
    /\ UNCHANGED <<mode, starts, restored, drained, finalSaved, mem, file, callVars, ackVars, orderly>>

NoOneCounted == TRUE  \* Mutant
AllAnswered == \A h \in Handlers : pc[h] = "idle"

\* srv.Shutdown and GracefulStop have returned nil: every request is over.
Drained ==
    /\ phase = "draining"
    /\ AllAnswered
    /\ phase' = "saving"
    /\ drained' = TRUE
    /\ pc' = [pc EXCEPT ![Main] = "encode"]
    /\ UNCHANGED <<mode, starts, restored, finalSaved, mem, file, update, snapshot, ackVars, orderly>>

\* ShutdownTimeout is over: main goes on, the requests still run.
DrainExpired ==
    /\ phase = "draining"
    /\ ShutdownExpires
    /\ phase' = "saving"
    /\ drained' = FALSE
    /\ pc' = [pc EXCEPT ![Main] = "encode"]
    /\ UNCHANGED <<mode, starts, restored, finalSaved, mem, file, update, snapshot, ackVars, orderly>>

\* main returns: the process ends, whatever the other goroutines do.  (mem
\* keeps what was in memory then, for the properties.)
Exit ==
    /\ phase = "closing"
    /\ phase' = "down"
    /\ Vanish
    /\ UNCHANGED <<mode, starts, restored, drained, finalSaved, mem, file, ackVars, orderly>>

-----------------------------------------------------------------------------
MainStep == Save(Main) \/ Drained \/ DrainExpired \/ Exit

Next == \/ Start \/ Crash \/ Signal \/ MainStep
        \/ \E h \in Handlers : Apply(h) \/ Save(h) \/ \E u \in Updates : Receive(h, u)
        \/ Tick \/ SaverExit \/ Save(Periodic)

SafeSpec == Init /\ [][Next]_vars

\* Goroutines run.  A client may be slow: a request may never end by itself.
\* A disk that is tried again and again works at some time.
SaveRuns(a) == /\ WF_vars(Save(a))
               /\ SF_vars(WriteTemp(a) /\ pc'[a] = "rename")
               /\ SF_vars(Rename(a) /\ file' = snapshot[a])

Fairness == /\ WF_vars(MainStep)
            /\ WF_vars(Tick)
            /\ SaveRuns(Periodic)

Spec == SafeSpec /\ Fairness

-----------------------------------------------------------------------------
\* Properties.

\* Whenever the process dies, it leaves a file Load can read, for Save never
\* shows a half-written document (file/storage.go:45); and while a process that
\* restored the file runs, the file is a past state of its memory: it holds the
\* updates of some earlier moment, all of them and no others, whoever saves and
\* in whatever order the saves end.  So a crash only takes the store back in time.
FileWhole == file # Torn
FileIsPast == /\ FileWhole
              /\ Running /\ restored => IsPrefix(file, mem)

\* What is in the file stays in it, through crashes and restarts too, as long
\* as starts read it and Saves do not overlap (file/storage.go:16-96).
NeverBackwards == [][orderly' => IsPrefix(file, file')]_vars

\* What the documentation says of StoreInterval = 0: an update answered without
\* an error is on disk, and stays there (file/storage.go:98).
SyncDurable == mode = "sync" => acked \subseteq ToSet(file)

\* With StoreInterval = 0 an update outside a batch that was answered without
\* an error is on disk, and stays there through failing writes, crashes and
\* restarts, as long as starts read it and Saves do not overlap
\* (file/storage.go:98-124).
SyncDurableSingles == mode = "sync" /\ orderly => acked \ Batched \subseteq ToSet(file)

\* After a shutdown that saw all requests end, and whose final save worked,
\* the file holds all that was in memory, unless the periodic saver was in
\* the middle of a Save (cmd/server/main.go:120-129).
FinalSaveComplete ==
    phase = "down" /\ drained /\ finalSaved /\ (mode # "periodic" \/ orderly) => file = mem

\* With StoreInterval > 0, what is in memory gets to the file while the server
\* serves, although some saves fail, unless a NaN or an infinity in memory
\* stops them (cmd/server/main.go:95-111).
EventuallySaved ==
    \A u \in Updates :
        (mode = "periodic" /\ phase = "serving" /\ u \in ToSet(mem))
            ~> (phase # "serving" \/ u \in ToSet(file) \/ ~Encodable(mem))

=============================================================================
