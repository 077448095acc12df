----------------------------- MODULE AuditSinks -----------------------------
(***************************************************************************)
(* The publisher with the two observers that setupAudit gives it: the file *)
(* sink (internal/audit/file_sink.go), whose Notify is one write, and the  *)
(* HTTP sink (http_sink.go), whose Notify is a call of retry.Do.           *)
(***************************************************************************)
EXTENDS AuditPublisher

CONSTANTS File, Remote, \* the numbers of the two observers
          NoCall        \* no call of retry.Do in progress

ASSUME SinksAssumption == File # Remote /\ {File, Remote} = 1..ObserverCount

VARIABLES log,    \* the audit file: what each Write appended to it, piece by piece
          call,   \* the call of retry.Do in the HTTP sink
          \* history
          failed, \* the events the file sink returned an error for
          answer  \* what the HTTP sink's last request came back with

Do == INSTANCE Retry

ASSUME CallAssumption == NoCall \notin Do!Calls

\* (Definitions marked "Mutant" change the one that follows them the way a
\* bug would; no specification uses them.)

sinkVars == <<log, call, failed, answer>>
allVars == <<vars, sinkVars>>

SinksTypeOK ==
    /\ TypeOK
    /\ log \in Seq([event : Events, ended : BOOLEAN])
    /\ call \in Do!Calls \cup {NoCall}
    /\ call # NoCall <=> worker[Remote] \in Events
    /\ failed \subseteq Events
    /\ answer \in {"none", "accepted", "unavailable", "timeout", "rejected", "cancelled"}

SinksInit == /\ Init
             /\ log = <<>>
             /\ call = NoCall
             /\ failed = {}
             /\ answer = "none"

ErrorIsSwallowed == UNCHANGED failed  \* Mutant
FileFails == failed' = failed \cup {worker[File]}

-----------------------------------------------------------------------------
\* The file sink.

\* The text of an event ends its line.  A part of it does not: what is written
\* next continues that line, for the file is opened to append and nothing
\* looks at its end.
Text(e) == [event |-> e, ended |-> TRUE]
Parts(e) == {<<>>, <<[event |-> e, ended |-> FALSE]>>}

\* A cancelled context is looked at first, then the flag of Close.
FileRefuses == /\ worker[File] \in Events
               /\ \/ cancelled /\ NotifyReturns(File, "cut")
                  \/ ~cancelled /\ File \in released /\ NotifyReturns(File, "failed")
               /\ FileFails
               /\ UNCHANGED <<log, call, answer>>

\* One Write: the text with its newline, or an error after a part of it or nothing.
FileWrites ==
    /\ worker[File] \in Events
    /\ ~cancelled /\ File \notin released
    /\ \/ /\ NotifyReturns(File, "ok")
          /\ log' = Append(log, Text(worker[File]))
          /\ UNCHANGED failed
       \/ /\ NotifyReturns(File, "failed")
          /\ \E part \in Parts(worker[File]) : log' = log \o part
          /\ FileFails
    /\ UNCHANGED <<call, answer>>

-----------------------------------------------------------------------------
\* The HTTP sink.

Take == /\ Receive(Remote)
        /\ call' = Do!Begin
        /\ answer' = "none"
        /\ UNCHANGED <<log, failed>>

\* retry.Do goes on as c; when it returns, so does Notify.
GoOn(c) ==
    IF c.phase = "returned"
    THEN /\ NotifyReturns(Remote, CASE c.err = "ok" -> "ok"
                                    [] c.err # "ok" /\ cancelled -> "cut"
                                    [] OTHER -> "failed")
         /\ call' = NoCall
    ELSE call' = c /\ UNCHANGED vars

In(phase) == call # NoCall /\ call.phase = phase

RetriesRejected == {"unavailable", "rejected"}  \* Mutant
\* isRetriableHTTP: transport errors, 5xx and 429.  The error of client.Timeout
\* is a context.DeadlineExceeded for errors.Is, and so it is not repeated.
Retriable == {"unavailable"}

Kind(how) == CASE how = "accepted" -> "ok"
               [] how \in Retriable -> "retriable"
               [] OTHER -> "fatal"

\* The request comes back; the receiver may have acted on one that failed.
Answered(how) ==
    /\ In("calling")
    /\ how = "cancelled" => cancelled
    /\ GoOn(Do!AfterAttempt(call, Kind(how)))
    /\ answer' = how
    /\ UNCHANGED <<log, failed>>

Repeat == /\ In("waiting")
          /\ GoOn(Do!AfterDelay(call))
          /\ UNCHANGED <<log, failed, answer>>

CutWait == /\ In("waiting")
           /\ cancelled
           /\ GoOn(Do!AfterCancel(call))
           /\ UNCHANGED <<log, failed, answer>>

-----------------------------------------------------------------------------
Quietly(step) == step /\ UNCHANGED sinkVars

Answer == \E how \in {"accepted", "unavailable", "timeout", "rejected"} : Answered(how)

SinksNext == \/ \E h \in Handlers : Quietly(PublishStep(h) \/ Publish(h))
             \/ \E c \in Closers : Quietly(CloseStep(c) \/ Close(c))
             \/ Quietly(Receive(File)) \/ \E o \in Observers : Quietly(WorkerExit(o))
             \/ FileRefuses \/ FileWrites
             \/ Take \/ Answer \/ Answered("cancelled") \/ Repeat \/ CutWait

\* Goroutines run; sync.Mutex serves everyone who waits (its starvation
\* mode), which takes strong fairness; a write ends.  A cancelled request comes
\* back; that others end too, by the client's timeout, is not needed.
SinksFairness ==
    /\ \A h \in Handlers : /\ WF_allVars(Quietly(PublishStep(h)))
                           /\ SF_allVars(Quietly(PublishEnter(h)))
    /\ \A c \in Closers : /\ WF_allVars(Quietly(CloseStep(c)))
                          /\ SF_allVars(Quietly(CloseEnter(c)))
    /\ WF_allVars(Quietly(Receive(File) \/ WorkerExit(File)))
    /\ WF_allVars(FileRefuses \/ FileWrites)
    /\ WF_allVars(Take \/ Quietly(WorkerExit(Remote)))
    /\ WF_allVars(Answered("cancelled")) /\ WF_allVars(CutWait)

SinksSpec == SinksInit /\ [][SinksNext]_allVars /\ SinksFairness

-----------------------------------------------------------------------------
\* Properties.

\* The events the file sink was called for and came back from, the pieces that
\* end a line, and the order of Publish.
Notified == {e \in Events : outcome[File][e] # "none"}
Whole == {i \in DOMAIN log : log[i].ended}
Before(e, f) == \E i, j \in DOMAIN queued[File] :
                    i < j /\ queued[File][i] = e /\ queued[File][j] = f

\* The text of every event the file sink accepted, and of no other, is in the
\* audit file, once and in the order of Publish, whatever the HTTP sink does and
\* however Close goes.  Nothing else is in it but beginnings of events whose
\* Notify reported the error, in that order too; only they spoil lines
\* (file_sink.go:31-52).
LogIsTrue ==
    /\ {log[i].event : i \in Whole} = Notified \ failed
    /\ \A i, j \in DOMAIN log : i < j => Before(log[i].event, log[j].event)
    /\ \A i \in DOMAIN log \ Whole : log[i].event \in failed

\* The pieces that share the line of the one at i, up to it.
LineOf(i) == {j \in 1..i : \A k \in j..(i - 1) : ~log[k].ended}

\* What the documentation says: each event the file sink accepted is a JSON line of
\* its own (file_sink.go:15, 31, cmd/server/README.md:133).
OwnLines == \A i \in Whole : LineOf(i) = {i}

\* Every event in the queue of the file sink gets there, although the receiver
\* behind the HTTP sink may never answer (publisher.go:20-23).
Isolation ==
    \A e \in Events : e \in ToSet(queue[File]) ~> (outcome[File][e] # "none" \/ panicked)

\* The HTTP sink does not give an event up while the receiver is unavailable (5xx,
\* 429, a broken connection) before the fourth request, unless the publisher
\* cancels it; and it repeats a request only after a temporary failure: what was
\* accepted or refused for good is not sent again (http_sink.go:46-90).
Temporary == {"unavailable", "timeout"}

RemotePersists ==
    [][/\ call # NoCall /\ call' = NoCall /\ answer' = "unavailable" =>
             call.attempts = 4 \/ cancelled
       /\ call # NoCall /\ call' # NoCall /\ call'.attempts > call.attempts =>
             answer \in Temporary /\ call.attempts < 4]_allVars

\* What the comments say: every temporary failure is repeated so, a timeout of the
\* client among them (http_sink.go:46-48, 88, audit/README.md:42-44).
RemoteIsTried ==
    [][call # NoCall /\ call' = NoCall /\ answer' \in Temporary =>
             call.attempts = 4 \/ cancelled]_allVars

=============================================================================
