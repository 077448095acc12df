------------------------------- MODULE Retry -------------------------------
(***************************************************************************)
(* retry.Do (internal/retry/retry.go) as the record of one call in         *)
(* progress.  Everything in the repository that repeats an operation after *)
(* a failure (the agent's two senders, the HTTP audit sink, the PostgreSQL *)
(* storage) goes through it, so their modules drive such a record from     *)
(* their own actions: an attempt that comes back is AfterAttempt, the      *)
(* timer and the context that race while the call waits are AfterDelay and *)
(* AfterCancel.                                                            *)
(***************************************************************************)
EXTENDS Integers, Sequences

\* The pauses between attempts, in seconds: each is taken at most once.
Delays == <<1, 3, 5>>

MaxAttempts == Len(Delays) + 1

\* What fn may return, as Do tells results apart: nil, an error that
\* isRetriable accepts, any other error.
Outcomes == {"ok", "retriable", "fatal"}

Calls == [phase : {"calling", "waiting", "returned"},
          attempts : 1..MaxAttempts,
          err : Outcomes]

\* fn is called before anything else; the context is not looked at first.
Begin == [phase |-> "calling", attempts |-> 1, err |-> "ok"]

AfterAttemptOneMore(call, outcome) ==  \* Mutant
    [call EXCEPT !.err = outcome,
                 !.phase = IF outcome = "retriable" /\ call.attempts <= MaxAttempts
                           THEN "waiting" ELSE "returned"]
AfterAttemptOneLess(call, outcome) ==  \* Mutant
    [call EXCEPT !.err = outcome,
                 !.phase = IF outcome = "retriable" /\ call.attempts < Len(Delays)
                           THEN "waiting" ELSE "returned"]

\* fn has returned: success and an error that is not retriable end the
\* call, and so does the error of the attempt after the last delay.
AfterAttempt(call, outcome) ==
    [call EXCEPT !.err = outcome,
                 !.phase = IF outcome = "retriable" /\ call.attempts < MaxAttempts
                           THEN "waiting" ELSE "returned"]

\* The delay has passed: fn is called again.
AfterDelay(call) ==
    [call EXCEPT !.phase = "calling", !.attempts = @ + 1]

\* The context was done before the delay: the last error is returned.
AfterCancel(call) ==
    [call EXCEPT !.phase = "returned"]

=============================================================================
