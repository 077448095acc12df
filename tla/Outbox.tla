------------------------------- MODULE Outbox -------------------------------
(***************************************************************************)
(* What the agent's worker pool promises its caller, with neither          *)
(* channels, goroutines nor contexts: a batch that was accepted is taken   *)
(* in the order of acceptance and finished exactly once, nothing is        *)
(* accepted after the outbox was closed, and the outbox stops only when    *)
(* nothing accepted is left.                                               *)
(***************************************************************************)
EXTENDS Integers, Sequences, FiniteSets, SequencesExt

CONSTANTS Batches,   \* the batches that may be handed over
          Capacity   \* how many may be in hand at once

VARIABLES queue,     \* accepted, not yet taken, oldest first
          inHand,    \* taken, not yet finished
          finished,  \* finished, whatever the result
          open,      \* does it still accept?
          stopped    \* has it stopped for good?

vars == <<queue, inHand, finished, open, stopped>>

Accepted == ToSet(queue) \cup inHand \cup finished

Init == /\ queue = <<>>
        /\ inHand = {}
        /\ finished = {}
        /\ open = TRUE
        /\ stopped = FALSE

Accept(b) == /\ open
             /\ b \notin Accepted
             /\ queue' = Append(queue, b)
             /\ UNCHANGED <<inHand, finished, open, stopped>>

\* Taking the oldest batch may let in, in the same step, one that was
\* waiting for its place.
Take(admitted) == /\ queue # <<>>
                  /\ Cardinality(inHand) < Capacity
                  /\ admitted # <<>> => open /\ admitted[1] \notin Accepted
                  /\ inHand' = inHand \cup {Head(queue)}
                  /\ queue' = Tail(queue) \o admitted
                  /\ UNCHANGED <<finished, open, stopped>>

Finish(b) == /\ b \in inHand
             /\ inHand' = inHand \ {b}
             /\ finished' = finished \cup {b}
             /\ UNCHANGED <<queue, open, stopped>>

Close == /\ open
         /\ open' = FALSE
         /\ UNCHANGED <<queue, inHand, finished, stopped>>

Stop == /\ ~open
        /\ ~stopped
        /\ queue = <<>>
        /\ inHand = {}
        /\ stopped' = TRUE
        /\ UNCHANGED <<queue, inHand, finished, open>>

Next == \/ Close
        \/ Stop
        \/ \E b \in Batches : Accept(b) \/ Finish(b)
        \/ \E admitted \in {<<>>} \cup {<<b>> : b \in Batches} : Take(admitted)

\* Nothing accepted is kept forever, and a closed outbox stops.
Fairness == /\ WF_vars(\E admitted \in {<<>>} \cup {<<b>> : b \in Batches} : Take(admitted))
            /\ \A b \in Batches : WF_vars(Finish(b))
            /\ WF_vars(Stop)

Spec == Init /\ [][Next]_vars /\ Fairness

=============================================================================
