------------------------------ MODULE ApiProofs ------------------------------
(***************************************************************************)
(* Safety of the entry points for any clients, requests and storages.      *)
(*                                                                         *)
(* What makes the properties inductive is where a request is: one that has *)
(* still to update owns no place in the log, one that has still to publish *)
(* owns a place that no event is of and no other request owns, and one     *)
(* that has still to read its own update will find it, since no update     *)
(* removes a metric.  The last is about what the operators of MetricStore  *)
(* compute, whose folds are runs of one step after another.                *)
(***************************************************************************)
EXTENDS Api, RecursionTheorems, TLAPS

-----------------------------------------------------------------------------
\* What the operations of a request do to the two maps.

\* What one operation does to the map of its kind.
Measuring(held, op) == IF Store!Measures(op) THEN [held EXCEPT ![op.id] = op.amount] ELSE held
Counting(held, op) == IF Store!Counts(op) THEN Store!AddTo(held, op) ELSE held

Kinds == {"gauge", "counter"}
StepOf(kind, held, op) == IF kind = "gauge" THEN Measuring(held, op) ELSE Counting(held, op)
Applied(kind, held, ops) ==
    IF kind = "gauge" THEN Store!Measured(held, ops) ELSE Store!Counted(held, ops)

Amounts == UNION {{r.ops[i].amount : i \in DOMAIN r.ops} : r \in ApiCalls}
Held(kind) == [Ids -> (IF kind = "gauge" THEN Amounts ELSE Int) \cup {Nil}]

\* The fold of SequencesExt, one name for both.
IsFold(f, kind, held, ops) ==
    f = [s \in SUBSET DOMAIN ops |->
            IF s = {} THEN held ELSE StepOf(kind, f[s \ {Largest(s)}], ops[Largest(s)])]

LEMMA MeasuredIsFold ==
    ASSUME NEW held, NEW ops, NEW f, IsFold(f, "gauge", held, ops)
    PROVE  \E g : IsFold(g, "gauge", held, ops) /\ Store!Measured(held, ops) = g[DOMAIN ops]
<1> DEFINE Fold(h) == h = [s \in SUBSET DOMAIN ops |->
                              IF s = {} THEN held
                              ELSE Measuring(h[s \ {Largest(s)}], ops[Largest(s)])]
           g == CHOOSE h : Fold(h)
<1>1. \A h : Fold(h) <=> IsFold(h, "gauge", held, ops)
  BY DEF IsFold, StepOf
<1>2. Store!Measured(held, ops) = g[DOMAIN ops]
  BY Zenon DEF Store!Measured, Store!FoldLeft, Store!MapThenFoldSet, Store!Max, Measuring, Largest
<1> HIDE DEF Fold
<1>3. Fold(g)
  BY <1>1, Zenon
<1> QED
  BY <1>1, <1>2, <1>3, Zenon

LEMMA CountedIsFold ==
    ASSUME NEW held, NEW ops, NEW f, IsFold(f, "counter", held, ops)
    PROVE  \E g : IsFold(g, "counter", held, ops) /\ Store!Counted(held, ops) = g[DOMAIN ops]
<1> DEFINE Fold(h) == h = [s \in SUBSET DOMAIN ops |->
                              IF s = {} THEN held
                              ELSE Counting(h[s \ {Largest(s)}], ops[Largest(s)])]
           g == CHOOSE h : Fold(h)
<1>1. \A h : Fold(h) <=> IsFold(h, "counter", held, ops)
  BY DEF IsFold, StepOf
<1>2. Store!Counted(held, ops) = g[DOMAIN ops]
  BY Zenon DEF Store!Counted, Store!FoldLeft, Store!MapThenFoldSet, Store!Max, Counting, Largest
<1> HIDE DEF Fold
<1>3. Fold(g)
  BY <1>1, Zenon
<1> QED
  BY <1>1, <1>2, <1>3, Zenon

\* An operation of a request, and what it does to the map it is for.
IsOperation(op) == \E r \in ApiCalls : \E i \in DOMAIN r.ops : op = r.ops[i]

LEMMA SumIsInt == ASSUME NEW a \in Int, NEW b \in Int PROVE Store!Plus(a, b) \in Int
  BY AmountsAssumption DEF Store!Plus

LEMMA OneStep ==
    ASSUME NEW kind \in Kinds, NEW held \in Held(kind), NEW op, IsOperation(op)
    PROVE  /\ StepOf(kind, held, op) \in Held(kind)
           /\ \A i \in Ids : held[i] # Nil => StepOf(kind, held, op)[i] # Nil
           /\ op.type = kind /\ op.amount # Nil => op.id \in Ids /\ StepOf(kind, held, op)[op.id] # Nil
<1>1. /\ op.id \in Ids
      /\ op.amount \in Amounts
      /\ op.type = "counter" => op.amount \in Int \cup {Nil}
  BY CallsAssumption, AmountsAssumption DEF IsOperation, Amounts
<1>2. CASE kind = "gauge"
  <2> DEFINE put == [held EXCEPT ![op.id] = op.amount]
  <2>1. held \in [Ids -> Amounts \cup {Nil}] /\ Held(kind) = [Ids -> Amounts \cup {Nil}]
    BY <1>2 DEF Held
  <2>2. put \in Held(kind) /\ \A i \in Ids : put[i] = IF i = op.id THEN op.amount ELSE held[i]
    BY <1>1, <2>1
  <2>3. StepOf(kind, held, op) = IF op.type = "gauge" /\ op.amount # Nil THEN put ELSE held
    BY <1>2 DEF StepOf, Measuring, Store!Measures
  <2> HIDE DEF put
  <2> QED
    BY <1>1, <1>2, <2>2, <2>3
<1>3. CASE kind = "counter"
  <2> DEFINE put == Store!AddTo(held, op)
             start == IF held[op.id] = Nil THEN 0 ELSE held[op.id]
             sum == Store!Plus(start, op.amount)
  <2>1. held \in [Ids -> Int \cup {Nil}] /\ Held(kind) = [Ids -> Int \cup {Nil}]
    BY <1>3 DEF Held
  <2>2. put = [held EXCEPT ![op.id] = sum]
    BY <1>1, <2>1 DEF Store!AddTo
  <2>3. StepOf(kind, held, op) = IF op.type = "counter" /\ op.amount # Nil THEN put ELSE held
    BY <1>3 DEF StepOf, Counting, Store!Counts
  <2>4. op.type = "counter" /\ op.amount # Nil => sum \in Int
    <3>1. start \in Int
      BY <1>1, <2>1
    <3> HIDE DEF start
    <3> QED
      BY <1>1, <3>1, SumIsInt
  <2> HIDE DEF put, sum
  <2>5. op.type = "counter" /\ op.amount # Nil =>
            put \in Held(kind) /\ \A i \in Ids : put[i] = IF i = op.id THEN sum ELSE held[i]
    BY <1>1, <2>1, <2>2, <2>4
  <2>6. op.type = "counter" /\ op.amount # Nil => sum # Nil
    BY <2>4, AmountsAssumption
  <2> QED
    BY <1>1, <1>3, <2>3, <2>5, <2>6
<1> QED
  BY <1>2, <1>3 DEF Kinds

\* What the operations of a request do one after another.
LEMMA Runs ==
    ASSUME NEW kind \in Kinds, NEW held \in Held(kind), NEW r \in ApiCalls
    PROVE  \E run : /\ run[0] = held /\ run[Len(r.ops)] = Applied(kind, held, r.ops)
                    /\ \A k \in 0..Len(r.ops) : run[k] \in Held(kind)
                    /\ \A k \in 1..Len(r.ops) : run[k] = StepOf(kind, run[k - 1], r.ops[k])
<1> DEFINE n == Len(r.ops)
           ops == r.ops
           V == Held(kind)
           step == [k \in 1..n |-> [h \in V |-> StepOf(kind, h, ops[k])]]
<1>1. n \in Nat /\ DOMAIN ops = 1..n
  BY CallsAssumption
<1>2. \A k \in 1..n : IsOperation(ops[k])
  BY <1>1 DEF IsOperation
<1>3. \A k \in 1..n : \A h \in V : StepOf(kind, h, ops[k]) \in V
  BY <1>2, OneStep
<1> HIDE DEF n, V
<1>4. /\ step \in [1..n -> [V -> V]]
      /\ \A k \in 1..n : \A h \in V : step[k][h] = StepOf(kind, h, ops[k])
  BY <1>3
<1> HIDE DEF step
<1>5. held \in V
  BY DEF V
<1>6. PICK f : RepeatsInOrder(f, n, V, held, step)
  BY <1>1, <1>4, <1>5, SequenceRecursion
<1>7. /\ f \in [SUBSET (1..n) -> V]
      /\ \A s \in SUBSET (1..n) :
             f[s] = IF s = {} THEN held ELSE StepOf(kind, f[s \ {Largest(s)}], ops[Largest(s)])
  BY <1>4, <1>6 DEF RepeatsInOrder
<1>8. IsFold(f, kind, held, ops)
  BY <1>1, <1>7 DEF IsFold
<1>9. PICK g : IsFold(g, kind, held, ops) /\ Applied(kind, held, ops) = g[1..n]
  BY <1>1, <1>8, MeasuredIsFold, CountedIsFold DEF Applied, Kinds
<1>10. \A s \in SUBSET (1..n) :
          g[s] = IF s = {} THEN held ELSE StepOf(kind, g[s \ {Largest(s)}], ops[Largest(s)])
  BY <1>1, <1>9 DEF IsFold
<1>11. \A s \in SUBSET (1..n) : s # {} => Largest(s) \in 1..n
  BY <1>1, SomeLargest DEF Largest
<1>12. TakesLargestLast(g, n, V, held, step)
  <2>1. {} \in SUBSET (1..n)
    OBVIOUS
  <2> QED
    BY <1>4, <1>10, <1>11, <2>1 DEF TakesLargestLast
<1>13. PICK run : IsRun(run, n, V, held, step) /\ run[n] = g[1..n]
  BY <1>1, <1>4, <1>5, <1>12, OneAfterAnother
<1>14. /\ run[0] = held /\ run[n] = Applied(kind, held, ops)
       /\ \A k \in 0..n : run[k] \in V
  BY <1>9, <1>13 DEF IsRun
<1>15. ASSUME NEW k \in 1..n PROVE run[k] = StepOf(kind, run[k - 1], ops[k])
  <2>1. k - 1 \in 0..n
    BY <1>1
  <2> QED
    BY <1>4, <1>13, <2>1 DEF IsRun
<1> QED
  BY <1>14, <1>15 DEF n, V

\* An update keeps every metric that is there.
LEMMA NothingIsRemoved ==
    ASSUME NEW kind \in Kinds, NEW held \in Held(kind), NEW r \in ApiCalls
    PROVE  /\ Applied(kind, held, r.ops) \in Held(kind)
           /\ \A i \in Ids : held[i] # Nil => Applied(kind, held, r.ops)[i] # Nil
<1>1. PICK run : /\ run[0] = held /\ run[Len(r.ops)] = Applied(kind, held, r.ops)
                 /\ \A k \in 0..Len(r.ops) : run[k] \in Held(kind)
                 /\ \A k \in 1..Len(r.ops) : run[k] = StepOf(kind, run[k - 1], r.ops[k])
  BY Runs
<1>2. Len(r.ops) \in Nat /\ DOMAIN r.ops = 1..Len(r.ops)
  BY CallsAssumption
<1>3. Applied(kind, held, r.ops) \in Held(kind)
  BY <1>1, <1>2
<1>4. ASSUME NEW i \in Ids, held[i] # Nil PROVE Applied(kind, held, r.ops)[i] # Nil
  <2> DEFINE T == {k \in Nat : k <= Len(r.ops) => run[k][i] # Nil}
  <2>1. 0 \in T
    BY <1>1, <1>4
  <2>2. ASSUME NEW k \in Nat, k \in T PROVE k + 1 \in T
    <3> SUFFICES ASSUME k + 1 <= Len(r.ops) PROVE run[k + 1][i] # Nil
      OBVIOUS
    <3>1. k \in 0..Len(r.ops) /\ k + 1 \in 1..Len(r.ops) /\ (k + 1) - 1 = k /\ k <= Len(r.ops)
      BY <1>2
    <3>2. run[k] \in Held(kind) /\ run[k][i] # Nil /\ run[k + 1] = StepOf(kind, run[k], r.ops[k + 1])
      BY <1>1, <2>2, <3>1
    <3>3. IsOperation(r.ops[k + 1])
      BY <1>2, <3>1 DEF IsOperation
    <3> QED
      BY <3>2, <3>3, OneStep
  <2> HIDE DEF T
  <2>3. \A k \in Nat : k \in T
    BY <2>1, <2>2, Induction
  <2> QED
    BY <1>1, <1>2, <2>3 DEF T
<1> QED
  BY <1>3, <1>4

\* The one operation of a body that passes the checks leaves its metric there.
LEMMA TheMetricIsThere ==
    ASSUME NEW kind \in Kinds, NEW held \in Held(kind), NEW r \in ApiCalls, Len(r.ops) = 1,
           The(r).type = kind, The(r).amount # Nil
    PROVE  The(r).id \in Ids /\ Applied(kind, held, r.ops)[The(r).id] # Nil
<1>1. PICK run : /\ run[0] = held /\ run[1] = Applied(kind, held, r.ops)
                 /\ run[1] = StepOf(kind, run[1 - 1], r.ops[1])
  BY Runs
<1>2. IsOperation(The(r))
  BY CallsAssumption DEF IsOperation, The
<1>3. Applied(kind, held, r.ops) = StepOf(kind, held, The(r))
  BY <1>1 DEF The
<1> QED
  BY <1>2, <1>3, OneStep

-----------------------------------------------------------------------------
\* The invariant.

Steps == {"idle", "update", "read", "page", "ping", "publish"}

States == [gauges : Held("gauge"), counters : Held("counter")]

Typed ==
    /\ storage \in Storages
    /\ stage \in [Goroutines -> Steps]
    /\ asked \in [Goroutines -> ApiCalls \cup {NoRequest}]
    /\ response \in [Goroutines -> Replies \cup {"none"}]
    /\ gauges \in Held("gauge") /\ counters \in Held("counter")
    /\ log \in Seq(States)
    /\ own \in [Goroutines -> Nat]
    /\ events \in Seq([names : {Names(r) : r \in ApiCalls}, of : Nat])

\* What a request in progress is, and whether it has been applied.
Progress ==
    \A c \in Goroutines :
        /\ stage[c] # "idle" => asked[c] \in ApiCalls
        /\ stage[c] = "update" => asked[c].entry \in Updating /\ own[c] = 0
        /\ stage[c] = "read" => asked[c].entry \in {"json", "value", "valueJSON"}
        /\ stage[c] = "page" => asked[c].entry = "root"
        /\ stage[c] = "ping" => asked[c].entry = "ping"
        /\ stage[c] = "publish" => asked[c].entry \in {"url", "json", "batch"}
        /\ stage[c] \in {"read", "publish"} /\ asked[c].entry \in Updating => own[c] # 0

\* An update has one place in the log, and is that of one request.
Places ==
    /\ \A c \in Goroutines : own[c] <= Len(log)
    /\ \A c, d \in Goroutines : own[c] # 0 /\ own[c] = own[d] => c = d

\* The events are of different updates, and none is of one that is still to be
\* published.
EventsOnce ==
    /\ \A i \in DOMAIN events : events[i].of \in 1..Len(log)
    /\ \A i, j \in DOMAIN events : events[i].of = events[j].of => i = j
    /\ \A c \in Goroutines : stage[c] \in {"read", "publish"} /\ asked[c].entry \in Updating =>
           \A i \in DOMAIN events : events[i].of # own[c]

\* The event of an answered update is there.
EventThere ==
    \A c \in Goroutines : Responded(c, "ok") /\ asked[c].entry \in {"url", "json", "batch"} =>
        \E i \in DOMAIN events : events[i].of = own[c] /\ events[i].names = Names(asked[c])

Inv == Typed /\ Progress /\ Places /\ EventsOnce /\ SuccessIsTrue /\ EventThere

-----------------------------------------------------------------------------
\* The steps.

LEMMA Appending ==
    ASSUME NEW S, NEW s \in Seq(S), NEW x \in S
    PROVE  /\ Append(s, x) \in Seq(S) /\ Len(Append(s, x)) = Len(s) + 1
           /\ Append(s, x)[Len(s) + 1] = x /\ \A i \in 1..Len(s) : Append(s, x)[i] = s[i]
           /\ DOMAIN s = 1..Len(s) /\ DOMAIN Append(s, x) = 1..(Len(s) + 1)
  OBVIOUS

LEMMA InitInv == ApiInit => Inv
<1> SUFFICES ASSUME ApiInit PROVE Inv
  OBVIOUS
<1>1. log = <<>> /\ events = <<>> /\ Len(log) = 0 /\ DOMAIN events = {}
  BY DEF ApiInit
<1>2. /\ log \in Seq(States)
      /\ events \in Seq([names : {Names(r) : r \in ApiCalls}, of : Nat])
  BY <1>1
<1>3. Typed
  <2>1. gauges \in Held("gauge") /\ counters \in Held("counter")
    BY DEF ApiInit, Nothing, Held
  <2> QED
    BY <1>2, <2>1 DEF ApiInit, Typed, Steps
<1>4. NoRequest.entry \notin Updating
  BY DEF NoRequest, Updating
<1> QED
  BY <1>1, <1>3, <1>4 DEF ApiInit, Inv, Progress, Places, EventsOnce, SuccessIsTrue, EventThere,
                          Responded, Updating

\* The step of one request concerns the others only through the log and the events.
LEMMA ReceiveInv ==
    ASSUME Inv, NEW c \in Goroutines, NEW r \in ApiCalls, ReceiveCall(c, r) PROVE Inv'
<1> USE DEF Inv
<1>1. Verdict(r) \in Replies
  BY DEF Verdict, Replies
<1>2. FirstStep(r) \in Steps \ {"publish"}
  BY DEF FirstStep, Steps
<1>3. UNCHANGED <<storage, gauges, counters, log, events>>
  BY DEF ReceiveCall, mapVars
<1>4. \A d \in Goroutines : /\ asked'[d] = IF d = c THEN r ELSE asked[d]
                            /\ own'[d] = IF d = c THEN 0 ELSE own[d]
                            /\ d # c => stage'[d] = stage[d] /\ response'[d] = response[d]
  BY DEF ReceiveCall, Typed, Respond
<1>5. \/ stage'[c] = "idle" /\ response'[c] = Verdict(r) /\ Verdict(r) # "ok"
      \/ stage'[c] = FirstStep(r) /\ Verdict(r) = "ok"
  BY DEF ReceiveCall, Typed, Respond
<1>6. Typed'
  <2>1. asked' \in [Goroutines -> ApiCalls \cup {NoRequest}] /\ own' \in [Goroutines -> Nat]
    BY DEF ReceiveCall, Typed
  <2>2. stage' \in [Goroutines -> Steps] /\ response' \in [Goroutines -> Replies \cup {"none"}]
    BY <1>1, <1>2 DEF ReceiveCall, Respond, Typed, Steps
  <2> QED
    BY <1>3, <2>1, <2>2 DEF Typed
<1>7. Progress'
  <2>1. stage'[c] # "idle" =>
            /\ stage'[c] = FirstStep(r) /\ r.entry \in Entries /\ Verdict(r) = "ok"
    BY <1>5, CallsAssumption
  <2>2. /\ stage'[c] # "publish"
        /\ stage'[c] = "update" => r.entry \in Updating
        /\ stage'[c] = "read" => r.entry \in {"value", "valueJSON"}
        /\ stage'[c] = "page" => r.entry = "root"
        /\ stage'[c] = "ping" => r.entry = "ping"
    BY <1>2, <1>5, <2>1 DEF FirstStep, Entries, Updating
  <2> QED
    BY <1>4, <2>2 DEF Progress, Updating
<1>8. Places' /\ EventsOnce'
  <2>1. stage'[c] \in {"read", "publish"} => r.entry \notin Updating
    BY <1>2, <1>5, CallsAssumption DEF FirstStep
  <2>2. \A d \in Goroutines : stage'[d] \in {"read", "publish"} /\ asked'[d].entry \in Updating =>
            d # c /\ stage[d] \in {"read", "publish"} /\ asked[d].entry \in Updating
    BY <1>4, <2>1
  <2>3. Places'
    <3>1. Len(log) \in Nat
      BY DEF Typed
    <3>2. \A d \in Goroutines : own'[d] <= Len(log)
      BY <1>4, <3>1 DEF Places
    <3> QED
      BY <1>3, <1>4, <3>2 DEF Places
  <2>4. EventsOnce'
    BY <1>3, <1>4, <2>2 DEF EventsOnce
  <2> QED
    BY <2>3, <2>4
<1>9. SuccessIsTrue' /\ EventThere'
  <2>1. stage'[c] = "idle" => response'[c] # "ok" /\ own'[c] = 0
    BY <1>2, <1>4, <1>5 DEF FirstStep
  <2> QED
    BY <1>3, <1>4, <2>1 DEF SuccessIsTrue, EventThere, Responded
<1> QED
  BY <1>6, <1>7, <1>8, <1>9

\* What comes of an update: nothing is answered with success that was not applied.
LEMMA ResultsOfUpdate ==
    ASSUME storage \in Storages, NEW r, NEW result \in UpdateResults(r)
    PROVE  /\ result.applied \in BOOLEAN /\ result.ok \in BOOLEAN
           /\ result.ok => result.applied
<1>1. storage = "memory" \/ storage = "sync" \/ storage = "pg"
  BY StoragesAssumption
<1> QED
  <2> DEFINE done(ok) == [applied |-> TRUE, ok |-> ok]
             not == [applied |-> FALSE, ok |-> FALSE]
             batch == r.entry \in {"batch", "grpc"}
  <2>1. CASE storage = "memory"
    <3>1. UpdateResults(r) = {done(TRUE)}
      BY <2>1 DEF UpdateResults
    <3>2. result = done(TRUE)
      BY <3>1
    <3> QED
      BY <3>2
  <2>2. CASE storage = "sync"
    <3>1. UpdateResults(r) = {done(TRUE), done(batch)}
      BY <2>2 DEF UpdateResults
    <3>2. result = done(TRUE) \/ result = done(batch)
      BY <3>1, Zenon
    <3>3. batch \in BOOLEAN
      OBVIOUS
    <3> HIDE DEF batch
    <3>4. result.applied = TRUE /\ (result.ok = TRUE \/ result.ok = batch)
      BY <3>2
    <3> QED
      BY <3>3, <3>4, Zenon
  <2>3. CASE storage = "pg"
    <3>1. UpdateResults(r) = IF OutOfRange(r.ops) THEN {not} ELSE {done(TRUE), done(FALSE), not}
      BY <2>3 DEF UpdateResults
    <3>2. UpdateResults(r) = {not} \/ UpdateResults(r) = {done(TRUE), done(FALSE), not}
      BY <3>1, Zenon
    <3>3. result = not \/ result = done(TRUE) \/ result = done(FALSE)
      BY <3>2, Zenon
    <3>4. \/ result.applied = FALSE /\ result.ok = FALSE
          \/ result.applied = TRUE /\ result.ok \in BOOLEAN
      <4>1. CASE result = not
        BY <4>1
      <4>2. CASE result = done(TRUE)
        BY <4>2
      <4>3. CASE result = done(FALSE)
        BY <4>3
      <4> QED
        BY <3>3, <4>1, <4>2, <4>3
    <3> QED
      BY <3>4, Zenon
  <2> QED
    BY <1>1, <2>1, <2>2, <2>3

LEMMA UpdateInv == ASSUME Inv, NEW c \in Goroutines, Update(c) PROVE Inv'
<1> USE DEF Inv
<1>1. PICK result \in UpdateResults(asked[c]) :
         /\ IF result.applied
            THEN /\ gauges' = Store!Measured(gauges, asked[c].ops)
                 /\ counters' = Store!Counted(counters, asked[c].ops)
                 /\ log' = Append(log, [gauges |-> gauges', counters |-> counters'])
                 /\ own' = [own EXCEPT ![c] = Len(log')]
            ELSE UNCHANGED <<gauges, counters, log, own>>
         /\ CASE ~result.ok -> Respond(c, ErrorStatus(asked[c]))
              [] result.ok /\ asked[c].entry = "json" -> GoTo(c, "read")
              [] result.ok /\ asked[c].entry # "json" ->
                     IF Audits(asked[c]) THEN GoTo(c, "publish") ELSE Respond(c, "ok")
  BY DEF Update, mapVars
<1>2. /\ result.applied \in BOOLEAN /\ result.ok \in BOOLEAN
      /\ result.ok => result.applied
  BY ResultsOfUpdate DEF Typed
<1>3. /\ stage[c] = "update" /\ UNCHANGED <<storage, events, asked>>
      /\ asked[c] \in ApiCalls /\ asked[c].entry \in Updating /\ own[c] = 0
  BY DEF Update, Progress
<1>4. /\ gauges' \in Held("gauge") /\ counters' \in Held("counter")
      /\ log' \in Seq(States) /\ own' \in [Goroutines -> Nat]
      /\ Len(log') \in Nat /\ Len(log') = IF result.applied THEN Len(log) + 1 ELSE Len(log)
      /\ Len(log) \in Nat
      /\ \A d \in Goroutines : own'[d] = IF d = c /\ result.applied THEN Len(log) + 1 ELSE own[d]
  <2> DEFINE now == [gauges |-> gauges', counters |-> counters']
  <2>1. gauges' \in Held("gauge") /\ counters' \in Held("counter")
    <3>1. /\ Applied("gauge", gauges, asked[c].ops) \in Held("gauge")
          /\ Applied("counter", counters, asked[c].ops) \in Held("counter")
      BY <1>3, NothingIsRemoved DEF Typed, Kinds
    <3> QED
      BY <1>1, <1>2, <3>1 DEF Applied, Typed
  <2>2. /\ Append(log, now) \in Seq(States)
        /\ Len(Append(log, now)) = Len(log) + 1 /\ Len(log) \in Nat
    <3>1. now \in States
      BY <2>1 DEF States
    <3> HIDE DEF now
    <3> QED
      BY <3>1, Appending DEF Typed
  <2>3. CASE result.applied
    <3>1. log' = Append(log, now) /\ own' = [own EXCEPT ![c] = Len(log')]
      BY <1>1, <2>3
    <3>2. Len(log') = Len(log) + 1 /\ Len(log') \in Nat
      BY <2>2, <3>1
    <3>3. own' \in [Goroutines -> Nat] /\ \A d \in Goroutines : own'[d] = IF d = c THEN Len(log') ELSE own[d]
      BY <3>1, <3>2 DEF Typed
    <3> QED
      BY <2>1, <2>2, <2>3, <3>1, <3>2, <3>3
  <2>4. CASE ~result.applied
    BY <1>1, <2>2, <2>4 DEF Typed
  <2> QED
    BY <1>2, <2>3, <2>4
<1>5. /\ \A d \in Goroutines : d # c => stage'[d] = stage[d] /\ response'[d] = response[d]
      /\ \/ ~result.ok /\ stage'[c] = "idle" /\ response'[c] = ErrorStatus(asked[c])
         \/ /\ result.ok /\ asked[c].entry = "json" /\ stage'[c] = "read"
         \/ /\ result.ok /\ asked[c].entry \in {"url", "batch"} /\ stage'[c] = "publish"
         \/ /\ result.ok /\ asked[c].entry = "grpc" /\ stage'[c] = "idle" /\ response'[c] = "ok"
      /\ stage' \in [Goroutines -> Steps] /\ response' \in [Goroutines -> Replies \cup {"none"}]
  <2>1. CASE ~result.ok
    BY <1>1, <2>1 DEF Respond, Typed, Steps, Replies, ErrorStatus
  <2>2. CASE result.ok /\ asked[c].entry = "json"
    BY <1>1, <2>2 DEF GoTo, Typed, Steps
  <2>3. CASE result.ok /\ asked[c].entry # "json"
    BY <1>1, <1>3, <2>3 DEF GoTo, Respond, Typed, Steps, Audits, Updating, Replies
  <2> QED
    BY <1>2, <2>1, <2>2, <2>3
<1>6. Typed'
  BY <1>3, <1>4, <1>5 DEF Typed
<1>7. Progress'
  BY <1>2, <1>3, <1>4, <1>5 DEF Progress, Updating, Typed
<1>8. Places'
  <2>1. \A d \in Goroutines : own[d] \in Nat /\ own[d] <= Len(log) /\ own[d] # Len(log) + 1
    BY <1>4 DEF Places, Typed
  <2>2. \A d \in Goroutines : own'[d] <= Len(log')
    BY <1>4, <2>1
  <2>3. \A d, e \in Goroutines : own'[d] # 0 /\ own'[d] = own'[e] => d = e
    BY <1>4, <2>1 DEF Places
  <2> QED
    BY <2>2, <2>3 DEF Places
<1>9. EventsOnce'
  <2>1. \A i \in DOMAIN events : events[i].of \in Nat /\ events[i].of <= Len(log)
    BY <1>4 DEF EventsOnce
  <2> QED
    <3>1. \A i \in DOMAIN events' : events'[i].of \in 1..Len(log')
      BY <1>3, <1>4, <2>1 DEF EventsOnce
    <3>2. \A i, j \in DOMAIN events' : events'[i].of = events'[j].of => i = j
      BY <1>3 DEF EventsOnce
    <3>3. ASSUME NEW d \in Goroutines, stage'[d] \in {"read", "publish"}, asked'[d].entry \in Updating,
                 NEW i \in DOMAIN events'
          PROVE  events'[i].of # own'[d]
      <4>1. events' = events /\ asked' = asked
        BY <1>3
      <4>2. CASE d = c
        BY <1>2, <1>4, <1>5, <2>1, <3>3, <4>1, <4>2
      <4>3. CASE d # c
        <5>1. stage[d] \in {"read", "publish"} /\ asked[d].entry \in Updating /\ own'[d] = own[d]
          BY <1>4, <1>5, <3>3, <4>1, <4>3
        <5>2. events[i].of # own[d]
          BY <3>3, <4>1, <5>1 DEF EventsOnce
        <5> QED
          BY <4>1, <5>1, <5>2
      <4> QED
        BY <4>2, <4>3
    <3> QED
      BY <3>1, <3>2, <3>3 DEF EventsOnce
<1>10. SuccessIsTrue' /\ EventThere'
  <2>1. ASSUME NEW d \in Goroutines, d # c
        PROVE  stage'[d] = stage[d] /\ response'[d] = response[d] /\ own'[d] = own[d] /\ asked'[d] = asked[d]
    BY <1>3, <1>4, <1>5, <2>1
  <2>2. /\ stage'[c] = "idle" /\ response'[c] = "ok" =>
               asked[c].entry = "grpc" /\ result.ok
        /\ stage'[c] = "idle" /\ response'[c] = "invalid" => asked[c].entry = "url"
    BY <1>2, <1>5 DEF ErrorStatus
  <2>3. result.ok => own'[c] # 0
    BY <1>2, <1>4
  <2>4. SuccessIsTrue'
    BY <1>3, <2>1, <2>2, <2>3 DEF SuccessIsTrue, Responded
  <2>5. EventThere'
    BY <1>3, <2>1, <2>2 DEF EventThere, Responded
  <2> QED
    BY <2>4, <2>5
<1> QED
  BY <1>6, <1>7, <1>8, <1>9, <1>10

\* A step that reads or only answers: success is for a request that does not update.
LEMMA ReadingInv ==
    ASSUME Inv, NEW c \in Goroutines, Read(c) \/ Page(c) \/ Ping(c)
    PROVE  Inv'
<1> USE DEF Inv
<1>1. /\ UNCHANGED <<storage, gauges, counters, log, events, asked, own>>
      /\ stage[c] \in {"read", "page", "ping"}
  BY DEF Read, Page, Ping, mapVars
<1>2. /\ \A d \in Goroutines : d # c => stage'[d] = stage[d] /\ response'[d] = response[d]
      /\ \/ stage'[c] = "publish" /\ stage[c] = "read" /\ Audits(asked[c])
         \/ /\ stage'[c] = "idle" /\ response'[c] \in {"ok", "internal", "notFound"}
            /\ response'[c] = "ok" => ~(stage[c] = "read" /\ Audits(asked[c]))
      /\ stage' \in [Goroutines -> Steps] /\ response' \in [Goroutines -> Replies \cup {"none"}]
  <2>1. CASE Page(c)
    BY <2>1 DEF Page, Respond, Typed, Steps, Replies
  <2>2. CASE Ping(c)
    BY <2>2 DEF Ping, Respond, Typed, Steps, Replies
  <2>3. CASE Read(c)
    BY <2>3 DEF Read, Respond, GoTo, Encoded, Typed, Steps, Replies
  <2> QED
    BY <2>1, <2>2, <2>3
<1>3. /\ asked[c] \in ApiCalls
      /\ asked[c].entry \in Updating => stage[c] = "read" /\ Audits(asked[c]) /\ own[c] # 0
      /\ asked[c].entry \in {"json", "value", "valueJSON", "root", "ping"}
  BY <1>1 DEF Progress, Updating, Audits
<1>4. Typed' /\ Places'
  BY <1>1, <1>2 DEF Typed, Places
<1>5. Progress'
  BY <1>1, <1>2, <1>3 DEF Progress, Audits, Updating
<1>6. EventsOnce'
  BY <1>1, <1>2, <1>3 DEF EventsOnce
<1>7. SuccessIsTrue' /\ EventThere'
  BY <1>1, <1>2, <1>3 DEF SuccessIsTrue, EventThere, Responded, Audits, Updating
<1> QED
  BY <1>4, <1>5, <1>6, <1>7

LEMMA PublishInv == ASSUME Inv, NEW c \in Goroutines, PublishAudit(c) PROVE Inv'
<1> USE DEF Inv
<1> DEFINE event == [names |-> Names(asked[c]), of |-> own[c]]
<1>1. /\ UNCHANGED <<storage, gauges, counters, log, asked, own>> /\ stage[c] = "publish"
      /\ events' = Append(events, event)
  BY DEF PublishAudit, mapVars
<1>2. /\ asked[c] \in ApiCalls /\ asked[c].entry \in {"url", "json", "batch"}
      /\ own[c] \in Nat /\ own[c] # 0 /\ own[c] <= Len(log) /\ Len(log) \in Nat
  BY <1>1 DEF Progress, Places, Typed, Updating
<1>3. /\ event \in [names : {Names(r) : r \in ApiCalls}, of : Nat]
      /\ event.names = Names(asked[c]) /\ event.of = own[c]
  BY <1>2
<1> HIDE DEF event
<1>4. /\ events' \in Seq([names : {Names(r) : r \in ApiCalls}, of : Nat])
      /\ Len(events) \in Nat /\ DOMAIN events = 1..Len(events)
      /\ DOMAIN events' = 1..(Len(events) + 1)
      /\ events'[Len(events) + 1] = event
      /\ \A i \in 1..Len(events) : events'[i] = events[i]
  BY <1>1, <1>3, Appending DEF Typed
<1>5. /\ \A d \in Goroutines : d # c => stage'[d] = stage[d] /\ response'[d] = response[d]
      /\ stage'[c] = "idle" /\ response'[c] \in {"ok", "internal"}
      /\ stage' \in [Goroutines -> Steps] /\ response' \in [Goroutines -> Replies \cup {"none"}]
  BY DEF PublishAudit, Respond, Encoded, Typed, Steps, Replies
<1>6. Typed' /\ Progress' /\ Places'
  BY <1>1, <1>4, <1>5 DEF Typed, Progress, Places
<1>7. EventsOnce'
  <2>1. \A i \in DOMAIN events : events[i].of # own[c]
    BY <1>1, <1>2 DEF EventsOnce, Updating
  <2>2. \A d \in Goroutines : d # c /\ own[d] # 0 => own[d] # own[c]
    BY DEF Places
  <2>3. \A d \in Goroutines : stage'[d] \in {"read", "publish"} /\ asked[d].entry \in Updating =>
            own[d] # own[c] /\ \A i \in DOMAIN events : events[i].of # own[d]
    BY <1>5, <2>2 DEF EventsOnce, Progress
  <2>4. \A i \in DOMAIN events' : \/ i \in DOMAIN events /\ events'[i] = events[i]
                                  \/ i = Len(events) + 1 /\ events'[i] = event
    BY <1>4
  <2>5. \A i \in DOMAIN events' : events'[i].of \in 1..Len(log)
    BY <1>2, <1>3, <2>4 DEF EventsOnce
  <2>6. \A i, j \in DOMAIN events' : events'[i].of = events'[j].of => i = j
    BY <1>3, <2>1, <2>4 DEF EventsOnce
  <2>7. \A d \in Goroutines : stage'[d] \in {"read", "publish"} /\ asked[d].entry \in Updating =>
            \A i \in DOMAIN events' : events'[i].of # own[d]
    BY <1>3, <2>3, <2>4
  <2> QED
    BY <1>1, <2>5, <2>6, <2>7 DEF EventsOnce
<1>8. SuccessIsTrue'
  BY <1>1, <1>2, <1>5 DEF SuccessIsTrue, Responded
<1>9. EventThere'
  <2>1. \A i \in DOMAIN events : i \in DOMAIN events' /\ events'[i] = events[i]
    BY <1>4
  <2>2. Len(events) + 1 \in DOMAIN events'
    BY <1>4
  <2>3. ASSUME NEW d \in Goroutines, d # c, Responded(d, "ok")', asked'[d].entry \in {"url", "json", "batch"}
        PROVE  \E i \in DOMAIN events' : events'[i].of = own'[d] /\ events'[i].names = Names(asked'[d])
    <3>1. PICK i \in DOMAIN events : events[i].of = own[d] /\ events[i].names = Names(asked[d])
      BY <1>1, <1>5, <2>3 DEF EventThere, Responded
    <3> QED
      BY <1>1, <2>1, <3>1
  <2>4. \E i \in DOMAIN events' : events'[i].of = own'[c] /\ events'[i].names = Names(asked'[c])
    BY <1>1, <1>3, <1>4, <2>2
  <2> QED
    BY <2>3, <2>4 DEF EventThere
<1> QED
  BY <1>6, <1>7, <1>8, <1>9

LEMMA NextInv == Inv /\ [ApiNext]_apiVars => Inv'
<1> SUFFICES ASSUME Inv, [ApiNext]_apiVars PROVE Inv'
  OBVIOUS
<1>1. CASE UNCHANGED apiVars
  BY <1>1 DEF apiVars, mapVars, Inv, Typed, Progress, Places, EventsOnce, SuccessIsTrue,
              EventThere, Responded
<1>2. CASE ApiNext
  BY <1>2, ReceiveInv, UpdateInv, ReadingInv, PublishInv DEF ApiNext
<1> QED
  BY <1>1, <1>2

LEMMA Invariance == ApiSpec => []Inv
  BY InitInv, NextInv, PTL DEF ApiSpec

-----------------------------------------------------------------------------
\* What is read, and what is answered of it: a second invariant, on top of the first.

\* The log ends with what the storage holds.
Latest == HeldAt(Len(log)) = [gauges |-> gauges, counters |-> counters]

\* A request that has still to read has seen nothing, and one that is to read back its
\* update will find it.
Reading ==
    /\ from \in [Goroutines -> Nat] /\ seen = [c \in Goroutines |-> seen[c]]
    /\ \A c \in Goroutines :
        /\ from[c] <= Len(log)
        /\ stage[c] \in {"update", "read"} => seen[c] = Nil
        /\ stage[c] \in {"update", "read"} /\ asked[c].entry = "json" =>
               Len(asked[c].ops) = 1 /\ KnownType(The(asked[c])) /\ The(asked[c]).amount # Nil
        /\ stage[c] = "read" /\ asked[c].entry = "json" => Current(The(asked[c])) # Nil

ReadInv == Inv /\ Latest /\ Reading /\ ReadsAreCurrent /\ StatusIsTrue

LEMMA ReadInitInv == ApiInit => ReadInv
<1> SUFFICES ASSUME ApiInit PROVE ReadInv
  OBVIOUS
<1>1. log = <<>> /\ Len(log) = 0
  BY DEF ApiInit
<1>2. Latest
  BY <1>1 DEF ApiInit, Latest, HeldAt
<1>3. Reading
  BY <1>1 DEF ApiInit, Reading
<1>4. ReadsAreCurrent /\ StatusIsTrue
  BY InitInv DEF ApiInit, Inv, ReadsAreCurrent, StatusIsTrue, Responded, NoRequest, Updating
<1> QED
  BY <1>2, <1>3, <1>4, InitInv DEF ReadInv

\* What a request has seen stays true while others go on.
LEMMA SeenStays ==
    ASSUME ReadInv, Len(log') \in Nat, Len(log) <= Len(log'),
           \A n \in 0..Len(log) : HeldAt(n)' = HeldAt(n),
           NEW c \in Goroutines, from'[c] = from[c], own'[c] = own[c], seen'[c] = seen[c],
           asked'[c] = asked[c], seen[c] # Nil, asked[c].entry \in {"json", "value", "valueJSON"}
    PROVE  \E n \in Moments(c)' : seen'[c] = ValueAt(n, The(asked[c]))'
<1>1. PICK n \in Moments(c) : seen[c] = ValueAt(n, The(asked[c]))
  BY DEF ReadInv, ReadsAreCurrent
<1>2. from[c] \in Nat /\ Len(log) \in Nat
  BY DEF ReadInv, Reading, Inv, Typed
<1>3. n \in 0..Len(log) /\ n \in Moments(c)'
  BY <1>1, <1>2 DEF Moments
<1> QED
  BY <1>1, <1>3 DEF ValueAt

LEMMA ReadReceive ==
    ASSUME ReadInv, NEW c \in Goroutines, NEW r \in ApiCalls, ReceiveCall(c, r) PROVE ReadInv'
<1> USE DEF ReadInv
<1>1. Inv'
  BY ReceiveInv
<1>2. /\ UNCHANGED <<storage, gauges, counters, log>>
      /\ \A d \in Goroutines :
            /\ asked'[d] = IF d = c THEN r ELSE asked[d]
            /\ own'[d] = IF d = c THEN 0 ELSE own[d]
            /\ seen'[d] = IF d = c THEN Nil ELSE seen[d]
            /\ from'[d] = IF d = c THEN Len(log) ELSE from[d]
            /\ d # c => stage'[d] = stage[d] /\ response'[d] = response[d]
      /\ from' = [from EXCEPT ![c] = Len(log)] /\ seen' = [seen EXCEPT ![c] = Nil]
  BY DEF ReceiveCall, mapVars, Inv, Typed, Respond, Reading
<1>3. /\ stage'[c] # "idle" => Verdict(r) = "ok" /\ stage'[c] = FirstStep(r)
      /\ stage'[c] = "idle" => response'[c] # "ok"
  BY DEF ReceiveCall, Inv, Typed, Respond, FirstStep
<1>4. Len(log) \in Nat
  BY DEF Inv, Typed
<1>5. Latest'
  BY <1>2 DEF Latest, HeldAt
<1>6. Reading'
  <2>1. from' \in [Goroutines -> Nat] /\ seen' = [d \in Goroutines |-> seen'[d]]
    BY <1>2, <1>4 DEF Reading
  <2>2. stage'[c] # "read" \/ r.entry # "json"
    BY <1>3 DEF FirstStep, Updating
  <2>3. stage'[c] = "update" /\ r.entry = "json" =>
            Len(r.ops) = 1 /\ KnownType(The(r)) /\ The(r).amount # Nil
    <3> SUFFICES ASSUME Verdict(r) = "ok", r.entry = "json"
                 PROVE  Len(r.ops) = 1 /\ KnownType(The(r)) /\ The(r).amount # Nil
      BY <1>3
    <3>1. ~Undecodable(r) /\ ~Untyped(r) /\ ~Valueless(r)
      BY DEF Verdict
    <3>2. r.ops # <<>> /\ KnownType(The(r)) /\ The(r).amount # Nil
      BY <3>1 DEF Undecodable, Untyped, Valueless, Updating
    <3>3. Len(r.ops) = 1
      BY <3>2, CallsAssumption
    <3> QED
      BY <3>2, <3>3
  <2>4. \A op : Current(op)' = Current(op)
    BY <1>2 DEF Current
  <2>5. ASSUME NEW d \in Goroutines
        PROVE  /\ from'[d] <= Len(log')
               /\ stage'[d] \in {"update", "read"} => seen'[d] = Nil
               /\ stage'[d] \in {"update", "read"} /\ asked'[d].entry = "json" =>
                      /\ Len(asked'[d].ops) = 1 /\ KnownType(The(asked'[d]))
                      /\ The(asked'[d]).amount # Nil
               /\ stage'[d] = "read" /\ asked'[d].entry = "json" => Current(The(asked[d]))' # Nil
    <3>1. CASE d = c
      BY <1>2, <1>4, <2>2, <2>3, <3>1
    <3>2. CASE d # c
      BY <1>2, <2>4, <3>2 DEF Reading
    <3> QED
      BY <3>1, <3>2
  <2> QED
    BY <2>1, <2>5 DEF Reading
<1>7. ReadsAreCurrent'
  <2>1. \A n \in 0..Len(log) : HeldAt(n)' = HeldAt(n)
    BY <1>2 DEF HeldAt
  <2> SUFFICES ASSUME NEW d \in Goroutines, seen'[d] # Nil, asked'[d].entry \in {"json", "value", "valueJSON"}
               PROVE  \E n \in Moments(d)' : seen'[d] = ValueAt(n, The(asked[d]))'
    BY DEF ReadsAreCurrent
  <2>2. d # c
    BY <1>2
  <2>3. Len(log') \in Nat /\ Len(log) <= Len(log') /\ asked'[d] = asked[d]
    BY <1>2, <1>4, <2>2
  <2>4. \E n \in Moments(d)' : seen'[d] = ValueAt(n, The(asked[d]))'
    BY <1>2, <2>1, <2>2, <2>3, SeenStays
  <2> QED
    BY <2>4
<1>8. StatusIsTrue'
  BY <1>1, <1>2 DEF StatusIsTrue, Inv, Responded
<1> QED
  BY <1>1, <1>5, <1>6, <1>7, <1>8

\* An update keeps what there was; the metric of a single one is there afterwards.
LEMMA UpdateLeaves ==
    ASSUME Inv, NEW r \in ApiCalls,
           gauges' = Store!Measured(gauges, r.ops), counters' = Store!Counted(counters, r.ops)
    PROVE  /\ \A op : op.id \in Ids /\ KnownType(op) /\ Current(op) # Nil => Current(op)' # Nil
           /\ Len(r.ops) = 1 /\ KnownType(The(r)) /\ The(r).amount # Nil =>
                  The(r).id \in Ids /\ Current(The(r))' # Nil
<1>1. gauges' = Applied("gauge", gauges, r.ops) /\ counters' = Applied("counter", counters, r.ops)
  BY DEF Applied
<1>2. gauges \in Held("gauge") /\ counters \in Held("counter")
  BY DEF Inv, Typed
<1>3. \A i \in Ids : /\ gauges[i] # Nil => gauges'[i] # Nil
                     /\ counters[i] # Nil => counters'[i] # Nil
  BY <1>1, <1>2, NothingIsRemoved DEF Kinds
<1>4. ASSUME Len(r.ops) = 1, KnownType(The(r)), The(r).amount # Nil
      PROVE  The(r).id \in Ids /\ Current(The(r))' # Nil
  <2>1. CASE The(r).type = "gauge"
    BY <1>1, <1>2, <1>4, <2>1, TheMetricIsThere DEF Kinds, Current
  <2>2. CASE The(r).type = "counter"
    BY <1>1, <1>2, <1>4, <2>2, TheMetricIsThere DEF Kinds, Current
  <2> QED
    BY <1>4, <2>1, <2>2 DEF KnownType
<1> QED
  BY <1>3, <1>4 DEF Current

LEMMA ReadUpdate == ASSUME ReadInv, NEW c \in Goroutines, Update(c) PROVE ReadInv'
<1> USE DEF ReadInv
<1>1. Inv'
  BY UpdateInv
<1>2. PICK result \in UpdateResults(asked[c]) :
         /\ IF result.applied
            THEN /\ gauges' = Store!Measured(gauges, asked[c].ops)
                 /\ counters' = Store!Counted(counters, asked[c].ops)
                 /\ log' = Append(log, [gauges |-> gauges', counters |-> counters'])
                 /\ own' = [own EXCEPT ![c] = Len(log')]
            ELSE UNCHANGED <<gauges, counters, log, own>>
         /\ CASE ~result.ok -> Respond(c, ErrorStatus(asked[c]))
              [] result.ok /\ asked[c].entry = "json" -> GoTo(c, "read")
              [] result.ok /\ asked[c].entry # "json" ->
                     IF Audits(asked[c]) THEN GoTo(c, "publish") ELSE Respond(c, "ok")
  BY DEF Update, mapVars
<1>3. /\ result.applied \in BOOLEAN /\ result.ok \in BOOLEAN
      /\ result.ok => result.applied
  BY ResultsOfUpdate DEF Inv, Typed
<1>4. /\ stage[c] = "update" /\ UNCHANGED <<storage, asked, seen, from>>
      /\ asked[c] \in ApiCalls /\ Len(log) \in Nat /\ seen[c] = Nil
      /\ \A d \in Goroutines : d # c => own'[d] = own[d] /\ stage'[d] = stage[d] /\ response'[d] = response[d]
  <2>1. \A d \in Goroutines : d # c => own'[d] = own[d]
    BY <1>2, <1>3 DEF Inv, Typed
  <2>2. \A d \in Goroutines : d # c => stage'[d] = stage[d] /\ response'[d] = response[d]
    BY <1>2, <1>3 DEF Inv, Typed, Respond, GoTo
  <2> QED
    BY <2>1, <2>2 DEF Update, Inv, Typed, Progress, Reading
<1>5. /\ stage'[c] \in {"read", "publish", "idle"}
      /\ stage'[c] = "read" => result.ok /\ asked[c].entry = "json"
      /\ stage'[c] = "idle" => response'[c] \in {"invalid", "internal", "ok"}
  BY <1>2, <1>3 DEF Inv, Typed, Respond, GoTo, ErrorStatus
<1>6. /\ Len(log') \in Nat /\ Len(log) <= Len(log')
      /\ \A n \in 0..Len(log) : HeldAt(n)' = HeldAt(n)
      /\ Latest'
  <2>1. CASE result.applied
    <3> DEFINE now == [gauges |-> gauges', counters |-> counters']
    <3>1. now \in States
      BY <1>1 DEF Inv, Typed, States
    <3>2. log' = Append(log, now)
      BY <1>2, <2>1
    <3> HIDE DEF now
    <3>3. /\ Len(log') = Len(log) + 1 /\ log'[Len(log) + 1] = now
          /\ \A i \in 1..Len(log) : log'[i] = log[i]
      BY <3>1, <3>2, Appending DEF Inv, Typed
    <3>4. \A n \in 0..Len(log) : HeldAt(n)' = HeldAt(n)
      BY <1>4, <3>3 DEF HeldAt
    <3>5. HeldAt(Len(log))' = now
      BY <1>4, <3>3 DEF HeldAt
    <3> QED
      BY <1>4, <3>3, <3>4, <3>5 DEF Latest, now
  <2>2. CASE ~result.applied
    BY <1>2, <1>4, <2>2 DEF HeldAt, Latest
  <2> QED
    BY <1>3, <2>1, <2>2
<1>7. \A op : op.id \in Ids /\ KnownType(op) /\ Current(op) # Nil => Current(op)' # Nil
  <2>1. CASE result.applied
    BY <1>2, <1>4, <2>1, UpdateLeaves
  <2>2. CASE ~result.applied
    BY <1>2, <2>2 DEF Current
  <2> QED
    BY <1>3, <2>1, <2>2
<1>8. Reading'
  <2>1. stage'[c] = "read" => Current(The(asked[c]))' # Nil
    <3> SUFFICES ASSUME stage'[c] = "read" PROVE Current(The(asked[c]))' # Nil
      OBVIOUS
    <3>1. result.applied /\ asked[c].entry = "json"
      BY <1>3, <1>5
    <3>2. Len(asked[c].ops) = 1 /\ KnownType(The(asked[c])) /\ The(asked[c]).amount # Nil
      BY <1>4, <3>1 DEF Reading
    <3> QED
      BY <1>2, <1>4, <3>1, <3>2, UpdateLeaves
  <2>2. ASSUME NEW d \in Goroutines, stage[d] = "read", asked[d].entry = "json"
        PROVE  Current(The(asked[d]))' # Nil
    <3>1. /\ Len(asked[d].ops) = 1 /\ KnownType(The(asked[d])) /\ Current(The(asked[d])) # Nil
          /\ asked[d] \in ApiCalls
      BY <2>2 DEF Reading, Inv, Progress
    <3>2. The(asked[d]).id \in Ids
      BY <3>1, CallsAssumption DEF The
    <3> QED
      BY <1>4, <1>7, <3>1, <3>2
  <2>3. from \in [Goroutines -> Nat] /\ seen = [d \in Goroutines |-> seen[d]]
    BY DEF Reading
  <2>4. \A d \in Goroutines : from[d] <= Len(log')
    BY <1>4, <1>6, <2>3 DEF Reading
  <2>5. ASSUME NEW d \in Goroutines
        PROVE  /\ stage'[d] \in {"update", "read"} => seen[d] = Nil
               /\ stage'[d] \in {"update", "read"} /\ asked[d].entry = "json" =>
                      /\ Len(asked[d].ops) = 1 /\ KnownType(The(asked[d]))
                      /\ The(asked[d]).amount # Nil
               /\ stage'[d] = "read" /\ asked[d].entry = "json" => Current(The(asked[d]))' # Nil
    BY <1>4, <1>5, <2>1, <2>2 DEF Reading
  <2> QED
    BY <1>4, <2>3, <2>4, <2>5 DEF Reading
<1>9. ReadsAreCurrent'
  <2> SUFFICES ASSUME NEW d \in Goroutines, seen'[d] # Nil, asked'[d].entry \in {"json", "value", "valueJSON"}
               PROVE  \E n \in Moments(d)' : seen'[d] = ValueAt(n, The(asked[d]))'
    BY DEF ReadsAreCurrent
  <2>1. d # c /\ asked'[d] = asked[d] /\ seen'[d] = seen[d] /\ from'[d] = from[d] /\ own'[d] = own[d]
    BY <1>4
  <2>2. \E n \in Moments(d)' : seen'[d] = ValueAt(n, The(asked[d]))'
    BY <1>6, <2>1, SeenStays
  <2> QED
    BY <2>2
<1>10. StatusIsTrue'
  <2>1. SuccessIsTrue'
    BY <1>1 DEF Inv
  <2>2. ~Responded(c, "notFound")'
    BY <1>5 DEF Responded
  <2> QED
    BY <1>4, <2>1, <2>2 DEF StatusIsTrue, Responded
<1> QED
  BY <1>1, <1>6, <1>8, <1>9, <1>10

\* A step that reads takes the value of this moment; the others take none.
LEMMA ReadReading ==
    ASSUME ReadInv, NEW c \in Goroutines, Read(c) \/ Page(c) \/ Ping(c) \/ PublishAudit(c)
    PROVE  ReadInv'
<1> USE DEF ReadInv
<1>1. Inv'
  BY ReadingInv, PublishInv
<1>2. /\ UNCHANGED <<storage, gauges, counters, log, asked, own, from>>
      /\ Len(log) \in Nat
      /\ \A d \in Goroutines : d # c => stage'[d] = stage[d] /\ response'[d] = response[d] /\ seen'[d] = seen[d]
      /\ seen' = [d \in Goroutines |-> seen'[d]]
  <2>1. \A d \in Goroutines : d # c => stage'[d] = stage[d] /\ response'[d] = response[d]
    BY DEF Read, Page, Ping, PublishAudit, Respond, GoTo, Inv, Typed
  <2>2. seen' = seen \/ seen' = [seen EXCEPT ![c] = Found(c)]
    BY DEF Read, Page, Ping, PublishAudit
  <2>3. /\ \A d \in Goroutines : d # c => seen'[d] = seen[d]
        /\ seen' = [d \in Goroutines |-> seen'[d]]
    BY <2>2 DEF Reading
  <2> QED
    BY <2>1, <2>3 DEF Read, Page, Ping, PublishAudit, mapVars, Inv, Typed
<1>3. /\ stage'[c] \in {"idle", "publish"}
      /\ seen'[c] = seen[c] \/ (Read(c) /\ seen'[c] = Found(c))
  <2>1. stage'[c] \in {"idle", "publish"}
    BY DEF Read, Page, Ping, PublishAudit, Respond, GoTo, Inv, Typed
  <2>2. CASE Read(c)
    BY <2>1, <2>2 DEF Read, Reading
  <2>3. CASE Page(c) \/ Ping(c) \/ PublishAudit(c)
    BY <2>1, <2>3 DEF Page, Ping, PublishAudit
  <2> QED
    BY <2>1, <2>2, <2>3
<1>4. /\ \A n \in 0..Len(log) : HeldAt(n)' = HeldAt(n)
      /\ \A op : Current(op)' = Current(op)
      /\ Latest'
  BY <1>2 DEF HeldAt, Current, Latest
<1>5. Reading'
  <2>1. ASSUME NEW d \in Goroutines
        PROVE  /\ from[d] <= Len(log)
               /\ stage'[d] \in {"update", "read"} => seen'[d] = Nil
               /\ stage'[d] \in {"update", "read"} /\ asked[d].entry = "json" =>
                      /\ Len(asked[d].ops) = 1 /\ KnownType(The(asked[d]))
                      /\ The(asked[d]).amount # Nil
               /\ stage'[d] = "read" /\ asked[d].entry = "json" => Current(The(asked[d]))' # Nil
    BY <1>2, <1>3, <1>4 DEF Reading
  <2> QED
    BY <1>2, <2>1 DEF Reading
<1>6. ReadsAreCurrent'
  <2> SUFFICES ASSUME NEW d \in Goroutines, seen'[d] # Nil, asked'[d].entry \in {"json", "value", "valueJSON"}
               PROVE  \E n \in Moments(d)' : seen'[d] = ValueAt(n, The(asked[d]))'
    BY DEF ReadsAreCurrent
  <2>1. CASE seen'[d] = seen[d]
    <3>1. \E n \in Moments(d)' : seen'[d] = ValueAt(n, The(asked[d]))'
      BY <1>2, <1>4, <2>1, SeenStays
    <3> QED
      BY <3>1
  <2>2. CASE seen'[d] # seen[d]
    <3>1. d = c /\ Read(c) /\ seen'[d] = Current(The(asked[d]))
      BY <1>2, <1>3, <2>2 DEF Found
    <3>2. Len(log) \in Moments(d)'
      BY <1>2 DEF Moments, Reading, Inv, Places
    <3>3. \A n : n = Len(log) => ValueAt(n, The(asked[d]))' = Current(The(asked[d]))
      BY <1>2 DEF Latest, ValueAt, HeldAt, Current
    <3> QED
      BY <3>1, <3>2, <3>3
  <2> QED
    BY <2>1, <2>2
<1>7. StatusIsTrue'
  <2>1. SuccessIsTrue'
    BY <1>1 DEF Inv
  <2>2. ASSUME asked[c].entry \in Updating, Responded(c, "notFound")', storage # "pg" PROVE FALSE
    <3>1. CASE Read(c)
      <4>1. stage[c] = "read" /\ asked[c].entry = "json" /\ Audits(asked[c])
        BY <2>2, <3>1 DEF Read, Inv, Progress, Updating, Audits
      <4>2. Current(The(asked[c])) # Nil /\ ~ReadFails
        BY <2>2, <4>1 DEF Reading, ReadFails
      <4>3. GoTo(c, "publish")
        BY <3>1, <4>1, <4>2 DEF Read
      <4> QED
        BY <2>2, <4>3 DEF GoTo, Responded, Inv, Typed
    <3>2. CASE Page(c) \/ Ping(c)
      BY <2>2, <3>2 DEF Page, Ping, Inv, Progress, Updating
    <3>3. CASE PublishAudit(c)
      BY <2>2, <3>3 DEF PublishAudit, Respond, Encoded, Responded, Inv, Typed
    <3> QED
      BY <3>1, <3>2, <3>3
  <2> QED
    BY <1>2, <2>1, <2>2 DEF StatusIsTrue, Responded
<1> QED
  BY <1>1, <1>4, <1>5, <1>6, <1>7

LEMMA ReadInvariance == ApiSpec => []ReadInv
<1>1. ReadInv /\ [ApiNext]_apiVars => ReadInv'
  <2> SUFFICES ASSUME ReadInv, [ApiNext]_apiVars PROVE ReadInv'
    OBVIOUS
  <2>1. CASE UNCHANGED apiVars
    <3>1. Inv'
      BY <2>1, NextInv DEF ReadInv
    <3>2. (Latest /\ Reading)'
      BY <2>1 DEF ReadInv, apiVars, mapVars, Latest, Reading, HeldAt, Current
    <3>3. (ReadsAreCurrent /\ StatusIsTrue)'
      BY <2>1 DEF ReadInv, apiVars, mapVars, ReadsAreCurrent, Moments, ValueAt, HeldAt,
                  StatusIsTrue, SuccessIsTrue, Responded
    <3> QED
      BY <3>1, <3>2, <3>3 DEF ReadInv
  <2>2. CASE ApiNext
    BY <2>2, ReadReceive, ReadUpdate, ReadReading DEF ApiNext
  <2> QED
    BY <2>1, <2>2
<1> QED
  BY <1>1, ReadInitInv, PTL DEF ApiSpec

-----------------------------------------------------------------------------
\* The theorems.

\* However requests interleave and whichever storage main has chosen, success is
\* answered only of an update that was applied, and an update that is refused as invalid
\* was not, except by UpdateHandler (handler.go:225-240, grpcserver/server.go:83-98).
THEOREM SuccessOnlyWhenApplied == ApiSpec => []SuccessIsTrue
<1>1. Inv => SuccessIsTrue
  BY DEF Inv
<1> QED
  BY <1>1, Invariance, PTL

\* The same, and a refusal as unnamed is true too, unless the database could not be read
\* back: what a JSON update is answered from is there, since no request in between can
\* have removed it (service/metrics.go:71-107).
THEOREM AnswersTellTheTruth == ApiSpec => []StatusIsTrue
<1>1. ReadInv => StatusIsTrue
  BY DEF ReadInv
<1> QED
  BY <1>1, ReadInvariance, PTL

\* A value that is answered is one that the metric had after the call began and after
\* the call's own update, whatever other requests did (service/metrics.go:81-101, 109-154).
THEOREM ValuesAreCurrent == ApiSpec => []ReadsAreCurrent
<1>1. ReadInv => ReadsAreCurrent
  BY DEF ReadInv
<1> QED
  BY <1>1, ReadInvariance, PTL

\* An event is of an update that was applied, there is one at most for each, and no
\* HTTP update is answered with success before its event is published
\* (handler.go:87, 124, 173).
THEOREM EveryUpdateAuditedOnce == ApiSpec => []AuditedOnce
<1>1. Inv => AuditedOnce
  <2> SUFFICES ASSUME Inv PROVE AuditedOnce
    OBVIOUS
  <2>1. DOMAIN log = 1..Len(log)
    BY DEF Inv, Typed
  <2> QED
    BY <2>1 DEF Inv, EventsOnce, EventThere, AuditedOnce
<1> QED
  BY <1>1, Invariance, PTL

=============================================================================
