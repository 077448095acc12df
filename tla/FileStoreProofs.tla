--------------------------- MODULE FileStoreProofs ---------------------------
(***************************************************************************)
(* What the file holds, for any number of handlers and updates.            *)
(***************************************************************************)
EXTENDS FileStore, TLAPS

\* Facts about prefixes used below.

LEMMA PrefixReflexive ==
    \A s \in Seq(Updates) : IsPrefix(s, s)
  BY DEF IsPrefix

LEMMA PrefixOfAppend ==
    \A s, t \in Seq(Updates), u \in Updates : IsPrefix(s, t) => IsPrefix(s, Append(t, u))
<1> SUFFICES ASSUME NEW s \in Seq(Updates), NEW t \in Seq(Updates), NEW u \in Updates,
                    IsPrefix(s, t)
             PROVE  IsPrefix(s, Append(t, u))
  OBVIOUS
<1>1. Len(s) \in Nat /\ Len(t) \in Nat /\ Len(s) <= Len(t) /\ Len(Append(t, u)) = Len(t) + 1
  BY DEF IsPrefix
<1>2. \A i \in 1..Len(t) : Append(t, u)[i] = t[i]
  OBVIOUS
<1>3. SubSeq(t, 1, Len(s)) = SubSeq(Append(t, u), 1, Len(s))
  BY <1>1, <1>2
<1> QED
  BY <1>1, <1>3 DEF IsPrefix

LEMMA EmptyPrefix ==
    <<>> \in Seq(Updates) /\ \A s \in Seq(Updates) : IsPrefix(<<>>, s)
<1>1. <<>> \in Seq(Updates) /\ Len(<<>>) = 0
  OBVIOUS
<1>2. ASSUME NEW s \in Seq(Updates) PROVE IsPrefix(<<>>, s)
  <2>1. SubSeq(s, 1, 0) = <<>>
    OBVIOUS
  <2>2. Len(s) \in Nat /\ SubSeq(<<>>, 1, 0) = <<>>
    OBVIOUS
  <2> QED
    BY <1>1, <2>1, <2>2 DEF IsPrefix
<1> QED
  BY <1>1, <1>2

LEMMA PrefixElements ==
    \A s, t \in Seq(Updates) : IsPrefix(s, t) => ToSet(s) \subseteq ToSet(t)
<1> SUFFICES ASSUME NEW s \in Seq(Updates), NEW t \in Seq(Updates), IsPrefix(s, t),
                    NEW i \in DOMAIN s
             PROVE  \E j \in DOMAIN t : t[j] = s[i]
  BY DEF ToSet
<1>1. DOMAIN s = 1..Len(s) /\ DOMAIN t = 1..Len(t) /\ Len(s) \in Nat /\ Len(t) \in Nat
  OBVIOUS
<1>2. Len(s) <= Len(t) /\ SubSeq(s, 1, Len(s)) = SubSeq(t, 1, Len(s))
  BY DEF IsPrefix
<1>3. SubSeq(s, 1, Len(s))[i] = s[i] /\ SubSeq(t, 1, Len(s))[i] = t[i]
  BY <1>1, <1>2
<1> QED
  BY <1>1, <1>2, <1>3

LEMMA AppendElements ==
    \A s \in Seq(Updates), u \in Updates :
        /\ Append(s, u) \in Seq(Updates)
        /\ ToSet(Append(s, u)) = ToSet(s) \cup {u}
<1> SUFFICES ASSUME NEW s \in Seq(Updates), NEW u \in Updates
             PROVE  /\ Append(s, u) \in Seq(Updates)
                    /\ ToSet(Append(s, u)) = ToSet(s) \cup {u}
  OBVIOUS
<1>1. Append(s, u) \in Seq(Updates) /\ Len(Append(s, u)) = Len(s) + 1
  OBVIOUS
<1>2. \A i \in 1..Len(s) : Append(s, u)[i] = s[i]
  OBVIOUS
<1>3. Append(s, u)[Len(s) + 1] = u
  OBVIOUS
<1>4. DOMAIN Append(s, u) = DOMAIN s \cup {Len(s) + 1}
  OBVIOUS
<1>5. DOMAIN s = 1..Len(s)
  OBVIOUS
<1> QED
  BY <1>1, <1>2, <1>3, <1>4, <1>5 DEF ToSet

-----------------------------------------------------------------------------
(***************************************************************************)
(* The inductive invariant: every document being written is a past state   *)
(* of the memory, and so is the file; while Saves do not overlap, the      *)
(* document being written continues the file and holds the update its      *)
(* handler will acknowledge; after all requests have ended the final       *)
(* Save's document is the memory, and nobody replaces it by another.       *)
(***************************************************************************)
AllPast == /\ file \in Seq(Updates)
           /\ Running /\ restored => IsPrefix(file, mem)
           /\ \A a \in Savers : Writing(a) => IsPrefix(snapshot[a], mem)

Phases == /\ pc[Main] \in {"idle", "encode", "write", "rename"}
          /\ phase = "saving" <=> pc[Main] # "idle"
          /\ phase = "down" => pc = AllIdle
          /\ drained => phase \in {"saving", "closing", "down"}
          /\ mode # "periodic" => pc[Periodic] = "idle"

\* A handler that is not idle serves an update that was received; past Apply
\* it is in memory, and then in the document.
Requests == \A h \in Handlers :
                /\ pc[h] # "idle" => update[h] \in received
                /\ pc[h] = "encode" => update[h] \in ToSet(mem)
                /\ Writing(h) => update[h] \in ToSet(snapshot[h])

\* Where an acknowledged update has to be.
Durable == mode = "sync" => acked \ Batched \subseteq ToSet(file)

Order == orderly =>
             /\ Running => restored
             /\ \A a, b \in Savers : Writing(a) /\ Writing(b) => a = b
             /\ \A a \in Savers : Writing(a) => IsPrefix(file, snapshot[a])
             /\ Durable

Alone == mode # "periodic" \/ orderly

LastSave == Alone /\ drained =>
                /\ Writing(Main) => snapshot[Main] = mem
                /\ phase \in {"closing", "down"} /\ finalSaved =>
                       /\ file = mem
                       /\ \A a \in Savers : Writing(a) => snapshot[a] = mem

IInv == TypeOK /\ AllPast /\ Phases /\ Requests /\ Order /\ LastSave

LEMMA InitIInv == Init => IInv
<1> SUFFICES ASSUME Init PROVE IInv
  OBVIOUS
<1> USE EmptyPrefix, SaversAssumption DEF Init
<1>1. TypeOK
  BY Zenon DEF TypeOK, RunTypeOK, CallTypeOK, AllIdle
<1>2. AllPast
  BY DEF AllPast, Running, Writing, AllIdle, Savers
<1>3. Phases
  BY DEF Phases, AllIdle, Savers
<1>4. Requests
  BY DEF Requests, AllIdle, Savers, Writing
<1>5. Order
  BY DEF Order, Durable, Running, Writing, AllIdle, Savers
<1>6. LastSave
  BY DEF LastSave
<1> QED
  BY <1>1, <1>2, <1>3, <1>4, <1>5, <1>6 DEF IInv

-----------------------------------------------------------------------------
(***************************************************************************)
(* Steps of Save.  Each either goes on or returns, and changes nothing of  *)
(* the other goroutines.                                                   *)
(***************************************************************************)
LEMMA SaveReturnsIInv ==
    ASSUME IInv, NEW a \in Savers, NEW ok \in BOOLEAN,
           Running, Saving(a), SaveReturns(a, ok), UNCHANGED orderly,
           IF ok THEN Writing(a) /\ file' = snapshot[a] ELSE file' = file
    PROVE  IInv' /\ (orderly => IsPrefix(file, file'))
<1> USE SaversAssumption DEF Savers
<1>t. /\ pc \in [Savers -> {"idle", "apply", "encode", "write", "rename", "exited"}]
      /\ snapshot \in [Savers -> Seq(Updates)]
      /\ update \in [Handlers -> Updates \cup {None}]
      /\ mem \in Seq(Updates) /\ file \in Seq(Updates)
  BY DEF IInv, TypeOK, CallTypeOK, AllPast
<1>r. Requests /\ Phases
  BY DEF IInv
<1>1. \A b \in Savers : b # a => pc'[b] = pc[b] /\ snapshot'[b] = snapshot[b]
  BY <1>t DEF SaveReturns
<1>2. pc'[a] \in {"idle", "exited"} /\ (a # Periodic => pc'[a] = "idle")
  BY <1>t DEF SaveReturns, AfterPeriodicSave
<1>3. /\ mem' = mem /\ starts' = starts /\ restored' = restored /\ drained' = drained
      /\ received' = received /\ mode' = mode
  BY DEF SaveReturns
<1>4. file' \in Seq(Updates)
  BY <1>t
<1>5. CallTypeOK'
  <2>1. pc' \in [Savers -> {"idle", "apply", "encode", "write", "rename", "exited"}]
    BY <1>t DEF SaveReturns, AfterPeriodicSave
  <2>2. update' \in [Handlers -> Updates \cup {None}]
    BY <1>t DEF SaveReturns
  <2>3. snapshot' \in [Savers -> Seq(Updates)]
    BY <1>t, EmptyPrefix, Zenon DEF SaveReturns
  <2> QED
    BY <2>1, <2>2, <2>3 DEF CallTypeOK
<1>6. acked' \subseteq received'
  BY <1>r, <1>3 DEF SaveReturns, IInv, TypeOK, Requests, Saving
<1>7. TypeOK'
  <2>1. RunTypeOK'
    BY DEF IInv, TypeOK, RunTypeOK, SaveReturns
  <2>2. drained' => \A h \in Handlers : pc'[h] = "idle"
    BY <1>1, <1>2, <1>3 DEF IInv, TypeOK
  <2> QED
    BY <2>1, <2>2, <1>3, <1>4, <1>5, <1>6, <1>t DEF TypeOK, IInv
<1>8. AllPast'
  <2>1. Running /\ restored => IsPrefix(file', mem)
    BY DEF IInv, AllPast
  <2>2. \A b \in Savers : pc'[b] \in {"write", "rename"} => IsPrefix(snapshot'[b], mem)
    BY <1>1, <1>2 DEF IInv, AllPast, Writing
  <2> QED
    BY <2>1, <2>2, <1>3, <1>4 DEF AllPast, Writing
<1>9. Phases'
  <2>1. CASE a = Main
    <3>1. phase' = "closing" /\ pc'[Main] = "idle" /\ pc'[Periodic] = pc[Periodic]
      BY <2>1, <1>1, <1>2 DEF SaveReturns
    <3> QED
      BY <3>1, <1>r, <1>3 DEF Phases
  <2>2. CASE a # Main
    <3>1. phase' = phase /\ pc'[Main] = pc[Main] /\ phase # "down"
      BY <2>2, <1>1 DEF SaveReturns, Running
    <3>2. mode # "periodic" => a # Periodic
      BY <1>r DEF Phases, Saving
    <3>3. mode # "periodic" => pc'[Periodic] = "idle"
      BY <3>2, <1>1, <1>r DEF Phases
    <3> QED
      BY <3>1, <3>3, <1>3, <1>r DEF Phases
  <2> QED
    BY <2>1, <2>2
<1>10. Requests'
  BY <1>1, <1>2, <1>3, <1>r DEF Requests, SaveReturns, Writing
<1>11. orderly => IsPrefix(file, file') /\ ToSet(file) \subseteq ToSet(file')
  <2>1. CASE ok
    BY <2>1, <1>t, PrefixElements DEF IInv, Order
  <2>2. CASE ~ok
    BY <2>2, <1>t, PrefixReflexive
  <2> QED
    BY <2>1, <2>2
<1>12. Order'
  <2> SUFFICES ASSUME orderly
               PROVE  /\ (Running => restored)'
                      /\ \A b, d \in Savers : Writing(b)' /\ Writing(d)' => b = d
                      /\ \A b \in Savers : Writing(b)' => IsPrefix(file', snapshot'[b])
                      /\ Durable'
    BY DEF Order
  <2>1. (Running => restored)'
    BY <1>3 DEF IInv, Order, Running
  <2>2. \A b \in Savers : Writing(b)' => b # a /\ Writing(b) /\ snapshot'[b] = snapshot[b]
    BY <1>1, <1>2 DEF Writing
  <2>3. \A b, d \in Savers : Writing(b)' /\ Writing(d)' => b = d
    BY <2>2 DEF IInv, Order
  <2>4. \A b \in Savers : Writing(b)' => IsPrefix(file', snapshot'[b])
    <3>1. CASE ok
      BY <3>1, <2>2 DEF IInv, Order
    <3>2. CASE ~ok
      BY <3>2, <2>2 DEF IInv, Order
    <3> QED
      BY <3>1, <3>2
  <2>5. Durable'
    <3>1. \A h \in Handlers \cap {a} : Acknowledges(h, ok) =>
              update[h] \in Batched \/ update[h] \in ToSet(file')
      BY <1>r DEF Acknowledges, Requests
    <3> QED
      BY <1>3, <1>11, <3>1 DEF SaveReturns, IInv, Order, Durable
  <2> QED
    BY <2>1, <2>3, <2>4, <2>5
<1>13. LastSave'
  <2> SUFFICES ASSUME Alone, drained
               PROVE  /\ Writing(Main)' => snapshot'[Main] = mem
                      /\ phase' \in {"closing", "down"} /\ finalSaved' =>
                             /\ file' = mem
                             /\ \A b \in Savers : Writing(b)' => snapshot'[b] = mem
    BY <1>3 DEF LastSave, Alone
  <2>1. a \notin Handlers
    BY DEF IInv, TypeOK, Saving
  <2>2. CASE a = Main
    <3>1. ok => file' = mem /\ \A b \in Savers : b # a => ~Writing(b)
      <4>1. CASE mode # "periodic"
        BY <2>2, <4>1, <1>r DEF IInv, LastSave, TypeOK, Phases, Writing
      <4>2. CASE orderly
        BY <2>2, <4>2 DEF IInv, LastSave, Order
      <4> QED
        BY <4>1, <4>2 DEF Alone
    <3> QED
      BY <2>2, <3>1, <1>1, <1>2 DEF SaveReturns, Writing
  <2>3. CASE a = Periodic
    <3>1. /\ phase' = phase /\ finalSaved' = finalSaved
          /\ \A b \in Savers : Writing(b)' => Writing(b) /\ snapshot'[b] = snapshot[b]
      BY <2>3, <1>1, <1>2 DEF SaveReturns, Writing
    <3> QED
      BY <2>3, <3>1 DEF IInv, LastSave
  <2> QED
    BY <2>1, <2>2, <2>3
<1> QED
  BY <1>7, <1>8, <1>9, <1>10, <1>11, <1>12, <1>13 DEF IInv

LEMMA SaveIInv ==
    ASSUME IInv, NEW a \in Savers, Save(a)
    PROVE  IInv' /\ (orderly' => IsPrefix(file, file'))
<1> USE SaversAssumption DEF Savers
<1>t. /\ pc \in [Savers -> {"idle", "apply", "encode", "write", "rename", "exited"}]
      /\ snapshot \in [Savers -> Seq(Updates)]
      /\ mem \in Seq(Updates) /\ file \in Seq(Updates)
  BY DEF IInv, TypeOK, CallTypeOK, AllPast
<1>1. ASSUME NEW next \in {"write", "rename"}, Running, Saving(a),
             pc' = [pc EXCEPT ![a] = next],
             \/ snapshot' = snapshot /\ Writing(a) /\ orderly' = orderly
             \/ /\ snapshot' = [snapshot EXCEPT ![a] = mem] /\ pc[a] = "encode"
                /\ orderly' = (orderly /\ \A b \in Savers : ~Writing(b)),
             UNCHANGED <<mode, runVars, mem, file, update, ackVars>>
      PROVE  IInv' /\ (orderly' => IsPrefix(file, file'))
  <2>1. \A b \in Savers : b # a => pc'[b] = pc[b] /\ snapshot'[b] = snapshot[b]
    BY <1>1, <1>t
  <2>2. pc'[a] = next /\ (a # Periodic \/ mode = "periodic")
    BY <1>1, <1>t DEF IInv, Phases, Saving
  <2>3. /\ IsPrefix(snapshot'[a], mem)
        /\ a \in Handlers => update[a] \in ToSet(snapshot'[a])
        /\ (Writing(a) /\ snapshot'[a] = snapshot[a]) \/ snapshot'[a] = mem
    <3>1. CASE snapshot' = snapshot /\ Writing(a)
      BY <3>1 DEF IInv, AllPast, Requests
    <3>2. CASE snapshot' = [snapshot EXCEPT ![a] = mem] /\ pc[a] = "encode"
      <4>1. snapshot'[a] = mem
        BY <3>2, <1>t
      <4> QED
        BY <3>2, <4>1, <1>t, PrefixReflexive DEF IInv, Requests
    <3> QED
      BY <1>1, <3>1, <3>2
  <2>4. a \notin Handlers \/ ~drained
    BY <1>1 DEF IInv, TypeOK, Saving
  <2>5. TypeOK'
    <3>1. CallTypeOK'
      BY <1>1, <1>t DEF IInv, TypeOK, CallTypeOK
    <3>2. RunTypeOK'
      BY <1>1 DEF IInv, TypeOK, RunTypeOK, runVars
    <3>3. orderly' \in BOOLEAN
      BY <1>1, Zenon DEF IInv, TypeOK
    <3> QED
      BY <3>1, <3>2, <3>3, <1>1, <2>1, <2>4 DEF IInv, TypeOK, runVars, ackVars
  <2>6. AllPast'
    BY <1>1, <1>t, <2>1, <2>3 DEF IInv, AllPast, Running, Writing, runVars
  <2>7. Phases'
    BY <1>1, <1>t DEF IInv, Phases, Saving, Running, runVars, AllIdle
  <2>8. Requests'
    BY <1>1, <2>1, <2>2, <2>3 DEF IInv, Requests, Saving, Writing, ackVars
  <2>9. Order'
    <3> SUFFICES ASSUME orderly'
                 PROVE  /\ (Running => restored)'
                        /\ \A b, d \in Savers : Writing(b)' /\ Writing(d)' => b = d
                        /\ \A b \in Savers : Writing(b)' => IsPrefix(file', snapshot'[b])
                        /\ Durable'
      BY DEF Order
    <3>1. orderly /\ \A b \in Savers : Writing(b) => b = a
      BY <1>1 DEF IInv, Order, Writing
    <3>2. (Running => restored)' /\ Durable'
      BY <1>1, <3>1 DEF IInv, Order, Durable, Running, runVars, ackVars
    <3>3. \A b \in Savers : Writing(b)' => b = a
      BY <2>1, <3>1 DEF Writing
    <3>4. IsPrefix(file, mem)
      BY <1>1, <3>1 DEF IInv, Order, AllPast
    <3>5. IsPrefix(file', snapshot'[a])
      BY <1>1, <2>3, <3>1, <3>4 DEF IInv, Order
    <3> QED
      BY <3>2, <3>3, <3>5
  <2>10. LastSave'
    <3> SUFFICES ASSUME Alone', drained
                 PROVE  /\ Writing(Main)' => snapshot'[Main] = mem
                        /\ phase \in {"closing", "down"} /\ finalSaved =>
                               /\ file = mem
                               /\ \A b \in Savers : Writing(b)' => snapshot'[b] = mem
      BY <1>1 DEF LastSave, runVars
    <3>1. Alone
      <4>1. orderly' => orderly
        BY <1>1
      <4> QED
        BY <1>1, <4>1 DEF Alone
    <3>2. \A b \in Savers : Writing(b)' /\ b # a => Writing(b) /\ snapshot'[b] = snapshot[b]
      BY <2>1 DEF Writing
    <3> QED
      BY <2>3, <3>1, <3>2 DEF IInv, LastSave
  <2>11. IsPrefix(file, file')
    BY <1>1, <1>t, PrefixReflexive
  <2> QED
    BY <2>5, <2>6, <2>7, <2>8, <2>9, <2>10, <2>11 DEF IInv
<1>2. CASE Encode(a)
  BY <1>1, <1>2, SaveReturnsIInv DEF Encode, Saving
<1>3. CASE WriteTemp(a)
  BY <1>1, <1>3, SaveReturnsIInv DEF WriteTemp, Saving, Writing, FileWhileWriting
<1>4. CASE Rename(a)
  BY <1>4, SaveReturnsIInv DEF Rename, Saving, Writing
<1> QED
  BY <1>2, <1>3, <1>4 DEF Save

-----------------------------------------------------------------------------
LEMMA NextIInv == IInv /\ [Next]_vars => IInv' /\ (orderly' => IsPrefix(file, file'))
<1> SUFFICES ASSUME IInv, [Next]_vars PROVE IInv' /\ (orderly' => IsPrefix(file, file'))
  OBVIOUS
<1> USE SaversAssumption DEF Savers
<1>t. /\ pc \in [Savers -> {"idle", "apply", "encode", "write", "rename", "exited"}]
      /\ snapshot \in [Savers -> Seq(Updates)]
      /\ update \in [Handlers -> Updates \cup {None}]
      /\ mem \in Seq(Updates) /\ file \in Seq(Updates)
      /\ received \subseteq Updates /\ acked \subseteq received
  BY DEF IInv, TypeOK, CallTypeOK, AllPast
<1>e. <<>> \in Seq(Updates)
  BY EmptyPrefix
<1>f. IsPrefix(file, file)
  BY <1>t, PrefixReflexive
<1>1. ASSUME Start PROVE IInv' /\ file' = file
  <2>1. mem' \in Seq(Updates) /\ (restored' => mem' = file)
    BY <1>1, <1>t, <1>e DEF Start, Loaded
  <2>2. /\ phase' = "serving" /\ starts' = starts + 1 /\ drained' = FALSE /\ finalSaved' = FALSE
        /\ UNCHANGED <<mode, file, callVars, ackVars>>
    BY <1>1, Zenon DEF Start
  <2>3. restored' \in BOOLEAN /\ orderly' \in BOOLEAN /\ (orderly' => orderly /\ restored')
    <3>1. PICK readable \in {TRUE, ~ReadFails} :
              restored' = ((Restore /\ readable /\ file # Torn) \/ file = <<>>)
      BY <1>1, Zenon DEF Start
    <3>2. orderly' = (orderly /\ restored')
      BY <1>1, Zenon DEF Start
    <3> QED
      BY <3>1, <3>2, Zenon
  <2>4. RunTypeOK'
    <3>1. starts' \in Nat
      BY <2>2 DEF IInv, TypeOK, RunTypeOK
    <3> QED
      BY <2>2, <2>3, <3>1, Zenon DEF RunTypeOK
  <2>5. \A a \in Savers : pc'[a] = "idle"
    BY <1>1, <2>2 DEF Start, callVars, IInv, Phases, AllIdle
  <2>6. TypeOK'
    BY <2>1, <2>2, <2>3, <2>4 DEF IInv, TypeOK, CallTypeOK, callVars, ackVars
  <2>7. AllPast'
    <3>1. restored' => IsPrefix(file', mem')
      BY <2>1, <2>2, <1>f
    <3> QED
      BY <1>t, <2>2, <2>5, <3>1 DEF AllPast, Writing
  <2>8. Phases' /\ Requests' /\ LastSave'
    BY <2>2, <2>5, <1>1 DEF Start, callVars, ackVars, IInv, Phases, Requests, LastSave, Writing, AllIdle
  <2>9. Order'
    BY <2>2, <2>3, <2>5 DEF ackVars, IInv, Order, Durable, Writing
  <2> QED
    BY <2>2, <2>6, <2>7, <2>8, <2>9 DEF IInv
<1>2. ASSUME Crash \/ Exit PROVE IInv' /\ file' = file
  <2>1. /\ pc' = AllIdle /\ phase' = "down"
        /\ UNCHANGED <<mode, starts, file, ackVars, orderly>>
        /\ mem' \in Seq(Updates)
    BY <1>2, <1>t, <1>e DEF Crash, Exit, Vanish
  <2>2. CallTypeOK'
    BY <1>2, <1>e, Zenon DEF Crash, Exit, Vanish, CallTypeOK, AllIdle
  <2>3. RunTypeOK'
    BY <1>2 DEF Crash, Exit, IInv, TypeOK, RunTypeOK
  <2>4. TypeOK'
    BY <1>t, <2>1, <2>2, <2>3 DEF IInv, TypeOK, ackVars, AllIdle
  <2>5. AllPast'
    BY <1>t, <2>1 DEF AllPast, Running, Writing, AllIdle
  <2>6. Phases' /\ Requests'
    <3>1. drained' => phase' = "down"
      BY <2>1
    <3> QED
      BY <2>1, <3>1 DEF Phases, Requests, Writing, AllIdle
  <2>7. Order'
    BY <2>1 DEF IInv, Order, Durable, Running, Writing, AllIdle, ackVars
  <2>8. LastSave'
    BY <1>2, <2>1 DEF Crash, Exit, IInv, LastSave, Alone, Writing, AllIdle
  <2> QED
    BY <2>1, <2>4, <2>5, <2>6, <2>7, <2>8 DEF IInv
<1>4. ASSUME NEW h \in Handlers, NEW u \in Updates, Receive(h, u) PROVE IInv' /\ file' = file
  <2>1. pc' = [pc EXCEPT ![h] = "apply"] /\ update' = [update EXCEPT ![h] = u]
    BY <1>4 DEF Receive
  <2>2. phase \in {"serving", "draining"} /\ ~drained
    BY <1>4 DEF Receive, IInv, Phases
  <2>3. CallTypeOK'
    BY <1>4, <1>t, <2>1 DEF Receive, CallTypeOK
  <2>4. TypeOK'
    BY <1>4, <1>t, <2>2, <2>3 DEF Receive, IInv, TypeOK, RunTypeOK, runVars
  <2>5. AllPast'
    BY <1>4, <1>t, <2>1 DEF Receive, IInv, AllPast, Running, Writing, runVars
  <2>6. Phases' /\ LastSave'
    BY <1>4, <1>t, <2>1, <2>2 DEF Receive, IInv, Phases, LastSave, Running, runVars
  <2>7. Requests'
    BY <1>4, <1>t, <2>1 DEF Receive, IInv, Requests, Writing
  <2>8. Order'
    BY <1>4, <1>t, <2>1 DEF Receive, IInv, Order, Durable, Running, Writing, runVars
  <2> QED
    BY <1>4, <2>4, <2>5, <2>6, <2>7, <2>8 DEF IInv, Receive
<1>5. ASSUME NEW h \in Handlers, Apply(h) PROVE IInv' /\ file' = file
  <2>1. /\ \A a \in Savers : a # h => pc'[a] = pc[a]
        /\ pc'[h] \in {"encode", "idle"}
        /\ pc' \in [Savers -> {"idle", "apply", "encode", "write", "rename", "exited"}]
        /\ \A g \in Handlers : pc'[g] # "idle" => update'[g] = update[g]
        /\ UNCHANGED <<mode, runVars, file, snapshot, received, orderly>>
    BY <1>5, <1>t DEF Apply
  <2>2. ~drained /\ update[h] \in received /\ pc[h] = "apply" /\ Running
    BY <1>5 DEF Apply, IInv, TypeOK, Requests
  <2>3. /\ mem' \in Seq(Updates)
        /\ ToSet(mem') = ToSet(mem) \cup {update[h]}
        /\ \A s \in Seq(Updates) : IsPrefix(s, mem) => IsPrefix(s, mem')
    <3>1. mem' = Append(mem, update[h]) /\ update[h] \in Updates
      BY <1>5, <1>t, <2>2 DEF Apply
    <3> QED
      BY <3>1, <1>t, AppendElements, PrefixOfAppend, Zenon
  <2>4. CallTypeOK' /\ acked' \subseteq received /\ (mode = "sync" => acked' = acked)
    BY <1>5, <1>t, <2>1, <2>2 DEF Apply, CallTypeOK
  <2>5. TypeOK'
    BY <1>t, <2>1, <2>2, <2>3, <2>4 DEF IInv, TypeOK, RunTypeOK, runVars
  <2>6. AllPast'
    BY <1>t, <2>1, <2>3 DEF IInv, AllPast, Running, Writing, runVars
  <2>7. Phases' /\ LastSave'
    BY <1>t, <2>1, <2>2 DEF IInv, Phases, LastSave, Running, runVars
  <2>8. Requests'
    BY <2>1, <2>2, <2>3 DEF IInv, Requests, Writing
  <2>9. Order'
    BY <2>1, <2>4 DEF IInv, Order, Durable, Running, Writing, runVars
  <2> QED
    BY <2>1, <2>5, <2>6, <2>7, <2>8, <2>9 DEF IInv
<1>6. ASSUME Tick \/ SaverExit PROVE IInv' /\ file' = file
  <2>1. /\ \A a \in Savers : a # Periodic => pc'[a] = pc[a]
        /\ pc'[Periodic] \in {"encode", "exited"}
        /\ pc' \in [Savers -> {"idle", "apply", "encode", "write", "rename", "exited"}]
        /\ mode = "periodic" /\ Running
        /\ UNCHANGED <<mode, runVars, mem, file, update, snapshot, ackVars, orderly>>
    BY <1>6, <1>t DEF Tick, SaverExit, Running
  <2>2. TypeOK'
    BY <1>t, <2>1 DEF IInv, TypeOK, RunTypeOK, CallTypeOK, runVars, ackVars
  <2>3. AllPast'
    BY <1>t, <2>1 DEF IInv, AllPast, Running, Writing, runVars
  <2>4. Phases' /\ Requests'
    BY <2>1 DEF IInv, Phases, Requests, Writing, Running, runVars, ackVars
  <2>5. Order'
    BY <2>1 DEF IInv, Order, Durable, Writing, Running, runVars, ackVars
  <2>6. LastSave'
    BY <2>1 DEF IInv, LastSave, Alone, Writing, runVars
  <2> QED
    BY <2>1, <2>2, <2>3, <2>4, <2>5, <2>6 DEF IInv
<1>7. ASSUME Signal PROVE IInv' /\ file' = file
  <2>1. TypeOK'
    BY <1>7 DEF Signal, IInv, TypeOK, RunTypeOK, CallTypeOK, callVars, ackVars
  <2>2. AllPast'
    BY <1>7 DEF Signal, IInv, AllPast, Running, Writing, callVars
  <2>3. Phases' /\ Requests' /\ LastSave'
    BY <1>7 DEF Signal, IInv, Phases, Requests, LastSave, Writing, callVars, ackVars
  <2>4. Order'
    BY <1>7 DEF Signal, IInv, Order, Durable, Running, Writing, callVars, ackVars
  <2> QED
    BY <1>7, <2>1, <2>2, <2>3, <2>4 DEF IInv, Signal
<1>8. ASSUME Drained \/ DrainExpired PROVE IInv' /\ file' = file
  <2>1. /\ phase = "draining" /\ phase' = "saving"
        /\ \A a \in Savers : a # Main => pc'[a] = pc[a]
        /\ pc'[Main] = "encode"
        /\ pc' \in [Savers -> {"idle", "apply", "encode", "write", "rename", "exited"}]
        /\ drained' => \A h \in Handlers : pc[h] = "idle"
        /\ drained' \in BOOLEAN
        /\ UNCHANGED <<mode, starts, restored, finalSaved, mem, file, update, snapshot, ackVars,
                       orderly>>
    BY <1>8, <1>t DEF Drained, DrainExpired, AllAnswered
  <2>2. TypeOK'
    BY <1>t, <2>1 DEF IInv, TypeOK, RunTypeOK, CallTypeOK, ackVars
  <2>3. AllPast'
    BY <1>t, <2>1 DEF IInv, AllPast, Running, Writing
  <2>4. Phases' /\ Requests' /\ LastSave'
    BY <1>t, <2>1 DEF IInv, Phases, Requests, LastSave, Writing, ackVars
  <2>5. Order'
    BY <2>1 DEF IInv, Order, Durable, Running, Writing, ackVars
  <2> QED
    BY <2>1, <2>2, <2>3, <2>4, <2>5 DEF IInv
<1>9. ASSUME UNCHANGED vars PROVE IInv' /\ file' = file
  BY <1>9 DEF vars, runVars, callVars, ackVars, IInv, TypeOK, RunTypeOK, CallTypeOK, AllPast,
              Running, Writing, Phases, Requests, Order, Durable, LastSave, Alone
<1> QED
  BY <1>1, <1>2, <1>4, <1>5, <1>6, <1>7, <1>8, <1>9, <1>f, SaveIInv DEF Next, MainStep

\* The invariant holds in every reachable state.
THEOREM Invariance == SafeSpec => []IInv
  BY InitIInv, NextIInv, PTL DEF SafeSpec

\* The types of FileStore.
THEOREM TypeCorrect == SafeSpec => []TypeOK
<1>1. IInv => TypeOK
  BY DEF IInv
<1> QED
  BY <1>1, Invariance, PTL

\* Whatever fails, whoever saves and whenever the process dies, the file is a
\* document Load reads: Save only ever renames a complete one
\* (file/storage.go:45-63).
THEOREM FileAlwaysWhole == SafeSpec => []FileWhole
<1>1. IInv => FileWhole
  BY UpdatesAssumption DEF IInv, AllPast, FileWhole
<1> QED
  BY <1>1, Invariance, PTL

\* The file is a past state of the memory, for any number of concurrent
\* Saves, however their renames are ordered (file/storage.go:17-64).
THEOREM FileAlwaysPast == SafeSpec => []FileIsPast
<1>1. IInv => FileIsPast
  BY UpdatesAssumption DEF IInv, AllPast, FileWhole, FileIsPast
<1> QED
  BY <1>1, Invariance, PTL

\* A shutdown that saw every request end and whose last Save worked leaves
\* all of the memory in the file, unless the periodic saver was in the middle
\* of a Save (cmd/server/main.go:120-129).
THEOREM FinalSaveIsComplete == SafeSpec => []FinalSaveComplete
<1>1. IInv => FinalSaveComplete
  BY DEF IInv, LastSave, Alone, FinalSaveComplete
<1> QED
  BY <1>1, Invariance, PTL

\* With StoreInterval = 0, an update answered without an error is on disk from
\* then on, through failing writes, crashes and restarts, while no Save
\* begins under another and every start reads the file
\* (file/storage.go:98-124).
THEOREM OrderlyDurability == SafeSpec => []SyncDurableSingles
<1>1. IInv => SyncDurableSingles
  BY DEF IInv, Order, Durable, SyncDurableSingles
<1> QED
  BY <1>1, Invariance, PTL

\* Under the same condition no step takes the file back to an earlier state.
THEOREM OrderlyNeverBackwards == SafeSpec => NeverBackwards
<1>1. IInv /\ [Next]_vars => [orderly' => IsPrefix(file, file')]_vars
  BY NextIInv
<1> QED
  BY <1>1, Invariance, PTL DEF SafeSpec, NeverBackwards

=============================================================================
