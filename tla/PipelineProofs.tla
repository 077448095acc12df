---------------------------- MODULE PipelineProofs ----------------------------
(***************************************************************************)
(* Safety of the layers around the handlers, for any number of requests at *)
(* a time, any requests and reports, and any keys.                         *)
(*                                                                         *)
(* The invariant says of the pools that an object is used by one request   *)
(* only (Pooled), and of each request (Mine) which objects it uses at its  *)
(* layer and that what they hold is its own, how far its answer is, and    *)
(* what the layers behind it have made sure of.  A step of one request     *)
(* leaves the objects of the others alone: that is all the others need.    *)
(***************************************************************************)
EXTENDS Pipeline, TLAPS

-----------------------------------------------------------------------------
\* The invariant.

Layers == {"idle", "gunzip", "hash", "handler", "signing", "closing", "done"}

Typed ==
    /\ reached \in [Clients -> Layers]
    /\ held \in [Clients -> [Kinds -> Objects \cup {None}]]
    /\ free \in [Kinds -> [Objects -> Nat]]
    /\ made \in [Kinds -> Nat]
    /\ content \in [Kinds -> [Objects -> Seq(Clients)]]
    /\ target \in [Objects -> Clients \cup {None}]
    /\ sent \in [Clients -> Seq(Clients)]
    /\ refused \in [Clients -> BOOLEAN]
    /\ DOMAIN req = Clients /\ DOMAIN body = Clients /\ DOMAIN given = Clients
    /\ DOMAIN reply = Clients /\ DOMAIN answer = Clients

\* An object is used by one request, or is in its pool once, or has yet to be made.
Pooled ==
    \A k \in Kinds :
        /\ \A c, d \in Clients : held[c][k] # None /\ held[c][k] = held[d][k] => c = d
        /\ \A c \in Clients : held[c][k] # None =>
               free[k][held[c][k]] = 0 /\ held[c][k] <= made[k]
        /\ \A o \in Objects : free[k][o] <= 1 /\ (free[k][o] = 1 => o <= made[k])

\* Which objects a request uses at each layer.
Holding(c) ==
    /\ reached[c] \in {"idle", "gunzip", "done"} => held[c]["reader"] = None
    /\ reached[c] \in {"idle", "gunzip", "hash", "done"} => held[c]["buffer"] = None
    /\ reached[c] # "closing" => held[c]["writer"] = None
    /\ reached[c] \in {"handler", "signing"} =>
           (held[c]["buffer"] # None <=> key # NoKey /\ req[c].via = "http")
    /\ reached[c] = "signing" => held[c]["buffer"] # None

\* What is in them is its own.
Contents(c) ==
    /\ held[c]["reader"] # None => content["reader"][held[c]["reader"]] = <<c>>
    /\ reached[c] = "handler" /\ held[c]["buffer"] # None =>
           content["buffer"][held[c]["buffer"]] = <<>>
    /\ reached[c] = "signing" => content["buffer"][held[c]["buffer"]] = Text(c, reply[c])
    /\ held[c]["writer"] # None =>
           /\ target[held[c]["writer"]] = c
           /\ content["writer"][held[c]["writer"]] = Text(c, reply[c])

\* How far the answer is.
Answering(c) ==
    /\ reached[c] \notin {"closing", "done"} => sent[c] = <<>> /\ answer[c] = NoAnswer /\ ~refused[c]
    /\ reached[c] \in {"closing", "done"} =>
           /\ sent[c] = IF held[c]["writer"] = None THEN Text(c, reply[c]) ELSE <<>>
           /\ answer[c].status = reply[c].status
           /\ answer[c].compressed => req[c].accepts
           /\ answer[c].signature =
                  IF key # NoKey /\ req[c].via = "http" /\ ~refused[c] /\ reply[c].body
                  THEN <<key, <<c>>>> ELSE NoSignature

OverHttpOrGrpc(r) == r.via = "http" \/ (r.via = "grpc" /\ r.signature = NoSignature)

\* What the layers have made sure of.
Admitted(c) ==
    reached[c] # "idle" /\ ~refused[c] =>
        /\ Trusted(req[c])
        /\ OverHttpOrGrpc(req[c])
        /\ req[c].via = "http" /\ Opens(req[c]) => ~req[c].cut
        /\ reached[c] \in {"gunzip", "hash"} => req[c].via = "http"
        /\ reached[c] \notin {"gunzip", "hash"} /\ key # NoKey /\ req[c].signature # NoSignature =>
               req[c].signature = <<key, req[c].doc>> /\ ~req[c].cut

\* What the handler was given.
Given(c) ==
    /\ reached[c] \notin {"signing", "closing", "done"} \/ refused[c] => given[c] = {}
    /\ given[c] \subseteq {req[c].doc}

\* A report of an agent that fits.
Fitting(c) ==
    reached[c] # "idle" /\ Fits(req[c]) =>
        /\ ~refused[c]
        /\ reached[c] = "gunzip" => body[c] = <<"gzip">>
        /\ reached[c] # "gunzip" => body[c] = <<>>
        /\ reached[c] \in {"signing", "closing", "done"} => given[c] = {req[c].doc}

Mine(c) == Holding(c) /\ Contents(c) /\ Answering(c) /\ Admitted(c) /\ Given(c) /\ Fitting(c)

Inv == Typed /\ Pooled /\ \A c \in Clients : Mine(c)

-----------------------------------------------------------------------------
\* Facts about requests.

LEMMA ObjectsAreNumbers == Objects \subseteq Int /\ None \notin Objects /\ None \notin Reports
  BY ObjectsAssumption, NoneAssumption

LEMMA KindsThere == Kinds = {"reader", "writer", "buffer"}
  BY DEF Kinds

\* What fits is not stopped by any layer.
LEMMA WhatFits ==
    ASSUME NEW r, Fits(r)
    PROVE  /\ r.via = "http" /\ r.gzip = TRUE /\ r.cut = FALSE /\ r.doc \in Reports /\ Trusted(r)
           /\ Opens(r) => Decrypts(r)
           /\ AfterDecryption(r) = <<"gzip">>
           /\ key # NoKey /\ r.signature # NoSignature => r.signature = <<key, r.doc>>
<1>1. PICK doc \in Reports,
           k \in IF key = NoKey THEN Keys \cup {NoKey} ELSE {key, NoKey},
           public \in IF private THEN {None, "ours"} ELSE {None} :
               r = Sent(doc, k, public, "trusted", FALSE)
  BY DEF Fits
<1>2. /\ r.via = "http" /\ r.gzip = TRUE /\ r.cut = FALSE /\ r.doc = doc /\ r.ip = "trusted"
      /\ r.wrappings = Wrap(public) /\ r.marked = (public # None)
      /\ r.signature = IF k = NoKey THEN NoSignature ELSE <<k, doc>>
  BY <1>1 DEF Sent
<1>3. public # None => public = "ours"
  BY <1>1
<1>4. (Opens(r) => Decrypts(r)) /\ AfterDecryption(r) = <<"gzip">>
  <2>1. CASE public = None
    BY <1>2, <2>1 DEF Opens, AfterDecryption, Wrap
  <2>2. CASE public # None
    <3>1. r.wrappings = <<"ours", "gzip">> /\ r.marked
      BY <1>2, <1>3, <2>2 DEF Wrap
    <3>2. Decrypts(r) /\ Tail(r.wrappings) = <<"gzip">>
      BY <3>1 DEF Decrypts
    <3>3. private
      BY <1>1, <2>2
    <3> QED
      BY <3>1, <3>2, <3>3 DEF Opens, AfterDecryption
  <2> QED
    BY <2>1, <2>2
<1> QED
  BY <1>1, <1>2, <1>4 DEF Trusted

LEMMA HttpOrGrpc == ASSUME NEW r \in FromAgents \cup Requests PROVE OverHttpOrGrpc(r)
<1>1. CASE r \in Requests
  BY <1>1, RequestsAssumption DEF OverHttpOrGrpc, NoSignature
<1>2. CASE r \in FromAgents
  BY <1>2 DEF OverHttpOrGrpc, FromAgents, Sent
<1> QED
  BY <1>1, <1>2

\* What depends on the settings and the request only.
LEMMA SettingsStay ==
    ASSUME UNCHANGED config, NEW c, NEW r, req'[c] = r
    PROVE  /\ Fits(req[c])' <=> Fits(r)
           /\ Trusted(req[c])' <=> Trusted(r)
           /\ Opens(req[c])' <=> Opens(r)
           /\ OverHttpOrGrpc(req[c])' <=> OverHttpOrGrpc(r)
  BY DEF config, Fits, Trusted, Opens, OverHttpOrGrpc

-----------------------------------------------------------------------------
\* What a step of one request leaves to the others.

LEMMA OthersKeep ==
    ASSUME Inv, UNCHANGED config, NEW d \in Clients,
           reached'[d] = reached[d], req'[d] = req[d], body'[d] = body[d], held'[d] = held[d],
           given'[d] = given[d], refused'[d] = refused[d], reply'[d] = reply[d],
           answer'[d] = answer[d], sent'[d] = sent[d],
           \A k \in Kinds : held[d][k] # None => content'[k][held[d][k]] = content[k][held[d][k]],
           held[d]["writer"] # None => target'[held[d]["writer"]] = target[held[d]["writer"]]
    PROVE  Mine(d)'
<1>1. Mine(d) /\ key' = key
  BY DEF Inv, config
<1>2. /\ Fits(req[d])' <=> Fits(req[d])
      /\ Trusted(req[d])' <=> Trusted(req[d])
      /\ Opens(req[d])' <=> Opens(req[d])
      /\ OverHttpOrGrpc(req[d])' <=> OverHttpOrGrpc(req[d])
  BY DEF config, Fits, Trusted, Opens, OverHttpOrGrpc
<1>3. Holding(d)'
  BY <1>1 DEF Mine, Holding
<1>4. Contents(d)'
  BY <1>1, KindsThere DEF Mine, Holding, Contents, Text
<1>5. Answering(d)'
  BY <1>1 DEF Mine, Answering, Text
<1>6. Admitted(d)'
  BY <1>1, <1>2 DEF Mine, Admitted
<1>7. Given(d)' /\ Fitting(d)'
  BY <1>1, <1>2 DEF Mine, Given, Fitting
<1> QED
  BY <1>3, <1>4, <1>5, <1>6, <1>7 DEF Mine

\* A pool gives an object that no request uses.
LEMMA GetEffect ==
    ASSUME Typed, Pooled, NEW c \in Clients, NEW k \in Kinds, NEW o \in Objects,
           held[c][k] = None, Get(c, k, o)
    PROVE  /\ held' \in [Clients -> [Kinds -> Objects \cup {None}]]
           /\ free' \in [Kinds -> [Objects -> Nat]] /\ made' \in [Kinds -> Nat]
           /\ \A d \in Clients, j \in Kinds :
                  held'[d][j] = IF d = c /\ j = k THEN o ELSE held[d][j]
           /\ \A d \in Clients : d # c => held'[d] = held[d]
           /\ \A d \in Clients : held[d][k] # o
           /\ Pooled'
<1>1. /\ held' \in [Clients -> [Kinds -> Objects \cup {None}]]
      /\ \A d \in Clients, j \in Kinds :
             held'[d][j] = IF d = c /\ j = k THEN o ELSE held[d][j]
      /\ \A d \in Clients : d # c => held'[d] = held[d]
  BY DEF Typed, Get
<1>2. o \in Int /\ o # None /\ made[k] \in Nat
  BY ObjectsAreNumbers DEF Typed
<1>3. CASE free[k][o] > 0 /\ free' = [free EXCEPT ![k][o] = @ - 1] /\ UNCHANGED made
  <2>1. free[k][o] = 1 /\ o <= made[k]
    BY <1>3 DEF Typed, Pooled
  <2>2. /\ free' \in [Kinds -> [Objects -> Nat]]
        /\ \A j \in Kinds, p \in Objects :
               free'[j][p] = IF j = k /\ p = o THEN 0 ELSE free[j][p]
    BY <1>3, <2>1 DEF Typed
  <2>3. \A d \in Clients : held[d][k] # o
    BY <1>2, <2>1 DEF Pooled
  <2>4. Pooled'
    <3> SUFFICES ASSUME NEW j \in Kinds
                 PROVE  /\ \A d, e \in Clients : held'[d][j] # None /\ held'[d][j] = held'[e][j] => d = e
                        /\ \A d \in Clients : held'[d][j] # None =>
                               free'[j][held'[d][j]] = 0 /\ held'[d][j] <= made'[j]
                        /\ \A p \in Objects : free'[j][p] <= 1 /\ (free'[j][p] = 1 => p <= made'[j])
      BY DEF Pooled
    <3>1. CASE j # k
      <4>1. \A d \in Clients : held'[d][j] = held[d][j]
        BY <1>1, <3>1
      <4>2. made' = made /\ \A p \in Objects : free'[j][p] = free[j][p]
        BY <1>3, <2>2, <3>1
      <4>3. \A d \in Clients : held[d][j] # None => held[d][j] \in Objects
        BY DEF Typed
      <4> QED
        BY <4>1, <4>2, <4>3 DEF Pooled
    <3>2. CASE j = k
      <4>1. \A d \in Clients : held'[d][k] = IF d = c THEN o ELSE held[d][k]
        BY <1>1
      <4>2. \A d \in Clients : held[d][k] # None =>
                held[d][k] \in Objects /\ free[k][held[d][k]] = 0 /\ held[d][k] <= made[k]
        BY DEF Pooled, Typed
      <4>3. \A d, e \in Clients : held'[d][k] # None /\ held'[d][k] = held'[e][k] => d = e
        BY <4>1, <2>3 DEF Pooled
      <4>4. \A d \in Clients : held'[d][k] # None =>
                free'[k][held'[d][k]] = 0 /\ held'[d][k] <= made'[k]
        BY <4>1, <4>2, <1>1, <1>2, <1>3, <2>1, <2>2, <2>3
      <4>5. \A p \in Objects : free'[k][p] <= 1 /\ (free'[k][p] = 1 => p <= made'[k])
        BY <1>1, <1>2, <1>3, <2>1, <2>2, <2>3 DEF Pooled
      <4> QED
        BY <3>2, <4>3, <4>4, <4>5
    <3> QED
      BY <3>1, <3>2
  <2> QED
    BY <1>1, <1>3, <2>2, <2>3, <2>4 DEF Typed
<1>4. CASE o = made[k] + 1 /\ made' = [made EXCEPT ![k] = o] /\ UNCHANGED free
  <2>1. \A d \in Clients : held[d][k] # o
    BY <1>2, <1>4 DEF Pooled
  <2>2. free[k][o] = 0
    BY <1>2, <1>4 DEF Pooled, Typed
  <2>3. /\ made' \in [Kinds -> Nat]
        /\ \A j \in Kinds : made'[j] = IF j = k THEN made[k] + 1 ELSE made[j]
    BY <1>4 DEF Typed
  <2>4. \A j \in Kinds : made[j] \in Nat /\ made'[j] \in Nat /\ made[j] <= made'[j]
    <3>1. \A j \in Kinds : made[j] \in Nat
      BY DEF Typed
    <3> QED
      BY <2>3, <3>1
  <2>5. \A p \in Objects : p \in Int
    BY ObjectsAreNumbers
  <2>6. Pooled'
    <3> SUFFICES ASSUME NEW j \in Kinds
                 PROVE  /\ \A d, e \in Clients : held'[d][j] # None /\ held'[d][j] = held'[e][j] => d = e
                        /\ \A d \in Clients : held'[d][j] # None =>
                               free'[j][held'[d][j]] = 0 /\ held'[d][j] <= made'[j]
                        /\ \A p \in Objects : free'[j][p] <= 1 /\ (free'[j][p] = 1 => p <= made'[j])
      BY DEF Pooled
    <3>1. CASE j # k
      BY <1>1, <1>2, <1>4, <2>1, <2>2, <2>3, <2>4, <2>5, <3>1 DEF Pooled
    <3>2. CASE j = k
      <4>1. \A d \in Clients : held'[d][k] = IF d = c THEN o ELSE held[d][k]
        BY <1>1
      <4>2. \A d \in Clients : held[d][k] # None =>
                held[d][k] \in Objects /\ free[k][held[d][k]] = 0 /\ held[d][k] <= made[k]
        BY DEF Pooled, Typed
      <4>3. \A d, e \in Clients : held'[d][k] # None /\ held'[d][k] = held'[e][k] => d = e
        BY <4>1, <2>1 DEF Pooled
      <4>4. \A d \in Clients : held'[d][k] # None =>
                free'[k][held'[d][k]] = 0 /\ held'[d][k] <= made'[k]
        <5>1. made'[k] = made[k] + 1 /\ made[k] \in Nat /\ free' = free /\ o = made[k] + 1
          BY <1>2, <1>4, <2>3
        <5>2. free'[k][o] = 0 /\ o <= made'[k]
          BY <2>2, <5>1
        <5>3. ASSUME NEW d \in Clients, held[d][k] # None
              PROVE  free'[k][held[d][k]] = 0 /\ held[d][k] <= made'[k]
          <6> DEFINE p == held[d][k]
          <6>1. p \in Int /\ free[k][p] = 0 /\ p <= made[k]
            BY <4>2, <2>5, <5>3
          <6> HIDE DEF p
          <6>2. p <= made'[k]
            BY <5>1, <6>1
          <6> QED
            BY <5>1, <6>1, <6>2 DEF p
        <5> QED
          BY <4>1, <5>2, <5>3
      <4>5. \A p \in Objects : free'[k][p] <= 1 /\ (free'[k][p] = 1 => p <= made'[k])
        BY <1>1, <1>2, <1>4, <2>1, <2>2, <2>3, <2>4, <2>5 DEF Pooled
      <4> QED
        BY <3>2, <4>3, <4>4, <4>5
    <3> QED
      BY <3>1, <3>2
  <2> QED
    BY <1>1, <1>4, <2>1, <2>3, <2>6 DEF Typed
<1> QED
  BY <1>3, <1>4 DEF Get

-----------------------------------------------------------------------------
\* The steps.

\* A layer that refuses: its answer is whole, and no report that fits is concerned.
LEMMA RefuseInv ==
    ASSUME Inv, UNCHANGED <<config, pools>>, NEW c \in Clients, NEW status, Refuse(c, status),
           reached[c] \in {"idle", "gunzip", "hash"}, ~Fits(req[c])',
           DOMAIN req' = Clients, DOMAIN body' = Clients,
           \A d \in Clients : d # c => req'[d] = req[d] /\ body'[d] = body[d]
    PROVE  Inv'
<1> USE DEF Inv
<1>1. /\ reached' \in [Clients -> Layers] /\ refused' \in [Clients -> BOOLEAN]
      /\ sent' \in [Clients -> Seq(Clients)]
      /\ DOMAIN reply' = Clients /\ DOMAIN answer' = Clients /\ given' = given
  <2>1. <<c>> \in Seq(Clients)
    OBVIOUS
  <2> QED
    BY <2>1 DEF Refuse, Typed, Layers
<1>2. \A d \in Clients : d # c => /\ reached'[d] = reached[d] /\ refused'[d] = refused[d]
                                  /\ reply'[d] = reply[d] /\ answer'[d] = answer[d]
                                  /\ sent'[d] = sent[d]
  BY DEF Refuse, Typed
<1>3. /\ reached'[c] = "closing" /\ refused'[c] = TRUE /\ sent'[c] = <<c>>
      /\ reply'[c] = Error(status) /\ answer'[c] = [NoAnswer EXCEPT !.status = status]
  BY DEF Refuse, Typed, Mine, Answering
<1>4. Typed' /\ Pooled'
  BY <1>1 DEF Typed, Pooled, pools
<1>5. \A d \in Clients : d # c => Mine(d)'
  BY <1>1, <1>2, OthersKeep DEF pools
<1>6. Mine(c)'
  <2>1. Mine(c)
    OBVIOUS
  <2>2. Holding(c)' /\ Contents(c)'
    BY <1>3, <2>1 DEF Mine, Holding, Contents, pools
  <2>3. /\ sent'[c] = Text(c, reply'[c]) /\ answer'[c].status = reply'[c].status
        /\ answer'[c].compressed = FALSE /\ answer'[c].signature = NoSignature
    BY <1>3 DEF Text, Error, NoAnswer
  <2>4. held'[c]["writer"] = None
    BY <2>1 DEF Mine, Holding, pools
  <2>5. Answering(c)'
    BY <1>3, <2>3, <2>4 DEF Answering, Text
  <2>6. given'[c] = {}
    BY <1>1, <2>1 DEF Mine, Given
  <2>7. Admitted(c)' /\ Given(c)' /\ Fitting(c)'
    BY <1>3, <2>6 DEF Admitted, Given, Fitting
  <2> QED
    BY <2>2, <2>5, <2>7 DEF Mine
<1> QED
  BY <1>4, <1>5, <1>6

LEMMA ArriveInv == ASSUME Inv, NEW c \in Clients, NEW r \in FromAgents \cup Requests, Arrive(c, r) PROVE Inv'
<1> USE DEF Inv
<1>1. /\ UNCHANGED <<config, pools>> /\ reached[c] = "idle" /\ req'[c] = r /\ body'[c] = AfterDecryption(r)
      /\ DOMAIN req' = Clients /\ DOMAIN body' = Clients
      /\ \A d \in Clients : d # c => req'[d] = req[d] /\ body'[d] = body[d]
  BY DEF Arrive, Typed
<1>2. /\ Fits(req[c])' <=> Fits(r)
      /\ Trusted(req[c])' <=> Trusted(r)
      /\ Opens(req[c])' <=> Opens(r)
      /\ OverHttpOrGrpc(req[c])' <=> OverHttpOrGrpc(r)
  BY <1>1, SettingsStay
<1>3. ASSUME NEW status, Refuse(c, status), ~Fits(r) PROVE Inv'
  BY <1>1, <1>2, <1>3, RefuseInv
<1>4. ASSUME NEW layer \in {"handler", "gunzip"}, PassOn(c, layer), Trusted(r),
             layer = "handler" => r.via = "grpc",
             layer = "gunzip" => r.via # "grpc" /\ (Opens(r) => ~r.cut)
      PROVE  Inv'
  <2>1. /\ reached' \in [Clients -> Layers] /\ reached'[c] = layer
        /\ \A d \in Clients : d # c => reached'[d] = reached[d]
        /\ UNCHANGED results
    BY <1>4 DEF PassOn, Typed, Layers
  <2>2. Typed' /\ Pooled'
    BY <1>1, <2>1 DEF Typed, Pooled, pools, results
  <2>3. \A d \in Clients : d # c => Mine(d)'
    BY <1>1, <2>1, OthersKeep DEF pools, results
  <2>4. Mine(c) /\ key' = key
    BY <1>1 DEF config
  <2>5. OverHttpOrGrpc(r)
    BY HttpOrGrpc
  <2>6. Holding(c)' /\ Contents(c)'
    BY <1>1, <1>4, <2>1, <2>4 DEF Mine, Holding, Contents, pools, OverHttpOrGrpc
  <2>7. Answering(c)' /\ Given(c)'
    BY <1>1, <1>4, <2>1, <2>4 DEF Mine, Answering, Given, results
  <2>8. Admitted(c)'
    BY <1>1, <1>2, <1>4, <2>1, <2>5 DEF Admitted, OverHttpOrGrpc
  <2>9. Fitting(c)'
    <3>1. refused'[c] = FALSE
      BY <1>1, <2>1, <2>4 DEF Mine, Answering, results, Typed
    <3>2. Fits(r) => layer = "gunzip" /\ AfterDecryption(r) = <<"gzip">>
      BY <1>4, WhatFits
    <3> QED
      BY <1>1, <1>2, <1>4, <2>1, <3>1, <3>2 DEF Fitting
  <2> QED
    BY <2>2, <2>3, <2>6, <2>7, <2>8, <2>9 DEF Mine
<1>5. Fits(r) => Trusted(r) /\ r.via # "grpc" /\ ~r.cut /\ (Opens(r) => Decrypts(r))
  BY WhatFits
<1>6. CASE ~Trusted(r)
  BY <1>3, <1>5, <1>6 DEF Arrive
<1>7. CASE Trusted(r) /\ r.via = "grpc"
  BY <1>4, <1>7 DEF Arrive
<1>8. CASE Trusted(r) /\ r.via # "grpc" /\ Opens(r) /\ r.cut
  BY <1>3, <1>5, <1>8 DEF Arrive
<1>9. CASE Trusted(r) /\ r.via # "grpc" /\ Opens(r) /\ ~r.cut /\ ~Decrypts(r)
  BY <1>3, <1>5, <1>9 DEF Arrive
<1>10. CASE Trusted(r) /\ r.via # "grpc" /\ ~(Opens(r) /\ r.cut) /\ ~(Opens(r) /\ ~Decrypts(r))
  BY <1>4, <1>10 DEF Arrive
<1> QED
  BY <1>6, <1>7, <1>8, <1>9, <1>10

LEMMA GoOnEffect ==
    ASSUME Typed, NEW c \in Clients, NEW layer \in Layers, PassOn(c, layer)
    PROVE  /\ reached' \in [Clients -> Layers] /\ reached'[c] = layer
           /\ \A d \in Clients : d # c => reached'[d] = reached[d]
           /\ UNCHANGED results
  BY DEF PassOn, Typed

\* An object that no other request uses may be filled.
Fills(k, o, x) == content' = [content EXCEPT ![k][o] = x]

LEMMA FilledEffect ==
    ASSUME Typed, NEW k \in Kinds, NEW o \in Objects, NEW x \in Seq(Clients), Fills(k, o, x)
    PROVE  /\ content' \in [Kinds -> [Objects -> Seq(Clients)]]
           /\ \A j \in Kinds, p \in Objects :
                  content'[j][p] = IF j = k /\ p = o THEN x ELSE content[j][p]
  BY DEF Typed, Fills

LEMMA OthersObjects ==
    ASSUME Typed, NEW d \in Clients, NEW k \in Kinds, NEW o \in Objects, NEW x \in Seq(Clients),
           held[d][k] # o, content' = [content EXCEPT ![k][o] = x]
    PROVE  \A j \in Kinds : held[d][j] # None =>
               content'[j][held[d][j]] = content[j][held[d][j]]
<1> SUFFICES ASSUME NEW j \in Kinds, held[d][j] # None
             PROVE  content'[j][held[d][j]] = content[j][held[d][j]]
  OBVIOUS
<1>1. held[d][j] \in Objects
  BY DEF Typed
<1>2. j # k \/ held[d][j] # o
  OBVIOUS
<1> QED
  BY <1>1, <1>2, FilledEffect DEF Fills

LEMMA GunzipInv == ASSUME Inv, NEW c \in Clients, Gunzip(c) PROVE Inv'
<1> USE DEF Inv
<1>1. reached[c] = "gunzip" /\ UNCHANGED <<config, req>> /\ key' = key /\ Mine(c)
  BY DEF Gunzip, config
<1>2. \A d \in Clients : /\ Fits(req[d])' <=> Fits(req[d])
                         /\ Trusted(req[d])' <=> Trusted(req[d])
                         /\ Opens(req[d])' <=> Opens(req[d])
                         /\ OverHttpOrGrpc(req[d])' <=> OverHttpOrGrpc(req[d])
  BY <1>1, SettingsStay
<1>3. ~refused[c] /\ req[c].via = "http"
  BY <1>1 DEF Mine, Answering, Admitted
<1>4. Fits(req[c]) => body[c] = <<"gzip">> /\ req[c].gzip /\ ~Broken(c)
  BY <1>1, WhatFits DEF Mine, Fitting, Broken
<1>5. CASE ~req[c].gzip /\ PassOn(c, "hash") /\ UNCHANGED <<body, pools>>
  <2>1. /\ reached' \in [Clients -> Layers] /\ reached'[c] = "hash"
        /\ \A d \in Clients : d # c => reached'[d] = reached[d]
        /\ UNCHANGED results
    BY <1>5, GoOnEffect DEF Layers
  <2>2. Typed' /\ Pooled'
    BY <1>1, <1>5, <2>1 DEF Typed, Pooled, pools, results
  <2>3. \A d \in Clients : d # c => Mine(d)'
    BY <1>1, <1>5, <2>1, OthersKeep DEF pools, results
  <2>4. Holding(c)' /\ Contents(c)' /\ Answering(c)' /\ Given(c)'
    BY <1>1, <1>5, <2>1 DEF Mine, Holding, Contents, Answering, Given, pools, results
  <2>5. Admitted(c)' /\ Fitting(c)'
    BY <1>1, <1>2, <1>3, <1>4, <1>5, <2>1 DEF Mine, Admitted, Fitting
  <2> QED
    BY <2>2, <2>3, <2>4, <2>5 DEF Mine
<1>6. ASSUME req[c].gzip, IsGzip(c), NEW o \in Objects, Get(c, "reader", o),
             content' = [content EXCEPT !["reader"][o] = <<c>>],
             body' = [body EXCEPT ![c] = Tail(@)], PassOn(c, "hash"), UNCHANGED target
      PROVE  Inv'
  <2>1. /\ reached' \in [Clients -> Layers] /\ reached'[c] = "hash"
        /\ \A d \in Clients : d # c => reached'[d] = reached[d]
        /\ UNCHANGED results
    BY <1>6, GoOnEffect DEF Layers
  <2>2. /\ held' \in [Clients -> [Kinds -> Objects \cup {None}]]
        /\ free' \in [Kinds -> [Objects -> Nat]] /\ made' \in [Kinds -> Nat]
        /\ \A d \in Clients, j \in Kinds :
               held'[d][j] = IF d = c /\ j = "reader" THEN o ELSE held[d][j]
        /\ \A d \in Clients : d # c => held'[d] = held[d]
        /\ \A d \in Clients : held[d]["reader"] # o
        /\ Pooled'
    <3>1. held[c]["reader"] = None
      BY <1>1 DEF Mine, Holding
    <3> QED
      BY <1>6, <3>1, GetEffect, KindsThere
  <2>3. /\ content' \in [Kinds -> [Objects -> Seq(Clients)]]
        /\ \A j \in Kinds, p \in Objects :
               content'[j][p] = IF j = "reader" /\ p = o THEN <<c>> ELSE content[j][p]
    <3>1. <<c>> \in Seq(Clients)
      OBVIOUS
    <3> QED
      BY <1>6, <3>1, FilledEffect, KindsThere DEF Fills
  <2>4. /\ DOMAIN body' = Clients /\ body'[c] = Tail(body[c])
        /\ \A d \in Clients : d # c => body'[d] = body[d]
    BY <1>6 DEF Typed
  <2>5. Typed'
    BY <1>1, <1>6, <2>1, <2>2, <2>3, <2>4 DEF Typed, results
  <2>6. ASSUME NEW d \in Clients, d # c PROVE Mine(d)'
    <3>1. <<c>> \in Seq(Clients)
      OBVIOUS
    <3>2. \A k \in Kinds : held[d][k] # None => content'[k][held[d][k]] = content[k][held[d][k]]
      BY <1>6, <2>2, <3>1, OthersObjects, KindsThere
    <3>3. target' = target
      BY <1>6
    <3> QED
      BY <1>1, <2>1, <2>2, <2>4, <2>6, <3>2, <3>3, OthersKeep DEF results
  <2>7. Holding(c)' /\ Contents(c)'
    BY <1>1, <1>6, <2>1, <2>2, <2>3, KindsThere, ObjectsAreNumbers DEF Mine, Holding, Contents
  <2>8. Answering(c)' /\ Given(c)'
    BY <1>1, <2>1 DEF Mine, Answering, Given, results
  <2>9. Admitted(c)' /\ Fitting(c)'
    <3>1. Fits(req[c]) => body'[c] = <<>>
      <4>1. Tail(<<"gzip">>) = <<>>
        OBVIOUS
      <4> QED
        BY <1>4, <2>4, <4>1
    <3> QED
      BY <1>1, <1>2, <1>3, <2>1, <3>1 DEF Mine, Admitted, Fitting, results
  <2> QED
    BY <2>2, <2>5, <2>6, <2>7, <2>8, <2>9 DEF Mine
<1>7. CASE req[c].gzip /\ (~IsGzip(c) \/ Broken(c)) /\ Refuse(c, "invalid") /\ UNCHANGED <<body, pools>>
  <2>1. ~Fits(req[c])
    BY <1>4, <1>7 DEF IsGzip
  <2>2. ~Fits(req[c])' /\ DOMAIN req' = Clients /\ DOMAIN body' = Clients
    BY <1>1, <1>2, <1>7, <2>1 DEF Typed
  <2> QED
    BY <1>1, <1>7, <2>2, RefuseInv
<1> QED
  BY <1>5, <1>6, <1>7 DEF Gunzip

LEMMA OwnDocument == ASSUME NEW c \in Clients, Contents(c) PROVE Document(c) = req[c].doc
<1>1. held[c]["reader"] # None => content["reader"][held[c]["reader"]] = <<c>>
  BY DEF Contents
<1> QED
  BY <1>1 DEF Document

LEMMA VerifyInv == ASSUME Inv, NEW c \in Clients, Verify(c) PROVE Inv'
<1> USE DEF Inv
<1>1. reached[c] = "hash" /\ UNCHANGED <<config, req, body>> /\ key' = key /\ Mine(c)
  BY DEF Verify, config
<1>2. \A d \in Clients : /\ Fits(req[d])' <=> Fits(req[d])
                         /\ Trusted(req[d])' <=> Trusted(req[d])
                         /\ Opens(req[d])' <=> Opens(req[d])
                         /\ OverHttpOrGrpc(req[d])' <=> OverHttpOrGrpc(req[d])
  BY <1>1, SettingsStay
<1> DEFINE signed == req[c].signature # NoSignature
<1>3. /\ ~refused[c] /\ req[c].via = "http"
      /\ req[c].cut => Broken(c)
  BY <1>1 DEF Mine, Answering, Admitted, Broken
<1>4. Document(c) = req[c].doc
  BY <1>1, OwnDocument DEF Mine
<1>5. Fits(req[c]) => ~Broken(c) /\ body[c] = <<>> /\ (key # NoKey /\ signed => Verifies(c))
  <2> SUFFICES ASSUME Fits(req[c])
               PROVE  ~Broken(c) /\ body[c] = <<>> /\ (key # NoKey /\ signed => Verifies(c))
    OBVIOUS
  <2>1. req[c].cut = FALSE /\ (key # NoKey /\ signed => req[c].signature = <<key, req[c].doc>>)
    BY WhatFits
  <2>2. body[c] = <<>>
    BY <1>1 DEF Mine, Fitting
  <2> QED
    BY <1>4, <2>1, <2>2 DEF Broken, Verifies
<1>6. ASSUME PassOn(c, "handler"), DOMAIN body' = Clients,
             key # NoKey => (signed => ~Broken(c) /\ Verifies(c))
      PROVE  /\ reached' \in [Clients -> Layers] /\ reached'[c] = "handler"
             /\ \A d \in Clients : d # c => reached'[d] = reached[d]
             /\ UNCHANGED results
             /\ Answering(c)' /\ Given(c)' /\ Admitted(c)' /\ Fitting(c)'
  <2>1. /\ reached' \in [Clients -> Layers] /\ reached'[c] = "handler"
        /\ \A d \in Clients : d # c => reached'[d] = reached[d]
        /\ UNCHANGED results
    BY <1>6, GoOnEffect DEF Layers
  <2>2. Answering(c)' /\ Given(c)'
    BY <1>1, <2>1 DEF Mine, Answering, Given, results
  <2>3. key # NoKey /\ signed => req[c].signature = <<key, req[c].doc>> /\ ~req[c].cut
    BY <1>3, <1>4, <1>6 DEF Verifies
  <2>4. Admitted(c)'
    BY <1>1, <1>2, <1>3, <2>1, <2>3 DEF Mine, Admitted, results
  <2>5. Fitting(c)'
    BY <1>1, <1>2, <1>3, <1>5, <2>1 DEF Fitting, results
  <2> QED
    BY <2>1, <2>2, <2>4, <2>5
<1>7. CASE key = NoKey /\ PassOn(c, "handler") /\ UNCHANGED pools
  <2>1. /\ reached' \in [Clients -> Layers] /\ reached'[c] = "handler"
        /\ \A d \in Clients : d # c => reached'[d] = reached[d]
        /\ UNCHANGED results
        /\ Answering(c)' /\ Given(c)' /\ Admitted(c)' /\ Fitting(c)'
    BY <1>1, <1>6, <1>7 DEF Typed
  <2>2. Typed' /\ Pooled'
    BY <1>1, <1>7, <2>1 DEF Typed, Pooled, pools, results
  <2>3. \A d \in Clients : d # c => Mine(d)'
    BY <1>1, <1>7, <2>1, OthersKeep DEF pools, results
  <2>4. Holding(c)' /\ Contents(c)'
    BY <1>1, <1>7, <2>1 DEF Mine, Holding, Contents, pools
  <2> QED
    BY <2>1, <2>2, <2>3, <2>4 DEF Mine
<1>8. ASSUME NEW status, key # NoKey, signed, Broken(c) \/ ~Verifies(c),
             Refuse(c, status), UNCHANGED pools
      PROVE  Inv'
  <2>1. ~Fits(req[c])' /\ DOMAIN req' = Clients /\ DOMAIN body' = Clients
    BY <1>1, <1>2, <1>5, <1>8 DEF Typed
  <2> QED
    BY <1>1, <1>8, <2>1, RefuseInv
<1>9. ASSUME key # NoKey, signed => ~Broken(c) /\ Verifies(c), NEW o \in Objects,
             Get(c, "buffer", o), content' = [content EXCEPT !["buffer"][o] = <<>>],
             PassOn(c, "handler"), UNCHANGED target
      PROVE  Inv'
  <2>1. /\ reached' \in [Clients -> Layers] /\ reached'[c] = "handler"
        /\ \A d \in Clients : d # c => reached'[d] = reached[d]
        /\ UNCHANGED results
        /\ Answering(c)' /\ Given(c)' /\ Admitted(c)' /\ Fitting(c)'
    BY <1>1, <1>6, <1>9 DEF Typed
  <2>2. /\ held' \in [Clients -> [Kinds -> Objects \cup {None}]]
        /\ free' \in [Kinds -> [Objects -> Nat]] /\ made' \in [Kinds -> Nat]
        /\ \A d \in Clients, j \in Kinds :
               held'[d][j] = IF d = c /\ j = "buffer" THEN o ELSE held[d][j]
        /\ \A d \in Clients : d # c => held'[d] = held[d]
        /\ \A d \in Clients : held[d]["buffer"] # o
        /\ Pooled'
    <3>1. held[c]["buffer"] = None
      BY <1>1 DEF Mine, Holding
    <3> QED
      BY <1>9, <3>1, GetEffect, KindsThere
  <2>3. <<>> \in Seq(Clients)
    OBVIOUS
  <2>4. /\ content' \in [Kinds -> [Objects -> Seq(Clients)]]
        /\ \A j \in Kinds, p \in Objects :
               content'[j][p] = IF j = "buffer" /\ p = o THEN <<>> ELSE content[j][p]
    <3> DEFINE text == <<>>
    <3>1. text \in Seq(Clients) /\ Fills("buffer", o, text) /\ "buffer" \in Kinds
      BY <1>9, <2>3, KindsThere DEF Fills
    <3>2. text = <<>>
      OBVIOUS
    <3> HIDE DEF text
    <3>3. /\ content' \in [Kinds -> [Objects -> Seq(Clients)]]
          /\ \A j \in Kinds, p \in Objects :
                 content'[j][p] = IF j = "buffer" /\ p = o THEN text ELSE content[j][p]
      BY <3>1, FilledEffect
    <3> QED
      BY <3>2, <3>3
  <2>5. Typed'
    BY <1>1, <1>9, <2>1, <2>2, <2>4 DEF Typed, results
  <2>6. ASSUME NEW d \in Clients, d # c PROVE Mine(d)'
    <3>1. \A k \in Kinds : held[d][k] # None => content'[k][held[d][k]] = content[k][held[d][k]]
      BY <1>9, <2>2, <2>3, OthersObjects, KindsThere
    <3>2. target' = target
      BY <1>9
    <3> QED
      BY <1>1, <2>1, <2>2, <2>6, <3>1, <3>2, OthersKeep DEF results
  <2>7. Holding(c)'
    BY <1>1, <1>3, <1>9, <2>1, <2>2, KindsThere, ObjectsAreNumbers DEF Mine, Holding
  <2>8. Contents(c)'
    <3>1. /\ held'[c]["reader"] = held[c]["reader"] /\ held'[c]["buffer"] = o
          /\ held'[c]["writer"] = None
      BY <1>1, <2>2, KindsThere DEF Mine, Holding
    <3>2. held[c]["reader"] # None =>
              content'["reader"][held[c]["reader"]] = content["reader"][held[c]["reader"]]
      BY <2>4, KindsThere DEF Typed
    <3> QED
      BY <1>1, <1>9, <2>1, <2>4, <3>1, <3>2, KindsThere DEF Mine, Contents
  <2> QED
    BY <2>1, <2>2, <2>5, <2>6, <2>7, <2>8 DEF Mine
<1> QED
  BY <1>7, <1>8, <1>9 DEF Verify, Filled

\* The answer leaves the handler, or the hash layer; what it says and its signature are
\* given, the handler has been given its document.
LEMMA EmitInv ==
    ASSUME Inv, UNCHANGED <<config, req, body, refused>>, NEW c \in Clients,
           reached[c] \in {"handler", "signing"},
           NEW r, NEW text, NEW signature, Emit(c, r, text, signature),
           DOMAIN reply' = Clients, reply'[c] = r, \A d \in Clients : d # c => reply'[d] = reply[d],
           DOMAIN given' = Clients, \A d \in Clients : d # c => given'[d] = given[d],
           given'[c] \subseteq {req[c].doc}, Fits(req[c]) => given'[c] = {req[c].doc},
           text = Text(c, r),
           signature = IF key # NoKey /\ req[c].via = "http" /\ r.body
                       THEN <<key, <<c>>>> ELSE NoSignature
    PROVE  Inv'
<1> USE DEF Inv
<1>1. key' = key /\ Mine(c) /\ ~refused[c] /\ sent[c] = <<>>
  BY DEF config, Mine, Answering
<1>2. \A d \in Clients : /\ Fits(req[d])' <=> Fits(req[d])
                         /\ Trusted(req[d])' <=> Trusted(req[d])
                         /\ Opens(req[d])' <=> Opens(req[d])
                         /\ OverHttpOrGrpc(req[d])' <=> OverHttpOrGrpc(req[d])
  BY SettingsStay
<1>3. /\ reached' \in [Clients -> Layers] /\ reached'[c] = "closing"
      /\ \A d \in Clients : d # c => reached'[d] = reached[d] /\ answer'[d] = answer[d]
      /\ DOMAIN answer' = Clients
      /\ answer'[c].status = r.status /\ answer'[c].signature = signature
      /\ answer'[c].compressed => req[c].accepts
  BY DEF Emit, Typed, Layers, Compresses
<1>4. Text(c, r) \in Seq(Clients)
  BY DEF Text
<1>5. Admitted(c)' /\ Given(c)' /\ Fitting(c)'
  BY <1>1, <1>2, <1>3 DEF Mine, Admitted, Given, Fitting
<1>6. CASE Compresses(c, r.type)
  <2>1. PICK o \in Objects :
            /\ Get(c, "writer", o)
            /\ content' = [content EXCEPT !["writer"][o] = text]
            /\ target' = [target EXCEPT ![o] = c]
            /\ UNCHANGED sent
    BY <1>6 DEF Emit, Filled
  <2>2. /\ held' \in [Clients -> [Kinds -> Objects \cup {None}]]
        /\ free' \in [Kinds -> [Objects -> Nat]] /\ made' \in [Kinds -> Nat]
        /\ \A d \in Clients, j \in Kinds :
               held'[d][j] = IF d = c /\ j = "writer" THEN o ELSE held[d][j]
        /\ \A d \in Clients : d # c => held'[d] = held[d]
        /\ \A d \in Clients : held[d]["writer"] # o
        /\ Pooled'
    <3>1. held[c]["writer"] = None
      BY <1>1 DEF Mine, Holding
    <3> QED
      BY <2>1, <3>1, GetEffect, KindsThere
  <2>3. /\ content' \in [Kinds -> [Objects -> Seq(Clients)]]
        /\ \A j \in Kinds, p \in Objects :
               content'[j][p] = IF j = "writer" /\ p = o THEN text ELSE content[j][p]
    <3>1. text \in Seq(Clients) /\ "writer" \in Kinds
      BY <1>4, KindsThere
    <3>2. Fills("writer", o, text)
      BY <2>1 DEF Fills
    <3>3. Typed
      OBVIOUS
    <3> QED
      BY ONLY <3>1, <3>2, <3>3, FilledEffect
  <2>4. Typed'
    BY <1>3, <2>1, <2>2, <2>3 DEF Typed
  <2>5. ASSUME NEW d \in Clients, d # c PROVE Mine(d)'
    <3>1. \A k \in Kinds : held[d][k] # None => content'[k][held[d][k]] = content[k][held[d][k]]
      BY <1>4, <2>1, <2>2, OthersObjects, KindsThere
    <3>2. held[d]["writer"] # None => target'[held[d]["writer"]] = target[held[d]["writer"]]
      BY <2>1, <2>2, KindsThere DEF Typed
    <3> QED
      BY <1>3, <2>1, <2>2, <2>5, <3>1, <3>2, OthersKeep
  <2>6. Holding(c)'
    BY <1>3 DEF Holding
  <2>7. Contents(c)'
    <3>1. held'[c]["reader"] = held[c]["reader"] /\ held'[c]["writer"] = o
      BY <2>2, KindsThere
    <3>2. held[c]["reader"] # None =>
              content'["reader"][held[c]["reader"]] = content["reader"][held[c]["reader"]]
      BY <2>3, KindsThere DEF Typed
    <3>3. target'[o] = c /\ content'["writer"][o] = text
      BY <2>1, <2>3, KindsThere DEF Typed
    <3> QED
      BY <1>1, <1>3, <3>1, <3>2, <3>3 DEF Mine, Contents, Text
  <2>8. Answering(c)'
    <3>1. held'[c]["writer"] # None /\ sent'[c] = <<>>
      BY <1>1, <2>1, <2>2, KindsThere, ObjectsAreNumbers
    <3> QED
      BY <1>1, <1>3, <3>1 DEF Answering
  <2> QED
    BY <1>5, <2>2, <2>4, <2>5, <2>6, <2>7, <2>8 DEF Mine
<1>7. CASE ~Compresses(c, r.type)
  <2>1. UNCHANGED pools /\ sent' = [sent EXCEPT ![c] = @ \o text]
    BY <1>7 DEF Emit
  <2>2. /\ sent' \in [Clients -> Seq(Clients)] /\ sent'[c] = text
        /\ \A d \in Clients : d # c => sent'[d] = sent[d]
    <3>1. <<>> \o Text(c, r) = Text(c, r)
      BY <1>4
    <3>2. sent' = [sent EXCEPT ![c] = Text(c, r)]
      BY <1>1, <2>1, <3>1
    <3> QED
      BY <1>4, <3>2 DEF Typed
  <2>3. Typed' /\ Pooled'
    BY <1>3, <2>1, <2>2 DEF Typed, Pooled, pools
  <2>4. \A d \in Clients : d # c => Mine(d)'
    BY <1>3, <2>1, <2>2, OthersKeep DEF pools
  <2>5. Holding(c)' /\ Contents(c)' /\ Answering(c)'
    BY <1>1, <1>3, <2>1, <2>2 DEF Mine, Holding, Contents, Answering, Text, pools
  <2> QED
    BY <1>5, <2>3, <2>4, <2>5 DEF Mine
<1> QED
  BY <1>6, <1>7

LEMMA HandleInv == ASSUME Inv, NEW c \in Clients, Handle(c) PROVE Inv'
<1> USE DEF Inv
<1>1. reached[c] = "handler" /\ UNCHANGED <<config, req, body, refused>> /\ key' = key /\ Mine(c)
  BY DEF Handle, config
<1>2. PICK r \in HandlerReplies, reads \in BOOLEAN :
        /\ reads => req[c].doc # None /\ body[c] = <<>>
        /\ ~reads /\ req[c].doc # None =>
               r = Error("invalid") /\ (body[c] # <<>> \/ Broken(c))
        /\ given' = [given EXCEPT ![c] = IF reads THEN @ \cup {Document(c)} ELSE @]
        /\ reply' = [reply EXCEPT ![c] = r]
        /\ IF Signs(c)
           THEN /\ content' = [content EXCEPT !["buffer"][held[c]["buffer"]] = @ \o Text(c, r)]
                /\ reached' = [reached EXCEPT ![c] = "signing"]
                /\ UNCHANGED <<held, free, made, target, answer, sent>>
           ELSE Emit(c, r, Text(c, r), NoSignature)
  BY DEF Handle
<1>3. /\ DOMAIN reply' = Clients /\ reply'[c] = r /\ \A d \in Clients : d # c => reply'[d] = reply[d]
      /\ DOMAIN given' = Clients /\ \A d \in Clients : d # c => given'[d] = given[d]
  BY <1>2 DEF Typed
<1>4. /\ given'[c] \subseteq {req[c].doc}
      /\ Fits(req[c]) => given'[c] = {req[c].doc}
  <2>1. given[c] = {} /\ Document(c) = req[c].doc
    BY <1>1, OwnDocument DEF Mine, Given
  <2>2. given'[c] = IF reads THEN {req[c].doc} ELSE {}
    BY <1>2, <2>1 DEF Typed
  <2>3. Fits(req[c]) => req[c].doc # None /\ body[c] = <<>> /\ ~Broken(c)
    <3> SUFFICES ASSUME Fits(req[c]) PROVE req[c].doc # None /\ body[c] = <<>> /\ ~Broken(c)
      OBVIOUS
    <3>1. req[c].cut = FALSE /\ req[c].doc \in Reports
      BY WhatFits
    <3>2. body[c] = <<>>
      BY <1>1 DEF Mine, Fitting
    <3> QED
      BY <3>1, <3>2, ObjectsAreNumbers DEF Broken
  <2>4. Fits(req[c]) => reads
    BY <1>2, <2>3
  <2> QED
    BY <2>2, <2>4
<1>5. Signs(c) <=> key # NoKey /\ req[c].via = "http"
  BY <1>1 DEF Mine, Holding, Signs
<1>6. CASE ~Signs(c)
  <2>1. NoSignature = IF key # NoKey /\ req[c].via = "http" /\ r.body THEN <<key, <<c>>>> ELSE NoSignature
    BY <1>5, <1>6
  <2>2. Emit(c, r, Text(c, r), NoSignature)
    BY <1>2, <1>6
  <2> QED
    BY <1>1, <1>3, <1>4, <2>1, <2>2, EmitInv
<1>7. CASE Signs(c)
  <2> DEFINE o == held[c]["buffer"]
  <2>1. /\ content' = [content EXCEPT !["buffer"][o] = @ \o Text(c, r)]
        /\ reached' = [reached EXCEPT ![c] = "signing"]
        /\ UNCHANGED <<held, free, made, target, answer, sent>>
    BY <1>2, <1>7
  <2>2. o \in Objects /\ o # None /\ content["buffer"][o] = <<>>
    BY <1>1, <1>7, KindsThere DEF Mine, Contents, Signs, Typed
  <2>3. Text(c, r) \in Seq(Clients) /\ content' = [content EXCEPT !["buffer"][o] = Text(c, r)]
    <3>1. Text(c, r) \in Seq(Clients) /\ <<>> \o Text(c, r) = Text(c, r)
      BY DEF Text
    <3> QED
      BY <2>1, <2>2, <3>1
  <2> HIDE DEF o
  <2>4. /\ content' \in [Kinds -> [Objects -> Seq(Clients)]]
        /\ \A j \in Kinds, p \in Objects :
               content'[j][p] = IF j = "buffer" /\ p = o THEN Text(c, r) ELSE content[j][p]
    <3>1. Typed /\ "buffer" \in Kinds
      BY KindsThere
    <3>2. Fills("buffer", o, Text(c, r))
      BY <2>3 DEF Fills
    <3> QED
      BY ONLY <2>2, <2>3, <3>1, <3>2, FilledEffect
  <2>5. /\ reached' \in [Clients -> Layers] /\ reached'[c] = "signing"
        /\ \A d \in Clients : d # c => reached'[d] = reached[d]
    BY <2>1 DEF Typed, Layers
  <2>6. Typed' /\ Pooled'
    BY <1>1, <1>3, <2>1, <2>4, <2>5 DEF Typed, Pooled
  <2>7. ASSUME NEW d \in Clients, d # c PROVE Mine(d)'
    <3>1. held[d]["buffer"] # o
      BY <2>2, <2>7, KindsThere DEF Pooled, o
    <3>2. \A k \in Kinds : held[d][k] # None => content'[k][held[d][k]] = content[k][held[d][k]]
      BY <2>2, <2>3, <3>1, OthersObjects, KindsThere
    <3> QED
      BY <1>1, <1>3, <2>1, <2>5, <2>7, <3>2, OthersKeep
  <2>8. Holding(c)'
    BY <1>1, <1>7, <2>1, <2>5 DEF Mine, Holding, Signs
  <2>9. Contents(c)'
    <3>1. held[c]["reader"] # None =>
              content'["reader"][held[c]["reader"]] = content["reader"][held[c]["reader"]]
      BY <2>4, KindsThere DEF Typed
    <3>2. content'["buffer"][o] = Text(c, r)
      BY <2>2, <2>4, KindsThere
    <3>3. held'[c] = held[c] /\ held[c]["buffer"] = o /\ held[c]["writer"] = None
      BY <1>1, <2>1 DEF Mine, Holding, o
    <3> QED
      BY <1>1, <1>3, <2>5, <3>1, <3>2, <3>3 DEF Mine, Contents, Text
  <2>10. Answering(c)'
    BY <1>1, <2>1, <2>5 DEF Mine, Answering
  <2>11. \A d \in Clients : /\ Fits(req[d])' <=> Fits(req[d])
                            /\ Trusted(req[d])' <=> Trusted(req[d])
                            /\ Opens(req[d])' <=> Opens(req[d])
                            /\ OverHttpOrGrpc(req[d])' <=> OverHttpOrGrpc(req[d])
    BY <1>1, SettingsStay
  <2>12. Admitted(c)' /\ Given(c)' /\ Fitting(c)'
    BY <1>1, <1>4, <2>5, <2>11 DEF Mine, Admitted, Given, Fitting, Answering
  <2> QED
    BY <2>6, <2>7, <2>8, <2>9, <2>10, <2>12 DEF Mine
<1> QED
  BY <1>6, <1>7

LEMMA SignInv == ASSUME Inv, NEW c \in Clients, Sign(c) PROVE Inv'
<1> USE DEF Inv
<1>1. /\ reached[c] = "signing" /\ UNCHANGED <<config, req, body, given, refused, reply>>
      /\ key' = key /\ Mine(c)
  BY DEF Sign, config
<1>2. content["buffer"][held[c]["buffer"]] = Text(c, reply[c])
  BY <1>1 DEF Mine, Contents
<1>3. key # NoKey /\ req[c].via = "http"
  BY <1>1 DEF Mine, Holding
<1> DEFINE text == Text(c, reply[c])
           signature == IF text = <<>> THEN NoSignature ELSE <<key, text>>
<1>4. Emit(c, reply[c], text, signature)
  BY <1>2 DEF Sign
<1>5. signature = IF key # NoKey /\ req[c].via = "http" /\ reply[c].body
                  THEN <<key, <<c>>>> ELSE NoSignature
  BY <1>3 DEF Text
<1>6. given[c] \subseteq {req[c].doc} /\ (Fits(req[c]) => given[c] = {req[c].doc})
  BY <1>1 DEF Mine, Given, Fitting
<1>7. DOMAIN reply = Clients /\ DOMAIN given = Clients
  BY DEF Typed
<1> HIDE DEF signature
<1> QED
  BY <1>1, <1>4, <1>5, <1>6, <1>7, EmitInv

LEMMA CloseInv == ASSUME Inv, NEW c \in Clients, Close(c) PROVE Inv'
<1> USE DEF Inv
<1>1. /\ reached[c] = "closing" /\ Mine(c) /\ Put(c, Kinds) /\ key' = key
      /\ UNCHANGED <<config, req, body, content, target, given, refused, reply, answer>>
  BY DEF Close, config
<1>2. /\ reached' \in [Clients -> Layers] /\ reached'[c] = "done"
      /\ \A d \in Clients : d # c => reached'[d] = reached[d]
  BY DEF Close, Typed, Layers
<1>3. /\ held' \in [Clients -> [Kinds -> Objects \cup {None}]]
      /\ \A k \in Kinds : held'[c][k] = None
      /\ \A d \in Clients : d # c => held'[d] = held[d]
  BY <1>1 DEF Put, Typed
<1>4. /\ free' = [k \in Kinds |-> [o \in Objects |->
                     free[k][o] + (IF held[c][k] = o THEN 1 ELSE 0)]]
      /\ made' = made
  BY <1>1 DEF Put
<1>5. free' \in [Kinds -> [Objects -> Nat]]
  <2>1. \A k \in Kinds, o \in Objects : free[k][o] + (IF held[c][k] = o THEN 1 ELSE 0) \in Nat
    BY DEF Typed
  <2> QED
    BY <1>4, <2>1
<1>6. Pooled'
  <2> SUFFICES ASSUME NEW k \in Kinds
               PROVE  /\ \A d, e \in Clients : held'[d][k] # None /\ held'[d][k] = held'[e][k] => d = e
                      /\ \A d \in Clients : held'[d][k] # None =>
                             free'[k][held'[d][k]] = 0 /\ held'[d][k] <= made'[k]
                      /\ \A o \in Objects : free'[k][o] <= 1 /\ (free'[k][o] = 1 => o <= made'[k])
    BY DEF Pooled
  <2>1. \A d, e \in Clients : held'[d][k] # None /\ held'[d][k] = held'[e][k] => d = e
    BY <1>3 DEF Pooled
  <2>2. ASSUME NEW d \in Clients, held'[d][k] # None
        PROVE  free'[k][held'[d][k]] = 0 /\ held'[d][k] <= made'[k]
    <3>1. d # c /\ held'[d][k] = held[d][k] /\ held[d][k] # held[c][k] /\ held[d][k] \in Objects
      BY <1>3, <2>2 DEF Pooled, Typed
    <3>2. free[k][held[d][k]] = 0 /\ held[d][k] <= made[k]
      BY <2>2, <3>1 DEF Pooled
    <3>3. free'[k][held[d][k]] = free[k][held[d][k]] + 0
      BY <1>4, <3>1
    <3> QED
      BY <1>4, <3>1, <3>2, <3>3
  <2>3. ASSUME NEW o \in Objects PROVE free'[k][o] <= 1 /\ (free'[k][o] = 1 => o <= made'[k])
    <3>1. CASE held[c][k] = o
      <4>1. free[k][o] = 0 /\ o <= made[k]
        BY <3>1, ObjectsAreNumbers DEF Pooled
      <4>2. free'[k][o] = 0 + 1
        BY <1>4, <3>1, <4>1
      <4> QED
        BY <1>4, <4>1, <4>2
    <3>2. CASE held[c][k] # o
      <4>1. free'[k][o] = free[k][o] + 0 /\ free[k][o] \in Nat
        BY <1>4, <3>2 DEF Typed
      <4>2. free'[k][o] = free[k][o]
        BY <4>1
      <4> QED
        BY <1>4, <4>2 DEF Pooled
    <3> QED
      BY <3>1, <3>2
  <2> QED
    BY <2>1, <2>2, <2>3
<1>7. /\ sent' \in [Clients -> Seq(Clients)]
      /\ sent'[c] = Text(c, reply[c])
      /\ \A d \in Clients : d # c => sent'[d] = sent[d]
  <2> DEFINE w == held[c]["writer"]
  <2>1. w \in Objects \cup {None} /\ sent[c] = IF w = None THEN Text(c, reply[c]) ELSE <<>>
    BY <1>1, KindsThere DEF Typed, Mine, Answering
  <2>2. CASE w = None
    BY <2>1, <2>2 DEF Close, Typed
  <2>3. CASE w # None
    <3>1. target[w] = c /\ content["writer"][w] = Text(c, reply[c])
      BY <1>1, <2>3 DEF Mine, Contents
    <3>2. Text(c, reply[c]) \in Seq(Clients) /\ <<>> \o Text(c, reply[c]) = Text(c, reply[c])
      BY DEF Text
    <3>3. sent' = [sent EXCEPT ![c] = Text(c, reply[c])]
      BY <2>1, <2>3, <3>1, <3>2 DEF Close
    <3> QED
      BY <3>2, <3>3 DEF Typed
  <2> QED
    BY <2>2, <2>3
<1>8. Typed'
  BY <1>1, <1>2, <1>3, <1>4, <1>5, <1>7 DEF Typed
<1>9. \A d \in Clients : d # c => Mine(d)'
  BY <1>1, <1>2, <1>3, <1>7, OthersKeep
<1>10. Holding(c)' /\ Contents(c)' /\ Answering(c)'
  BY <1>1, <1>2, <1>3, <1>7, KindsThere DEF Mine, Holding, Contents, Answering, Text
<1>11. \A d \in Clients : /\ Fits(req[d])' <=> Fits(req[d])
                          /\ Trusted(req[d])' <=> Trusted(req[d])
                          /\ Opens(req[d])' <=> Opens(req[d])
                          /\ OverHttpOrGrpc(req[d])' <=> OverHttpOrGrpc(req[d])
  BY <1>1, SettingsStay
<1>12. Admitted(c)' /\ Given(c)' /\ Fitting(c)'
  BY <1>1, <1>2, <1>11 DEF Mine, Admitted, Given, Fitting
<1> QED
  BY <1>6, <1>8, <1>9, <1>10, <1>12 DEF Mine

LEMMA InitInv == PipelineInit => Inv
<1> SUFFICES ASSUME PipelineInit PROVE Inv
  OBVIOUS
<1>1. /\ \A c \in Clients : reached[c] = "idle" /\ sent[c] = <<>> /\ answer[c] = NoAnswer
                            /\ refused[c] = FALSE /\ given[c] = {}
      /\ \A c \in Clients, k \in Kinds : held[c][k] = None
      /\ \A k \in Kinds : made[k] = 0 /\ \A o \in Objects : free[k][o] = 0
  BY DEF PipelineInit
<1>2. <<>> \in Seq(Clients) /\ 0 \in Nat
  OBVIOUS
<1>3. /\ content \in [Kinds -> [Objects -> Seq(Clients)]]
      /\ sent \in [Clients -> Seq(Clients)]
  BY <1>2 DEF PipelineInit
<1>4. Typed
  BY <1>2, <1>3 DEF PipelineInit, Typed, Layers
<1>5. Pooled
  BY <1>1, ObjectsAreNumbers DEF Pooled
<1>6. \A c \in Clients : Mine(c)
  BY <1>1, KindsThere DEF Mine, Holding, Contents, Answering, Admitted, Given, Fitting
<1> QED
  BY <1>4, <1>5, <1>6 DEF Inv

LEMMA NextInv == Inv /\ [PipelineNext]_pipelineVars => Inv'
<1> SUFFICES ASSUME Inv, [PipelineNext]_pipelineVars PROVE Inv'
  OBVIOUS
<1>1. CASE UNCHANGED pipelineVars
  <2>1. UNCHANGED <<config, reached, req, body, pools, results>>
    BY <1>1 DEF pipelineVars
  <2>2. Typed' /\ Pooled'
    BY <2>1 DEF Inv, Typed, Pooled, pools, results
  <2>3. \A d \in Clients : Mine(d)'
    BY <2>1, OthersKeep DEF pools, results
  <2> QED
    BY <2>2, <2>3 DEF Inv
<1>2. CASE PipelineNext
  <2>1. PICK c \in Clients : \/ \E r \in FromAgents \cup Requests : Arrive(c, r)
                             \/ Gunzip(c) \/ Verify(c) \/ Handle(c) \/ Sign(c) \/ Close(c)
    BY <1>2 DEF PipelineNext
  <2> QED
    BY <2>1, ArriveInv, GunzipInv, VerifyInv, HandleInv, SignInv, CloseInv
<1> QED
  BY <1>1, <1>2

LEMMA Invariance == PipelineSpec => []Inv
  BY InitInv, NextInv, PTL DEF PipelineSpec

-----------------------------------------------------------------------------
\* The theorems.

\* No object of a pool is used by two requests, or is in the pool while a request uses
\* it (gzip.go:13-33, 72-110, hash/middleware.go).
THEOREM ObjectsAreUsedByOne == PipelineSpec => []Pooled
<1>1. Inv => Pooled
  BY DEF Inv
<1> QED
  BY <1>1, Invariance, PTL

\* A report of an agent whose settings fit reaches the handler as it was sent, and no
\* handler is given another document, an unsigned one against its signature, or one from
\* an address that is not trusted (sender.go:74-128, cmd/server/main.go:167-177).
THEOREM ReportsArriveAsSent == PipelineSpec => []ServedAsSent
<1>1. Inv => ServedAsSent
  <2> SUFFICES ASSUME Inv, NEW c \in Clients, reached[c] # "idle"
               PROVE  /\ Fits(req[c]) =>
                             /\ ~refused[c]
                             /\ reached[c] \in {"signing", "closing", "done"} => given[c] = {req[c].doc}
                      /\ given[c] # {} =>
                             /\ given[c] = {req[c].doc}
                             /\ Trusted(req[c])
                             /\ key # NoKey /\ req[c].signature # NoSignature =>
                                    req[c].signature = <<key, req[c].doc>> /\ ~req[c].cut
    BY DEF ServedAsSent
  <2>1. Given(c) /\ Fitting(c) /\ Admitted(c)
    BY DEF Inv, Mine
  <2> QED
    BY <2>1 DEF Given, Fitting, Admitted
<1> QED
  BY <1>1, Invariance, PTL

\* The client gets the answer of its own handler, whole and once, with the signature of
\* what it reads, although buffers and writers are shared
\* (hash/middleware.go:79-93, gzip.go:36-70).
THEOREM AnswersAreOwn == PipelineSpec => []OwnAnswer
<1>1. Inv => OwnAnswer
  <2> SUFFICES ASSUME Inv, NEW c \in Clients, reached[c] = "done"
               PROVE  /\ sent[c] = Text(c, reply[c])
                      /\ answer[c].status = reply[c].status
                      /\ answer[c].compressed => req[c].accepts
                      /\ answer[c].signature =
                             IF key # NoKey /\ req[c].via = "http" /\ ~refused[c] /\ reply[c].body
                             THEN <<key, sent[c]>> ELSE NoSignature
    BY DEF OwnAnswer
  <2>1. Holding(c) /\ Answering(c)
    BY DEF Inv, Mine
  <2>2. sent[c] = Text(c, reply[c])
    BY <2>1 DEF Holding, Answering
  <2>3. reply[c].body => sent[c] = <<c>>
    BY <2>2 DEF Text
  <2> QED
    BY <2>1, <2>2, <2>3 DEF Answering
<1> QED
  BY <1>1, Invariance, PTL

=============================================================================
