------------------------------ MODULE Pipeline ------------------------------
(***************************************************************************)
(* The way of a request to its handler and of the answer back: what the    *)
(* agent's Send puts around a report (internal/agent/sender.go), and the   *)
(* layers cmd/server/main.go registers: trusted subnet, decryption, gzip,  *)
(* hash.  Each request runs in a goroutine of its own; what they share are *)
(* the pools of gzip readers, gzip writers and buffers.                    *)
(*                                                                         *)
(* A body is a document inside a sequence of wrappings, the outermost      *)
(* first: "gzip", "ours" (encrypted for this server's key), "theirs"       *)
(* (for another's).                                                        *)
(***************************************************************************)
EXTENDS Integers, Sequences, FiniteSets

CONSTANTS Clients,  \* goroutines that serve a request
          Requests, \* what may come over HTTP or gRPC, besides what agents send; the
                    \* signature is a header of HTTP
          Reports,  \* what the agents report
          Keys, NoKey, \* what KEY may be set to; not set
          ServerKeys, \* KEY of the server
          Objects,  \* bound: objects a pool makes
          None      \* no document, no object

ASSUME ObjectsAssumption == Objects = 1..Cardinality(Clients)
ASSUME NoneAssumption == None \notin Objects \cup Reports
ASSUME RequestsAssumption ==
    \A r \in Requests : r.via = "http" \/ (r.via = "grpc" /\ r.signature = <<>>)
ASSUME KeysAssumption == NoKey \notin Keys /\ ServerKeys \subseteq Keys \cup {NoKey}

VARIABLES key,      \* cfg.Key of the server
          private,  \* it has a private key
          subnet,   \* it has a trusted subnet
          reached,  \* the layer each request has come to
          req, body, \* the request, and what is left of its wrappings
          held,     \* the pooled objects it uses, by kind
          free, made, \* of each kind: how often the pool holds an object; those made
          content,  \* what a reader reads from, what a buffer or a writer holds
          target,   \* the request whose answer each gzip writer writes
          \* what comes of it
          given,    \* the documents the handler was given
          refused,  \* a layer has answered instead of the handler
          reply,    \* what the handler, or that layer, answered
          answer,   \* the header of the answer
          sent      \* the body of the answer, decompressed

config == <<key, private, subnet>>
pools == <<held, free, made, content, target>>
results == <<given, refused, reply, answer, sent>>
pipelineVars == <<config, reached, req, body, pools, results>>

Kinds == {"reader", "writer", "buffer"}

\* http.Error.
Error(status) == [status |-> status, type |-> "text", body |-> TRUE]

\* Content-Type when the first byte is written, and whether there is a body:
\* JSON, the page, a value without a type, WriteHeader alone, an error.
HandlerReplies == {[status |-> "ok", type |-> "json", body |-> TRUE],
                   [status |-> "ok", type |-> "html", body |-> TRUE],
                   [status |-> "ok", type |-> "none", body |-> TRUE],
                   [status |-> "ok", type |-> "none", body |-> FALSE],
                   Error("invalid")}

NoSignature == <<>>
NoAnswer == [status |-> "none", compressed |-> FALSE, signature |-> NoSignature]

-----------------------------------------------------------------------------
\* (Definitions marked "Mutant" change the one that follows them the way a bug would; no
\* specification uses them.)
EncryptFirst(public) == IF public = None THEN <<"gzip">> ELSE <<"gzip", public>>  \* Mutant
\* Sender.Send: compress, then encrypt for the key the agent was given, and
\* sign the document itself.
Wrap(public) == IF public = None THEN <<"gzip">> ELSE <<public, "gzip">>

Sent(doc, agentKey, public, ip, cut) ==
    [via |-> "http", ip |-> ip, doc |-> doc, cut |-> cut,
     wrappings |-> Wrap(public), marked |-> public # None, gzip |-> TRUE, accepts |-> TRUE,
     signature |-> IF agentKey = NoKey THEN NoSignature ELSE <<agentKey, doc>>]

FromAgents == {Sent(doc, k, public, ip, cut) :
                   doc \in Reports, k \in Keys \cup {NoKey}, public \in {None, "ours", "theirs"},
                   ip \in {"trusted", "other"}, cut \in BOOLEAN}

AnyRequest == CHOOSE r \in FromAgents : TRUE

PipelineInit == /\ key \in ServerKeys
                /\ private \in BOOLEAN /\ subnet \in BOOLEAN
                /\ reached = [c \in Clients |-> "idle"]
                /\ req = [c \in Clients |-> AnyRequest]
                /\ body = [c \in Clients |-> <<>>]
                /\ held = [c \in Clients |-> [k \in Kinds |-> None]]
                /\ free = [k \in Kinds |-> [o \in Objects |-> 0]]
                /\ made = [k \in Kinds |-> 0]
                /\ content = [k \in Kinds |-> [o \in Objects |-> <<>>]]
                /\ target = [o \in Objects |-> None]
                /\ given = [c \in Clients |-> {}]
                /\ refused = [c \in Clients |-> FALSE]
                /\ reply = [c \in Clients |-> Error("none")]
                /\ answer = [c \in Clients |-> NoAnswer]
                /\ sent = [c \in Clients |-> <<>>]

-----------------------------------------------------------------------------
\* sync.Pool: Get returns an object that was put, or makes one.

Get(c, kind, o) ==
    /\ held' = [held EXCEPT ![c][kind] = o]
    /\ \/ free[kind][o] > 0 /\ free' = [free EXCEPT ![kind][o] = @ - 1] /\ UNCHANGED made
       \/ o = made[kind] + 1 /\ made' = [made EXCEPT ![kind] = o] /\ UNCHANGED free

FilledWithoutReset(kind, o, text) == content[kind][o] \o text  \* Mutant
\* Reset, then what the request puts in.
Filled(kind, o, text) == text

\* Puts the objects of these kinds that c still has.
Put(c, kinds) ==
    /\ free' = [k \in Kinds |-> [o \in Objects |->
                    free[k][o] + (IF k \in kinds /\ held[c][k] = o THEN 1 ELSE 0)]]
    /\ held' = [held EXCEPT ![c] = [k \in Kinds |-> IF k \in kinds THEN None ELSE @[k]]]
    /\ UNCHANGED made

-----------------------------------------------------------------------------
\* The layers on the way in.

\* A layer answers with http.Error: text, which is not compressed, and outside
\* the writer of the hash layer, so not signed.
Refuse(c, status) ==
    /\ refused' = [refused EXCEPT ![c] = TRUE]
    /\ reply' = [reply EXCEPT ![c] = Error(status)]
    /\ answer' = [answer EXCEPT ![c].status = status]
    /\ sent' = [sent EXCEPT ![c] = <<c>>]
    /\ reached' = [reached EXCEPT ![c] = "closing"]
    /\ UNCHANGED given

PassOn(c, layer) == /\ reached' = [reached EXCEPT ![c] = layer]
                    /\ UNCHANGED results

Trusted(r) == subnet => r.ip = "trusted"
Opens(r) == private /\ r.marked
Decrypts(r) == r.wrappings # <<>> /\ Head(r.wrappings) = "ours"
AfterDecryption(r) == IF Opens(r) /\ Decrypts(r) THEN Tail(r.wrappings) ELSE r.wrappings

\* The subnet and the decryption, which share nothing with other requests.
\* The gRPC interceptor knows the subnet only.
Arrive(c, r) ==
    /\ reached[c] = "idle"
    /\ req' = [req EXCEPT ![c] = r]
    /\ body' = [body EXCEPT ![c] = AfterDecryption(r)]
    /\ IF ~Trusted(r) THEN Refuse(c, "forbidden")
       ELSE IF r.via = "grpc" THEN PassOn(c, "handler")
       ELSE IF Opens(r) /\ r.cut THEN Refuse(c, "internal")
       ELSE IF Opens(r) /\ ~Decrypts(r) THEN Refuse(c, "invalid")
       ELSE PassOn(c, "gunzip")
    /\ UNCHANGED <<config, pools>>

IsGzip(c) == body[c] # <<>> /\ Head(body[c]) = "gzip"

\* The connection broke in the middle of the body, and nothing has read it yet.
Broken(c) == req[c].cut /\ ~Opens(req[c])

\* gz.Reset or NewReader reads the header of the compressed body; the rest is
\* read when somebody reads.  A reader that refused goes back to the pool.
Gunzip(c) ==
    /\ reached[c] = "gunzip"
    /\ \/ ~req[c].gzip /\ PassOn(c, "hash") /\ UNCHANGED <<body, pools>>
       \/ /\ req[c].gzip /\ IsGzip(c)
          /\ \E o \in Objects :
                 /\ Get(c, "reader", o)
                 /\ content' = [content EXCEPT !["reader"][o] = <<c>>]
          /\ body' = [body EXCEPT ![c] = Tail(@)]
          /\ PassOn(c, "hash")
          /\ UNCHANGED target
       \/ /\ req[c].gzip /\ (~IsGzip(c) \/ Broken(c))
          /\ Refuse(c, "invalid")
          /\ UNCHANGED <<body, pools>>
    /\ UNCHANGED <<config, req>>

\* The document c reads: its own, or that of the body its reader is set to.
Document(c) == IF held[c]["reader"] = None THEN req[c].doc
               ELSE req[content["reader"][held[c]["reader"]][1]].doc

Verifies(c) == body[c] = <<>> /\ req[c].signature = <<key, Document(c)>>

\* hash.Middleware: a request without a signature goes through.
Verify(c) ==
    /\ reached[c] = "hash"
    /\ LET signed == req[c].signature # NoSignature IN
       \/ key = NoKey /\ PassOn(c, "handler") /\ UNCHANGED pools
       \/ /\ key # NoKey /\ signed /\ Broken(c)
          /\ Refuse(c, "internal")
          /\ UNCHANGED pools
       \/ /\ key # NoKey /\ signed /\ ~Broken(c) /\ ~Verifies(c)
          /\ Refuse(c, "invalid")
          /\ UNCHANGED pools
       \/ /\ key # NoKey /\ (signed => ~Broken(c) /\ Verifies(c))
          /\ \E o \in Objects :
                 /\ Get(c, "buffer", o)
                 /\ content' = [content EXCEPT !["buffer"][o] = Filled("buffer", o, <<>>)]
          /\ PassOn(c, "handler")
          /\ UNCHANGED target
    /\ UNCHANGED <<config, req, body>>

-----------------------------------------------------------------------------
\* The handler, and the layers on the way out.

Compresses(c, type) == req[c].accepts /\ type \in {"json", "html"}

\* gzipWriter decides when the header or the first bytes come.
Emit(c, r, text, signature) ==
    /\ answer' = [answer EXCEPT ![c] = [status |-> r.status,
                                        compressed |-> Compresses(c, r.type),
                                        signature |-> signature]]
    /\ reached' = [reached EXCEPT ![c] = "closing"]
    /\ IF Compresses(c, r.type)
       THEN \E o \in Objects :
                /\ Get(c, "writer", o)
                /\ content' = [content EXCEPT !["writer"][o] = Filled("writer", o, text)]
                /\ target' = [target EXCEPT ![o] = c]
                /\ UNCHANGED sent
       ELSE /\ sent' = [sent EXCEPT ![c] = @ \o text]
            /\ UNCHANGED pools

Text(c, r) == IF r.body THEN <<c>> ELSE <<>>

Signs(c) == held[c]["buffer"] # None

\* The handler reads the body, or what it needs of it, and answers.
Handle(c) ==
    /\ reached[c] = "handler"
    /\ \E r \in HandlerReplies, reads \in BOOLEAN :
        /\ reads => req[c].doc # None /\ body[c] = <<>>
        /\ ~reads /\ req[c].doc # None =>
               r = Error("invalid") /\ (body[c] # <<>> \/ Broken(c))
        /\ given' = [given EXCEPT ![c] = IF reads THEN @ \cup {Document(c)} ELSE @]
        /\ reply' = [reply EXCEPT ![c] = r]
        /\ IF Signs(c)
           THEN /\ content' = [content EXCEPT !["buffer"][held[c]["buffer"]] = @ \o Text(c, r)]
                /\ reached' = [reached EXCEPT ![c] = "signing"]
                /\ UNCHANGED <<held, free, made, target, answer, sent>>
           ELSE Emit(c, r, Text(c, r), NoSignature)
    /\ UNCHANGED <<config, req, body, refused>>

\* The hash layer signs what is in its buffer and passes it on; a body that
\* is empty is not signed.
Sign(c) ==
    /\ reached[c] = "signing"
    /\ LET text == content["buffer"][held[c]["buffer"]] IN
           Emit(c, reply[c], text, IF text = <<>> THEN NoSignature ELSE <<key, text>>)
    /\ UNCHANGED <<config, req, body, given, refused, reply>>

\* The deferred calls: gw.Close writes what the gzip writer holds, and all
\* objects go back to their pools.  (One step: the request uses none of them
\* in between.)
Close(c) ==
    /\ reached[c] = "closing"
    /\ reached' = [reached EXCEPT ![c] = "done"]
    /\ LET w == held[c]["writer"] IN
           sent' = IF w = None THEN sent
                   ELSE [sent EXCEPT ![target[w]] = @ \o content["writer"][w]]
    /\ Put(c, Kinds)
    /\ UNCHANGED <<config, req, body, content, target, given, refused, reply, answer>>

PipelineNext == \E c \in Clients :
            \/ \E r \in FromAgents \cup Requests : Arrive(c, r)
            \/ Gunzip(c) \/ Verify(c) \/ Handle(c) \/ Sign(c) \/ Close(c)

PipelineSpec == PipelineInit /\ [][PipelineNext]_pipelineVars

-----------------------------------------------------------------------------
\* Properties.

\* What an agent sends whose settings fit the server's, from a trusted address:
\* it encrypts only for the server's key, and signs, if both sign, with the same.
Fits(r) == \E doc \in Reports,
              k \in IF key = NoKey THEN Keys \cup {NoKey} ELSE {key, NoKey},
              public \in IF private THEN {None, "ours"} ELSE {None} :
               r = Sent(doc, k, public, "trusted", FALSE)

\* The layers undo what Send has done, in the right order: a report of an agent
\* that fits, from a trusted address, reaches the handler as it was sent.  No
\* handler is given the document of another request, although readers are
\* shared, nor, with a key, one that does not fit its signature or was cut
\* short, nor anything from an address that is not trusted
\* (sender.go:74-128, cmd/server/main.go:167-177).
ServedAsSent ==
    \A c \in Clients : reached[c] # "idle" =>
        /\ Fits(req[c]) =>
               /\ ~refused[c]
               /\ reached[c] \in {"signing", "closing", "done"} => given[c] = {req[c].doc}
        /\ given[c] # {} =>
               /\ given[c] = {req[c].doc}
               /\ Trusted(req[c])
               /\ key # NoKey /\ req[c].signature # NoSignature =>
                      req[c].signature = <<key, req[c].doc>> /\ ~req[c].cut

\* The client gets the answer of its own handler, whole and once, although
\* buffers and writers are shared; compressed only if it accepts that; with
\* a signature, when the server has a key, of what the client decompresses;
\* and the status the handler chose (hash/middleware.go:79-93, gzip.go:36-70).
OwnAnswer ==
    \A c \in Clients : reached[c] = "done" =>
        /\ sent[c] = Text(c, reply[c])
        /\ answer[c].status = reply[c].status
        /\ answer[c].compressed => req[c].accepts
        /\ answer[c].signature = IF key # NoKey /\ req[c].via = "http" /\ ~refused[c] /\ reply[c].body
                                 THEN <<key, sent[c]>> ELSE NoSignature

=============================================================================
