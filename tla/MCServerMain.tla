---------------------------- MODULE MCServerMain ----------------------------
(* TLC's instance of ServerMain: command lines of at most two tokens, and   *)
(* sources that agree, disagree or cannot be read.                          *)
EXTENDS ServerMain, TLC

CONSTANTS r1, r2, r3

Text(v) == [type |-> "text", value |-> v]
Number(v) == [type |-> "int", value |-> v]
Switch(v) == [type |-> "bool", value |-> v]
Ms(v) == [type |-> "ms", value |-> v]

Inline(s, raw) == [kind |-> "inline", name |-> s, raw |-> raw]
Bare(s) == [kind |-> "bare", name |-> s]
Word(raw) == [kind |-> "word", raw |-> raw]

Path == "config.json"

Tokens == {Inline("store_interval", Number(-1)), Inline("restore", Switch(FALSE)),
           Inline("config", Text(Path)), Inline("report_interval", Number(0)),
           Bare("store_interval"), Bare("restore"), Bare("config"), Word(Number(0)), Word(Text(Path))}

Lines == UNION {[1..n -> Tokens] : n \in 0..2}

\* Absent, or one of the raw values.
Maybe(s, raws) == {<<>>} \cup {s :> raw : raw \in raws}

\* The settings that sources contend for, and those that make another server.
Contents == {<<>>, "store_interval" :> Ms(5000), "store_interval" :> Text("soon"),
             "store_interval" :> Ms(500) @@ "restore" :> Switch(FALSE), "restore" :> Text("no"),
             "shutdown_timeout" :> Ms(500), "poll_interval" :> Ms(2500) @@ "rate_limit" :> Number(0),
             Unreadable}

Contending == {i @@ c : i \in Maybe("store_interval", {Number(60), Text("soon")}),
                        c \in Maybe("config", {Text(""), Text(Path)})}
              \cup {"restore" :> Switch(FALSE), "rate_limit" :> Number(2) @@ "poll_interval" :> Number(0)}
Secure == "grpc_cert_file" :> Text("cert") @@ "grpc_key_file" :> Text("key")
Others == {"store_file" :> Text(""), "database_dsn" :> Text("dsn"),
           "audit_file" :> Text("log") @@ "audit_url" :> Text("url") @@ "store_file" :> Text(""),
           "grpc_address" :> Text(":3200"), "grpc_address" :> Text(":3200") @@ Secure,
           "grpc_address" :> Text(":3200") @@ Secure @@ "audit_url" :> Text("url"),
           "grpc_address" :> Text(":3200") @@ Secure @@ "database_dsn" :> Text("dsn")}

AllEnvironments == Contending \cup Others

\* cmd/server/README.md:106, with no other source: -i 30 -f ./my-metrics.json -r false.
ReadmeLines == { <<Bare("store_interval"), Word(Number(30)),
                   Bare("store_file"), Word(Text("./my-metrics.json")),
                   Bare("restore"), Word(Switch(FALSE))>> }
NoSource == {<<>>}

=============================================================================
