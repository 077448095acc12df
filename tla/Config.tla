------------------------------- MODULE Config -------------------------------
(***************************************************************************)
(* How a program of the repository gets its settings (internal/config):    *)
(* package flag reads the command line over the defaults, then comes the   *)
(* JSON file, then the environment, then a check of the numbers.           *)
(*                                                                         *)
(* A raw value is what stands in a source, with what it can be read as:    *)
(* "text", "int" (a decimal number), "bool", "ms" (a duration in           *)
(* milliseconds, such as "500ms").                                         *)
(***************************************************************************)
EXTENDS Integers, Sequences, FiniteSets

CONSTANTS Programs,     \* which programs start: "server", "agent"
          CommandLines, \* sequences of tokens
          Environments, \* what the environment may be: settings to raw values
          Files,        \* what the file at FilePath may contain
          FilePath,
          Unreadable    \* no such file, or not JSON

ASSUME ProgramsAssumption == Programs \subseteq {"server", "agent"}

\* A raw value that can be read as a number or a duration has an integer.
IsRaw(raw) == raw.type \in {"int", "ms"} => raw.value \in Int

ASSUME LinesAssumption ==
    \A l \in CommandLines : /\ l \in Seq({l[i] : i \in DOMAIN l})
                             /\ \A i \in DOMAIN l : l[i].kind # "bare" => IsRaw(l[i].raw)
ASSUME SourcesAssumption ==
    \A source \in Environments \cup (Files \ {Unreadable}) :
        \A s \in DOMAIN source : IsRaw(source[s])

VARIABLES program,
          line, env, file, \* the sources
          rest,      \* the tokens flag has not read yet
          path,      \* value of -c
          given,     \* the set that setFlags returns
          cfg,       \* the settings
          at         \* where the program is

configVars == <<program, line, env, file, rest, path, given, cfg, at>>

-----------------------------------------------------------------------------
\* The settings of ServerConfig and AgentConfig, by their names in the file.

Texts == [server |-> {"address", "store_file", "database_dsn", "key", "audit_file", "audit_url",
                      "pprof_addr", "crypto_key", "trusted_subnet", "grpc_address",
                      "grpc_cert_file", "grpc_key_file"},
          agent |-> {"address", "crypto_key", "key", "grpc_address", "grpc_ca_cert"}]
Seconds == [server |-> {"store_interval", "shutdown_timeout"},
            agent |-> {"report_interval", "poll_interval", "shutdown_timeout"}]
Numbers == [server |-> {}, agent |-> {"rate_limit"}]
Switches == [server |-> {"restore"}, agent |-> {}]

Settings == Texts[program] \cup Seconds[program] \cup Numbers[program] \cup Switches[program]

Default(s) == CASE s = "address" -> "localhost:8080"
                [] s = "store_file" -> "/tmp/metrics-db.json"
                [] s = "store_interval" -> 300
                [] s = "report_interval" -> 10
                [] s = "poll_interval" -> 2
                [] s = "shutdown_timeout" -> 5
                [] s = "rate_limit" -> 1
                [] s = "restore" -> TRUE
                [] OTHER -> ""

\* What main refuses to start without.
MustBePositive == [server |-> {"shutdown_timeout"},
                   agent |-> {"poll_interval", "report_interval", "rate_limit", "shutdown_timeout"}]

Valid == \A s \in MustBePositive[program] : cfg[s] > 0

-----------------------------------------------------------------------------
\* Raw values.

Type(s) == IF s \in Switches[program] THEN "bool"
           ELSE IF s \in Seconds[program] \cup Numbers[program] THEN "int" ELSE "text"

\* As a flag or in the environment every value is text, and one of the other
\* kinds may not parse.
Parses(s, raw) == Type(s) = "text" \/ raw.type = Type(s)
Parsed(s, raw) == IF Type(s) = "text" /\ raw.type # "text" THEN "other text" ELSE raw.value

\* In the file text is a JSON string, and so is a duration; it may not be one.
Fits(s, raw) == IF s \in Texts[program] \cup Seconds[program] THEN raw.type \in {"text", "ms"}
                ELSE raw.type = Type(s)
IsDuration(s, raw) == s \in Seconds[program] => raw.type = "ms"

Truncated(ms) == IF ms < 0 THEN -((-ms) \div 1000) ELSE ms \div 1000

RoundedUp(s, raw) == IF s \in Seconds[program] THEN (raw.value + 999) \div 1000 ELSE Parsed(s, raw)  \* Mutant
\* parseDurationSeconds.
FromFile(s, raw) == IF s \in Seconds[program] THEN Truncated(raw.value) ELSE Parsed(s, raw)

-----------------------------------------------------------------------------
ConfigInit ==
        /\ program \in Programs
        /\ line \in CommandLines /\ env \in Environments /\ file \in Files
        /\ rest = line
        /\ path = "" /\ given = {}
        /\ cfg = [s \in Settings |-> Default(s)]
        /\ at = "flags"

\* An error ends the program: package flag exits, main panics.
Refuse == at' = "refused" /\ UNCHANGED <<rest, path, given, cfg>>

\* fs.Parse goes on to a token that is not a flag, and leaves the rest.
AtFlag == rest # <<>> /\ Head(rest).kind # "word"

SetFlag(s, raw, remaining) ==
    IF s = "config"
    THEN path' = Parsed(s, raw) /\ rest' = remaining /\ UNCHANGED <<given, cfg, at>>
    ELSE IF s \in Settings /\ Parses(s, raw)
    THEN /\ cfg' = [cfg EXCEPT ![s] = Parsed(s, raw)]
         /\ given' = given \cup {s}
         /\ rest' = remaining
         /\ UNCHANGED <<path, at>>
    ELSE Refuse

\* A whole token, as the value of the flag before it.
AsValue(t) == IF t.kind = "word" THEN t.raw ELSE [type |-> "text", value |-> "other text"]

\* "-s=v"; "-s" of a switch; "-s v", where v is whatever comes next.
ParseFlag ==
    /\ at = "flags" /\ AtFlag
    /\ LET t == Head(rest) IN
       \/ t.kind = "inline" /\ SetFlag(t.name, t.raw, Tail(rest))
       \/ /\ t.kind = "bare" /\ t.name \in Switches[program]
          /\ SetFlag(t.name, [type |-> "bool", value |-> TRUE], Tail(rest))
       \/ /\ t.kind = "bare" /\ t.name \notin Switches[program]
          /\ IF Len(rest) = 1 THEN Refuse
             ELSE SetFlag(t.name, AsValue(rest[2]), SubSeq(rest, 3, Len(rest)))
    /\ UNCHANGED <<program, line, env, file>>

EndFlags == /\ at = "flags" /\ ~AtFlag
            /\ at' = "file"
            /\ UNCHANGED <<program, line, env, file, rest, path, given, cfg>>

\* resolveConfigPath.
ConfigPath == IF "config" \in DOMAIN env THEN Parsed("config", env["config"]) ELSE path

\* Mutant: the file is laid over the flags.
OverEverything(s) == s \in DOMAIN file
\* applyTo: a key of the file counts where no flag was given.
OverDefaults(s) == s \in DOMAIN file /\ s \notin given

\* The keys that serverFileConfig or agentFileConfig have; others are ignored.
Keys == DOMAIN file \cap Settings

\* A value of the wrong JSON type spoils the file, a duration that is none
\* only where it would be used.
ApplyFile ==
    /\ at = "file"
    /\ IF ConfigPath = "" THEN at' = "env" /\ UNCHANGED <<rest, path, given, cfg>>
       ELSE IF \/ ConfigPath # FilePath
               \/ file = Unreadable
            THEN Refuse
       ELSE IF \/ \E s \in Keys : ~Fits(s, file[s])
               \/ \E s \in Keys : OverDefaults(s) /\ ~IsDuration(s, file[s])
            THEN Refuse
       ELSE /\ cfg' = [s \in Settings |-> IF OverDefaults(s) THEN FromFile(s, file[s]) ELSE cfg[s]]
            /\ at' = "env"
            /\ UNCHANGED <<rest, path, given>>
    /\ UNCHANGED <<program, line, env, file>>

\* A value that does not parse is passed over.
Usable(s) == s \in DOMAIN env /\ Parses(s, env[s])

ReadEnv == /\ at = "env"
           /\ cfg' = [s \in Settings |-> IF Usable(s) THEN Parsed(s, env[s]) ELSE cfg[s]]
           /\ at' = "check"
           /\ UNCHANGED <<program, line, env, file, rest, path, given>>

Check == /\ at = "check"
         /\ IF Valid THEN at' = "ready" /\ UNCHANGED <<rest, path, given, cfg>> ELSE Refuse
         /\ UNCHANGED <<program, line, env, file>>

ConfigNext == ParseFlag \/ EndFlags \/ ApplyFile \/ ReadEnv \/ Check

-----------------------------------------------------------------------------
\* What the sources say, read as a whole.

\* The token at i is the value of the flag before it.
IsValue[i \in Nat] ==
    /\ i \in 2..Len(line)
    /\ line[i - 1].kind = "bare" /\ line[i - 1].name \notin Switches[program]
    /\ ~IsValue[i - 1]

\* The flags up to the first word that belongs to none.
Flags == {i \in 1..Len(line) :
              /\ ~IsValue[i]
              /\ \A j \in 1..i : line[j].kind = "word" => IsValue[j]}

FlagsFor(s) == {i \in Flags : line[i].name = s}

\* What the flag at i sets s to.
ValueAt(i, s) == IF line[i].kind = "inline" THEN Parsed(s, line[i].raw)
                 ELSE IF s \in Switches[program] THEN TRUE
                 ELSE Parsed(s, AsValue(line[i + 1]))

FlagValue(s) == ValueAt(CHOOSE i \in FlagsFor(s) : \A j \in FlagsFor(s) : j <= i, s)

ReadsFile == IF "config" \in DOMAIN env THEN Parsed("config", env["config"]) # ""
             ELSE FlagsFor("config") # {} /\ FlagValue("config") # ""

Strongest(s) == CASE Usable(s) -> Parsed(s, env[s])
                  [] ~Usable(s) /\ FlagsFor(s) # {} -> FlagValue(s)
                  [] ~Usable(s) /\ FlagsFor(s) = {} /\ ReadsFile /\ s \in DOMAIN file ->
                        FromFile(s, file[s])
                  [] OTHER -> Default(s)

\* Properties.

\* Each setting has the value of its strongest source: the environment where
\* it parses, then the last flag before the first free word, then the file,
\* then the default (server.go:1-3: env > flag > config-file > default); and a
\* program starts only with positive timeouts and intervals, where it needs
\* them, whatever source they come from (server.go:152-248, agent.go:112-195).
Precedence ==
    at = "ready" => /\ \A s \in Settings : cfg[s] = Strongest(s)
                    /\ \A s \in MustBePositive[program] : Strongest(s) > 0

\* What the documentation says of "-r false" (cmd/server/README.md:103-107): a
\* switch has the value of the word behind its last flag, unless the environment
\* sets it (server.go:178).
SpacedSwitchCounts ==
    at = "ready" => \A s \in Switches[program], i \in Flags :
        /\ ~Usable(s)
        /\ i \in FlagsFor(s) /\ \A j \in FlagsFor(s) : j <= i
        /\ line[i].kind = "bare" /\ i < Len(line)
        /\ line[i + 1].kind = "word" /\ line[i + 1].raw.type = "bool"
        => cfg[s] = line[i + 1].raw.value

=============================================================================
