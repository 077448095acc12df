------------------------- MODULE ServerMainProofs -------------------------
(***************************************************************************)
(* Proofs about ServerMain and, with it, Config: the settings have the     *)
(* values of their strongest sources, the store that they ask for loses    *)
(* no answered update, and neither does an orderly exit.                   *)
(***************************************************************************)
EXTENDS ServerMain, RecursionTheorems, SequenceTheorems, FiniteSetTheorems, TLAPS

-----------------------------------------------------------------------------
\* A condition that holds at the positions of B, but never at two in a row.
LEMMA Alternating ==
    ASSUME NEW B \in SUBSET (Nat \ {0})
    PROVE  \E f : f = [i \in Nat |-> i \in B /\ ~f[i - 1]]
<1> DEFINE Upto(g, n) == g \in [0..n -> BOOLEAN] /\ \A i \in 0..n : g[i] = (i \in B /\ ~g[i - 1])
           T == {n \in Nat : \E g : Upto(g, n)}
<1>1. 0 \in T
  <2> DEFINE g == [i \in 0..0 |-> FALSE]
  <2>0. g \in [0..0 -> BOOLEAN]
    OBVIOUS
  <2>2. \A i \in 0..0 : ~g[i] /\ i \notin B
    OBVIOUS
  <2> HIDE DEF g
  <2>3. \A i \in 0..0 : g[i] = (i \in B /\ ~g[i - 1])
    BY <2>0, <2>2
  <2>1. Upto(g, 0)
    BY <2>0, <2>3
  <2> QED
    BY <2>1
<1>2. ASSUME NEW n \in Nat, n \in T PROVE n + 1 \in T
  <2>1. PICK g : Upto(g, n)
    BY <1>2
  <2> DEFINE h == [i \in 0..(n + 1) |-> IF i = n + 1 THEN n + 1 \in B /\ ~g[n] ELSE g[i]]
  <2>2. h \in [0..(n + 1) -> BOOLEAN]
    <3>1. \A i \in 0..(n + 1) : i = n + 1 \/ i \in 0..n
      OBVIOUS
    <3>2. \A i \in 0..(n + 1) : (IF i = n + 1 THEN n + 1 \in B /\ ~g[n] ELSE g[i]) \in BOOLEAN
      BY <2>1, <3>1
    <3> QED
      BY <3>2
  <2>3. ASSUME NEW i \in 0..(n + 1) PROVE h[i] = (i \in B /\ ~h[i - 1])
    <3>1. CASE i = n + 1
      BY <3>1
    <3>2. CASE i = 0
      BY <2>1, <3>2
    <3>3. CASE i # n + 1 /\ i # 0
      <4>1. i \in 0..n /\ i - 1 \in 0..(n + 1) /\ i - 1 # n + 1
        BY <3>3
      <4>2. h[i] = g[i] /\ h[i - 1] = g[i - 1]
        BY <3>3, <4>1
      <4> QED
        BY <2>1, <4>1, <4>2
    <3> QED
      BY <3>1, <3>2, <3>3
  <2> HIDE DEF h
  <2>4. Upto(h, n + 1)
    BY <2>2, <2>3
  <2> QED
    BY <2>4
<1> DEFINE G(n) == CHOOSE g : Upto(g, n)
<1>3. \A n \in Nat : Upto(G(n), n)
  <2>1. \A n \in Nat : n \in T
    <3> HIDE DEF T
    <3> QED
      BY <1>1, <1>2, Induction
  <2> QED
    BY <2>1
<1> HIDE DEF G
<1> DEFINE S == {i \in Nat : \A m, n \in Nat : i <= m /\ i <= n => G(m)[i] = G(n)[i]}
<1>4. \A i \in Nat : i \in S
  <2>1. 0 \in S
    BY <1>3
  <2>2. ASSUME NEW i \in Nat, i \in S PROVE i + 1 \in S
    <3> SUFFICES ASSUME NEW m \in Nat, NEW n \in Nat, i + 1 <= m, i + 1 <= n
                 PROVE  G(m)[i + 1] = G(n)[i + 1]
      OBVIOUS
    <3>1. G(m)[i] = G(n)[i]
      BY <2>2
    <3>2. i + 1 \in 0..m /\ i + 1 \in 0..n /\ (i + 1) - 1 = i
      OBVIOUS
    <3>3. /\ G(m)[i + 1] = (i + 1 \in B /\ ~G(m)[i])
          /\ G(n)[i + 1] = (i + 1 \in B /\ ~G(n)[i])
      BY <1>3, <3>2
    <3> QED
      BY <3>1, <3>3
  <2> HIDE DEF S
  <2> QED
    BY <2>1, <2>2, Induction
<1> DEFINE F == [i \in Nat |-> G(i)[i]]
<1>5. ASSUME NEW i \in Nat PROVE F[i] = (i \in B /\ ~F[i - 1])
  <2>1. G(i)[i] = (i \in B /\ ~G(i)[i - 1])
    BY <1>3
  <2>2. CASE i = 0
    BY <2>1, <2>2
  <2>3. CASE i # 0
    <3>1. i - 1 \in Nat /\ i - 1 <= i
      BY <2>3
    <3>2. G(i)[i - 1] = G(i - 1)[i - 1]
      BY <1>4, <3>1
    <3> QED
      BY <2>1, <3>1, <3>2
  <2> QED
    BY <2>2, <2>3
<1>6. F = [i \in Nat |-> i \in B /\ ~F[i - 1]]
  BY <1>5
<1> QED
  BY <1>6

LEMMA IsValueUnfolds ==
    \A i \in Nat : IsValue[i] = (/\ i \in 2..Len(line)
                                 /\ line[i - 1].kind = "bare" /\ line[i - 1].name \notin Switches[program]
                                 /\ ~IsValue[i - 1])
<1> DEFINE B == {i \in Nat : i \in 2..Len(line) /\ line[i - 1].kind = "bare" /\ line[i - 1].name \notin Switches[program]}
<1>1. PICK f : f = [i \in Nat |-> i \in B /\ ~f[i - 1]]
  <2>1. B \in SUBSET (Nat \ {0})
    OBVIOUS
  <2> HIDE DEF B
  <2> QED
    BY <2>1, Alternating
<1>2. f = [i \in Nat |-> /\ i \in 2..Len(line)
                         /\ line[i - 1].kind = "bare" /\ line[i - 1].name \notin Switches[program]
                         /\ ~f[i - 1]]
  BY <1>1
<1>3. IsValue = [i \in Nat |-> /\ i \in 2..Len(line)
                         /\ line[i - 1].kind = "bare" /\ line[i - 1].name \notin Switches[program]
                         /\ ~IsValue[i - 1]]
  BY <1>2, Zenon DEF IsValue
<1> QED
  BY <1>3

-----------------------------------------------------------------------------
\* The settings of the two programs.

LEMMA SettingsFacts ==
    ASSUME program \in Programs
    PROVE  /\ "config" \notin Settings /\ "config" \notin Switches[program]
           /\ "config" \notin Seconds[program] \cup Numbers[program]
           /\ MustBePositive[program] \subseteq Settings
           /\ Seconds[program] \subseteq Settings /\ Switches[program] \subseteq Settings
           /\ \A s \in Seconds[program] : s \notin Switches[program]
           /\ \A s \in Seconds[program] : Default(s) \in Int
<1> USE DEF Switches, Texts, Seconds, Numbers, Settings, MustBePositive
<1>0. /\ Default("store_interval") = 300 /\ Default("shutdown_timeout") = 5
      /\ Default("report_interval") = 10 /\ Default("poll_interval") = 2
  BY DEF Default
<1>1. CASE program = "server"
  <2>1. Seconds[program] = {"store_interval", "shutdown_timeout"}
    BY <1>1
  <2>2. \A s \in Seconds[program] : Default(s) \in Int
    BY <1>0, <2>1
  <2> QED
    BY <1>1, <2>2
<1>2. CASE program = "agent"
  <2>1. Seconds[program] = {"report_interval", "poll_interval", "shutdown_timeout"}
    BY <1>2
  <2>2. \A s \in Seconds[program] : Default(s) \in Int
    BY <1>0, <2>1
  <2> QED
    BY <1>2, <2>2
<1> QED
  BY <1>1, <1>2, ProgramsAssumption

-----------------------------------------------------------------------------
Sources == <<program, line, env, file>>

LEMMA ConstantReading ==
    ASSUME UNCHANGED Sources
    PROVE  /\ IsValue' = IsValue /\ Flags' = Flags /\ Settings' = Settings
           /\ \A s : FlagsFor(s)' = FlagsFor(s) /\ FlagValue(s)' = FlagValue(s)
           /\ \A i, s : ValueAt(i, s)' = ValueAt(i, s)
           /\ ReadsFile' = ReadsFile
           /\ \A s : Strongest(s)' = Strongest(s)
<1>0. UNCHANGED <<program, line, env, file>>
  BY DEF Sources
<1>1. IsValue' = IsValue
  BY <1>0 DEF IsValue
<1>2. Flags' = Flags
  BY <1>0, <1>1 DEF Flags
<1>3. \A s : FlagsFor(s)' = FlagsFor(s)
  BY <1>0, <1>2 DEF FlagsFor
<1>4. \A i, s : ValueAt(i, s)' = ValueAt(i, s)
  BY <1>0 DEF ValueAt, Parsed, AsValue, Type
<1>5. \A s : FlagValue(s)' = FlagValue(s)
  BY <1>3, <1>4 DEF FlagValue
<1>6. ReadsFile' = ReadsFile
  BY <1>0, <1>3, <1>5 DEF ReadsFile, Parsed, Type
<1>7. \A s : Strongest(s)' = Strongest(s)
  BY <1>0, <1>3, <1>5, <1>6 DEF Strongest, Usable, Parses, Parsed, Type, FromFile, Truncated
<1>8. Settings' = Settings
  BY <1>0 DEF Settings
<1> QED
  BY <1>1, <1>2, <1>3, <1>4, <1>5, <1>6, <1>7, <1>8

\* The flags for s among the first p tokens.
UpTo(p, s) == {i \in 1..p : ~IsValue[i] /\ line[i].name = s}

\* v is what the last of the flags in F sets s to, and default if there is none.
Says(F, s, v, default) ==
    IF F = {} THEN v = default ELSE \E i \in F : (\A j \in F : j <= i) /\ v = ValueAt(i, s)

\* flag has read p tokens.
Read(p) ==
    /\ p \in 0..Len(line)
    /\ rest \in Seq({line[i] : i \in DOMAIN line})
    /\ Len(rest) = Len(line) - p /\ \A i \in 1..Len(rest) : rest[i] = line[p + i]
    /\ ~IsValue[p + 1]
    /\ \A i \in 1..p : line[i].kind = "word" => IsValue[i]
    /\ Says(UpTo(p, "config"), "config", path, "")
    /\ \A s \in Settings : /\ s \in given <=> UpTo(p, s) # {}
                           /\ Says(UpTo(p, s), s, cfg[s], Default(s))

ByFlags(s) == IF FlagsFor(s) # {} THEN FlagValue(s) ELSE Default(s)
ByFile(s) == IF FlagsFor(s) = {} /\ ReadsFile /\ s \in DOMAIN file THEN FromFile(s, file[s])
             ELSE ByFlags(s)

Asked ==
    /\ at \in {"flags", "file", "env", "check", "ready"} =>
           /\ program \in Programs /\ line \in CommandLines /\ env \in Environments /\ file \in Files
           /\ DOMAIN cfg = Settings
           /\ \A s \in Seconds[program] : cfg[s] \in Int
    /\ at = "flags" => \E p \in Nat : Read(p)
    /\ at = "file" => /\ path = (IF FlagsFor("config") # {} THEN FlagValue("config") ELSE "")
                      /\ \A s \in Settings : /\ s \in given <=> FlagsFor(s) # {}
                                             /\ cfg[s] = ByFlags(s)
    /\ at = "env" => \A s \in Settings : cfg[s] = ByFile(s)
    /\ at = "check" => \A s \in Settings : cfg[s] = Strongest(s)
    /\ Precedence

\* One more token, that is a flag or its value.
LEMMA OneMore ==
    ASSUME NEW p \in Nat, p + 1 <= Len(line), ~IsValue[p + 1], line \in CommandLines, NEW s
    PROVE  UpTo(p + 1, s) = UpTo(p, s) \cup (IF line[p + 1].name = s THEN {p + 1} ELSE {})
<1>1. \A i : i \in 1..(p + 1) <=> i \in 1..p \/ i = p + 1
  OBVIOUS
<1> QED
  BY <1>1 DEF UpTo

LEMMA OneMoreValue ==
    ASSUME NEW p \in Nat, IsValue[p + 1], NEW s
    PROVE  UpTo(p + 1, s) = UpTo(p, s)
<1>1. \A i : i \in 1..(p + 1) <=> i \in 1..p \/ i = p + 1
  OBVIOUS
<1> QED
  BY <1>1 DEF UpTo

LEMMA SaysLast ==
    ASSUME NEW p \in Nat, NEW F, NEW s, NEW v, NEW d, F \subseteq 1..p, v = ValueAt(p + 1, s)
    PROVE  Says(F \cup {p + 1}, s, v, d)
<1>1. \A j \in F \cup {p + 1} : j <= p + 1
  OBVIOUS
<1> QED
  BY <1>1 DEF Says

\* What the whole command line says.
LEMMA SaysAll ==
    ASSUME NEW s, NEW v, NEW d, Says(FlagsFor(s), s, v, d)
    PROVE  v = IF FlagsFor(s) # {} THEN FlagValue(s) ELSE d
<1>1. CASE FlagsFor(s) = {}
  BY <1>1 DEF Says
<1>2. CASE FlagsFor(s) # {}
  <2>1. PICK i \in FlagsFor(s) : (\A j \in FlagsFor(s) : j <= i) /\ v = ValueAt(i, s)
    BY <1>2 DEF Says
  <2>2. FlagsFor(s) \subseteq Nat
    BY DEF FlagsFor, Flags
  <2>3. \A k \in FlagsFor(s) : (\A j \in FlagsFor(s) : j <= k) => k = i
    BY <2>1, <2>2
  <2>4. (CHOOSE k \in FlagsFor(s) : \A j \in FlagsFor(s) : j <= k) = i
    BY <2>1, <2>3
  <2> QED
    <3>1. FlagValue(s) = ValueAt(CHOOSE k \in FlagsFor(s) : \A j \in FlagsFor(s) : j <= k, s)
      BY DEF FlagValue
    <3> QED
      BY <1>2, <2>1, <2>4, <3>1
<1> QED
  BY <1>1, <1>2

LEMMA InitAsked == ConfigInit => Asked
<1> SUFFICES ASSUME ConfigInit PROVE Asked
  OBVIOUS
<1>0. /\ program \in Programs /\ line \in CommandLines /\ env \in Environments /\ file \in Files
      /\ rest = line /\ path = "" /\ given = {} /\ cfg = [s \in Settings |-> Default(s)] /\ at = "flags"
  BY DEF ConfigInit
<1>1. line \in Seq({line[i] : i \in DOMAIN line})
  BY <1>0, LinesAssumption
<1> DEFINE S == {line[i] : i \in DOMAIN line}
<1>6. line \in Seq(S)
  BY <1>1
<1> HIDE DEF S
<1>7. Len(line) \in Nat
  BY <1>6
<1>2. \A s : UpTo(0, s) = {}
  BY DEF UpTo
<1>3. ~IsValue[1]
  <2>1. IsValue[1] = (/\ 1 \in 2..Len(line)
                      /\ line[1 - 1].kind = "bare" /\ line[1 - 1].name \notin Switches[program]
                      /\ ~IsValue[1 - 1])
    BY IsValueUnfolds
  <2>2. ~(1 \in 2..Len(line))
    BY <1>7
  <2> QED
    BY <2>1, <2>2
<1>4. Read(0)
  <2>1. /\ rest \in Seq(S) /\ Len(rest) = Len(line) - 0 /\ 0 \in 0..Len(line)
        /\ \A i \in 1..Len(rest) : rest[i] = line[0 + i]
    <3>1. rest = line
      BY <1>0
    <3>2. Len(line) = Len(line) - 0 /\ 0 \in 0..Len(line) /\ \A i \in 1..Len(line) : 0 + i = i
      BY <1>7
    <3>3. \A i \in 1..Len(rest) : rest[i] = line[0 + i]
      BY <3>1, <3>2
    <3> QED
      BY <1>6, <3>1, <3>2, <3>3
  <2>2. \A s \in Settings : cfg[s] = Default(s) /\ s \notin given
    BY <1>0
  <2>3. ~IsValue[0 + 1] /\ \A i \in 1..0 : line[i].kind = "word" => IsValue[i]
    BY <1>3
  <2>4. Says(UpTo(0, "config"), "config", path, "")
    BY <1>0, <1>2 DEF Says
  <2>5. \A s \in Settings : (s \in given <=> UpTo(0, s) # {}) /\ Says(UpTo(0, s), s, cfg[s], Default(s))
    BY <1>2, <2>2 DEF Says
  <2> QED
    BY <2>1, <2>3, <2>4, <2>5 DEF Read, S
<1>5. DOMAIN cfg = Settings /\ \A s \in Seconds[program] : cfg[s] \in Int
  BY <1>0, SettingsFacts
<1> QED
  BY <1>0, <1>4, <1>5 DEF Asked, Precedence

\* What is left after n more tokens.
Rest(tokens, n) == /\ tokens \in Seq({line[i] : i \in DOMAIN line}) /\ Len(rest) = n + Len(tokens)
                   /\ \A i \in 1..Len(tokens) : tokens[i] = rest[n + i]

LEMMA SetFlagAsked ==
    ASSUME Asked, at = "flags", UNCHANGED Sources, NEW p \in Nat, Read(p), NEW n \in {1, 2}, p + n <= Len(line),
           line[p + 1].kind \in {"inline", "bare"}, NEW raw, IsRaw(raw), NEW remaining,
           n = 2 => IsValue[p + 2],
           \A s \in Settings \cup {"config"} : s = line[p + 1].name /\ Parses(s, raw) => ValueAt(p + 1, s) = Parsed(s, raw),
           ~IsValue[p + n + 1],
           Rest(remaining, n),
           SetFlag(line[p + 1].name, raw, remaining)
    PROVE  Asked'
<1> DEFINE t == line[p + 1].name
<1>1. CASE at' = "refused"
  BY <1>1 DEF Asked, Precedence
<1>2. CASE at' # "refused"
  <2>0. UNCHANGED <<program, line, env, file>> /\ at' = "flags"
    BY <1>2 DEF SetFlag, Refuse, Sources
  <2>1. /\ rest' = remaining
        /\ \/ t = "config" /\ path' = Parsed(t, raw) /\ UNCHANGED <<given, cfg>>
           \/ /\ t # "config" /\ t \in Settings /\ Parses(t, raw) /\ path' = path
              /\ cfg' = [cfg EXCEPT ![t] = Parsed(t, raw)] /\ given' = given \cup {t}
    BY <1>2 DEF SetFlag, Refuse
  <2>2. /\ program \in Programs /\ line \in CommandLines /\ env \in Environments /\ file \in Files
        /\ DOMAIN cfg = Settings /\ \A s \in Seconds[program] : cfg[s] \in Int
    BY DEF Asked
  <2>3. Len(line) \in Nat /\ line \in Seq({line[i] : i \in DOMAIN line})
    BY <2>2, LinesAssumption
  <2>8. /\ p \in 0..Len(line) /\ rest \in Seq({line[i] : i \in DOMAIN line})
        /\ Len(rest) = Len(line) - p /\ \A i \in 1..Len(rest) : rest[i] = line[p + i]
        /\ ~IsValue[p + 1] /\ \A i \in 1..p : line[i].kind = "word" => IsValue[i]
    BY DEF Read
  <2>9. /\ Says(UpTo(p, "config"), "config", path, "")
        /\ \A s \in Settings : (s \in given <=> UpTo(p, s) # {}) /\ Says(UpTo(p, s), s, cfg[s], Default(s))
    BY DEF Read
  <2>4. DOMAIN cfg' = Settings /\ Settings' = Settings
    BY <2>1, <2>2, <2>0 DEF Settings
  <2>5. \A s \in Seconds[program] : cfg'[s] \in Int
    <3>1. CASE t = "config"
      BY <2>1, <2>2, <3>1
    <3>2. CASE t # "config"
      <4>1. t \in Seconds[program] => Parsed(t, raw) \in Int
        BY <2>1, <3>2, <2>2, SettingsFacts DEF Parses, Parsed, Type, IsRaw
      <4>2. \A s \in Seconds[program] : s \in Settings
        BY DEF Settings
      <4> QED
        BY <2>1, <2>2, <3>2, <4>1, <4>2
    <3> QED
      BY <3>1, <3>2
  <2>6. p + n \in Nat
    OBVIOUS
  <2>7. Read(p + n)'
    <3>1. /\ p + n \in 0..Len(line)
          /\ rest' \in Seq({line[i] : i \in DOMAIN line})
          /\ Len(rest') = Len(line) - (p + n) /\ \A i \in 1..Len(rest') : rest'[i] = line[p + n + i]
      <4> DEFINE S == {line[i] : i \in DOMAIN line}
      <4>1. rest \in Seq(S) /\ Len(rest) = Len(line) - p /\ p \in 0..Len(line)
            /\ \A i \in 1..Len(rest) : rest[i] = line[p + i]
        BY <2>8
      <4> HIDE DEF S
      <4>2. rest' = remaining /\ Len(rest) \in Nat
        BY <2>1, <4>1
      <4>0. remaining \in Seq(S) /\ Len(rest) = n + Len(remaining)
            /\ \A i \in 1..Len(remaining) : remaining[i] = rest[n + i]
        BY DEF S, Rest
      <4>3. rest' \in Seq(S) /\ Len(rest') \in Nat /\ Len(rest) = n + Len(rest')
            /\ \A i \in 1..Len(rest') : rest'[i] = rest[n + i]
        BY <4>0, <4>2
      <4>4. \A i \in 1..Len(rest') : n + i \in 1..Len(rest) /\ p + (n + i) = p + n + i
        BY <4>1, <4>2, <4>3
      <4>5. p + n \in 0..Len(line) /\ Len(rest') = Len(line) - (p + n)
        <5>1. p + n <= Len(line) /\ Len(line) \in Nat /\ n \in Nat
          BY <2>3
        <5>2. Len(rest) = Len(line) - p /\ Len(rest) = n + Len(rest') /\ Len(rest') \in Nat
          BY <4>1, <4>3
        <5> QED
          BY <5>1, <5>2
      <4>6. \A i \in 1..Len(rest') : rest'[i] = line[p + n + i]
        BY <4>1, <4>3, <4>4
      <4> QED
        BY <4>3, <4>5, <4>6 DEF S
    <3>2. \A i \in 1..(p + n) : line[i].kind = "word" => IsValue[i]
      <4>1. \A i \in 1..(p + n) : i \in 1..p \/ i = p + 1 \/ (n = 2 /\ i = p + 2)
        OBVIOUS
      <4> QED
        BY <2>8, <4>1
    <3>3. ASSUME NEW s PROVE UpTo(p + n, s) = UpTo(p, s) \cup (IF t = s THEN {p + 1} ELSE {})
      <4>1. UpTo(p + 1, s) = UpTo(p, s) \cup (IF t = s THEN {p + 1} ELSE {})
        <5>1. p + 1 <= Len(line) /\ ~IsValue[p + 1]
          BY <2>3, <2>8
        <5> QED
          BY <2>2, <5>1, OneMore
      <4>2. CASE n = 1
        BY <4>1, <4>2
      <4>3. CASE n = 2
        <5>1. p + 1 \in Nat /\ (p + 1) + 1 = p + n /\ IsValue[(p + 1) + 1]
          BY <4>3
        <5>2. UpTo((p + 1) + 1, s) = UpTo(p + 1, s)
          BY ONLY <5>1, OneMoreValue
        <5> QED
          BY <4>1, <5>1, <5>2
      <4> QED
        BY <4>2, <4>3
    <3>4. \A s : UpTo(p, s) \subseteq 1..p
      BY DEF UpTo
    <3>5. \A s : UpTo(p + n, s)' = UpTo(p + n, s) /\ \A i : ValueAt(i, s)' = ValueAt(i, s)
      BY <2>0, ConstantReading DEF Sources, UpTo
    <3>6. Says(UpTo(p + n, "config"), "config", path', "")
      <4>1. CASE t = "config"
        <5>1. path' = ValueAt(p + 1, "config") /\ UpTo(p + n, "config") = UpTo(p, "config") \cup {p + 1}
          <6>1. Parses("config", raw)
            BY <2>2, SettingsFacts DEF Parses, Type
          <6> QED
            BY <2>1, <3>3, <4>1, <6>1
        <5> DEFINE F == UpTo(p, "config")
                   v == path'
        <5>2. F \subseteq 1..p /\ v = ValueAt(p + 1, "config") /\ UpTo(p + n, "config") = F \cup {p + 1}
          BY <3>4, <5>1
        <5> HIDE DEF F, v
        <5>3. Says(F \cup {p + 1}, "config", v, "")
          BY ONLY p \in Nat, <5>2, SaysLast
        <5> QED
          BY <5>2, <5>3 DEF v
      <4>2. CASE t # "config"
        <5>1. UpTo(p + n, "config") = UpTo(p, "config") /\ path' = path
          <6>1. UpTo(p + n, "config") = UpTo(p, "config") \cup {}
            BY ONLY <3>3, <4>2
          <6>2. path' = path
            BY <2>1, <4>2
          <6> QED
            BY ONLY <6>1, <6>2
        <5> QED
          BY <2>9, <5>1
      <4> QED
        BY <4>1, <4>2
    <3>7. ASSUME NEW s \in Settings
          PROVE  /\ s \in given' <=> UpTo(p + n, s) # {}
                 /\ Says(UpTo(p + n, s), s, cfg'[s], Default(s))
      <4>1. CASE t = s
        <5>0. t # "config"
          BY <2>2, <4>1, SettingsFacts
        <5>1. UpTo(p + n, s) = UpTo(p, s) \cup {p + 1} /\ s \in given'
          BY <2>1, <3>3, <4>1, <5>0
        <5>2. cfg'[s] = ValueAt(p + 1, s)
          BY <2>1, <2>2, <4>1, <5>0
        <5>3. Says(UpTo(p, s) \cup {p + 1}, s, cfg'[s], Default(s))
          <6> DEFINE v == cfg'[s]
          <6>1. v = ValueAt(p + 1, s)
            BY <5>2
          <6> HIDE DEF v
          <6>2. Says(UpTo(p, s) \cup {p + 1}, s, v, Default(s))
            BY <3>4, <6>1, SaysLast
          <6> QED
            BY <6>2 DEF v
        <5> QED
          BY <5>1, <5>3
      <4>2. CASE t # s
        <5>1. UpTo(p + n, s) = UpTo(p, s)
          BY <3>3, <4>2
        <5>2. cfg'[s] = cfg[s] /\ (s \in given' <=> s \in given)
          BY <2>1, <2>2, <4>2
        <5> QED
          BY <2>9, <5>1, <5>2
      <4> QED
        BY <4>1, <4>2
    <3>8. ~IsValue'[p + n + 1] /\ IsValue' = IsValue
      BY ConstantReading
    <3>9. (\A s \in Settings : /\ s \in given <=> UpTo(p + n, s) # {}
                               /\ Says(UpTo(p + n, s), s, cfg[s], Default(s)))'
      BY <2>4, <3>5, <3>7 DEF Says
    <3>10. Says(UpTo(p + n, "config"), "config", path, "")'
      BY <3>5, <3>6 DEF Says
    <3>11. ~IsValue'[p + n + 1] /\ \A i \in 1..(p + n) : line'[i].kind = "word" => IsValue'[i]
      BY <2>0, <3>2, <3>8
    <3>12. /\ p + n \in 0..Len(line')
           /\ rest' \in Seq({line'[i] : i \in DOMAIN line'})
           /\ Len(rest') = Len(line') - (p + n) /\ \A i \in 1..Len(rest') : rest'[i] = line'[p + n + i]
      BY <2>0, <3>1
    <3> QED
      BY <3>9, <3>10, <3>11, <3>12 DEF Read
  <2> QED
    BY <2>0, <2>2, <2>4, <2>5, <2>6, <2>7 DEF Asked, Precedence
<1> QED
  BY <1>1, <1>2

LEMMA ParseFlagAsked == ASSUME Asked, ParseFlag PROVE Asked'
<1> DEFINE S == {line[i] : i \in DOMAIN line}
<1>1. at = "flags" /\ AtFlag /\ UNCHANGED Sources
  BY DEF ParseFlag, Sources
<1>2. program \in Programs /\ line \in CommandLines
  BY <1>1 DEF Asked
<1>3. PICK p \in Nat : Read(p)
  BY <1>1 DEF Asked
<1>4. /\ p \in 0..Len(line) /\ rest \in Seq(S)
      /\ Len(rest) = Len(line) - p /\ \A i \in 1..Len(rest) : rest[i] = line[p + i]
      /\ ~IsValue[p + 1]
  BY <1>3 DEF Read
<1>5. line \in Seq(S) /\ \A i \in DOMAIN line : line[i].kind # "bare" => IsRaw(line[i].raw)
  BY <1>2, LinesAssumption
<1> HIDE DEF S
<1>6. Len(line) \in Nat /\ Len(rest) \in Nat /\ DOMAIN line = 1..Len(line)
  BY <1>4, <1>5
<1>7. rest # <<>> /\ Len(rest) # 0 /\ Head(rest) = rest[1] /\ rest[1] = line[p + 1]
  BY <1>1, <1>4, <1>6 DEF AtFlag
<1>8. p + 1 <= Len(line) /\ p + 1 \in DOMAIN line
  BY <1>4, <1>6, <1>7
<1>9. \A i \in Nat : IsValue[i] = (/\ i \in 2..Len(line)
                                   /\ line[i - 1].kind = "bare" /\ line[i - 1].name \notin Switches[program]
                                   /\ ~IsValue[i - 1])
  BY IsValueUnfolds
<1>10. p + 2 \in Nat /\ (p + 2) - 1 = p + 1 /\ p + 1 + 1 = p + 2 /\ 1 \in {1, 2} /\ 2 \in {1, 2}
  OBVIOUS
<1>a. IsValue[p + 2] = (/\ p + 2 \in 2..Len(line)
                        /\ line[p + 1].kind = "bare" /\ line[p + 1].name \notin Switches[program]
                        /\ ~IsValue[p + 1])
  BY <1>9, <1>10
<1> DEFINE t == line[p + 1]
<1>11. \/ t.kind = "inline" /\ SetFlag(t.name, t.raw, Tail(rest))
       \/ /\ t.kind = "bare" /\ t.name \in Switches[program]
          /\ SetFlag(t.name, [type |-> "bool", value |-> TRUE], Tail(rest))
       \/ /\ t.kind = "bare" /\ t.name \notin Switches[program]
          /\ IF Len(rest) = 1 THEN Refuse
             ELSE SetFlag(t.name, AsValue(rest[2]), SubSeq(rest, 3, Len(rest)))
  BY <1>7 DEF ParseFlag
<1>12. Rest(Tail(rest), 1)
  <2>1. Tail(rest) \in Seq(S) /\ Len(Tail(rest)) = Len(rest) - 1
        /\ \A i \in 1..Len(Tail(rest)) : Tail(rest)[i] = rest[i + 1]
    BY <1>4, <1>7, HeadTailProperties
  <2>2. \A i \in 1..Len(Tail(rest)) : i + 1 = 1 + i
    OBVIOUS
  <2>3. Len(rest) = 1 + Len(Tail(rest))
    BY <1>6, <2>1
  <2> QED
    BY <2>1, <2>2, <2>3 DEF S, Rest
<1>13. CASE t.kind = "inline" /\ SetFlag(t.name, t.raw, Tail(rest))
  <2>1. IsRaw(t.raw)
    BY <1>5, <1>8, <1>13
  <2>2. ~IsValue[p + 1 + 1]
    BY <1>a, <1>10, <1>13
  <2>3. \A s \in Settings \cup {"config"} : s = t.name /\ Parses(s, t.raw) => ValueAt(p + 1, s) = Parsed(s, t.raw)
    BY <1>13 DEF ValueAt
  <2> DEFINE raw == t.raw
             remaining == Tail(rest)
  <2>4. /\ IsRaw(raw) /\ SetFlag(t.name, raw, remaining) /\ t.kind \in {"inline", "bare"}
        /\ \A s \in Settings \cup {"config"} : s = t.name /\ Parses(s, raw) => ValueAt(p + 1, s) = Parsed(s, raw)
        /\ Rest(remaining, 1)
    BY <1>12, <1>13, <2>1, <2>3
  <2> HIDE DEF raw, remaining
  <2> QED
    BY <1>1, <1>3, <1>8, <1>10, <2>2, <2>4, SetFlagAsked
<1>14. CASE /\ t.kind = "bare" /\ t.name \in Switches[program]
            /\ SetFlag(t.name, [type |-> "bool", value |-> TRUE], Tail(rest))
  <2> DEFINE raw == [type |-> "bool", value |-> TRUE]
  <2>1. IsRaw(raw)
    BY DEF IsRaw
  <2>2. ~IsValue[p + 1 + 1]
    BY <1>a, <1>10, <1>14
  <2>3. \A s \in Settings \cup {"config"} : s = t.name /\ Parses(s, raw) => ValueAt(p + 1, s) = Parsed(s, raw)
    BY <1>14 DEF ValueAt, Parsed, Type
  <2> DEFINE remaining == Tail(rest)
  <2>4. /\ SetFlag(t.name, raw, remaining) /\ t.kind \in {"inline", "bare"}
        /\ Rest(remaining, 1)
    BY <1>12, <1>14
  <2> HIDE DEF raw, remaining
  <2> QED
    BY <1>1, <1>3, <1>8, <1>10, <2>1, <2>2, <2>3, <2>4, SetFlagAsked
<1>15. CASE /\ t.kind = "bare" /\ t.name \notin Switches[program]
            /\ Len(rest) # 1 /\ SetFlag(t.name, AsValue(rest[2]), SubSeq(rest, 3, Len(rest)))
  <2>1. 2 \in 1..Len(rest) /\ p + 2 <= Len(line) /\ p + 2 \in 2..Len(line) /\ p + 2 \in DOMAIN line
    BY <1>4, <1>6, <1>7, <1>15
  <2>2. rest[2] = line[p + 2]
    BY <1>4, <2>1
  <2>3. IsValue[p + 2]
    BY <1>4, <1>a, <1>15, <2>1
  <2>4. ~IsValue[p + 2 + 1]
    <3>1. p + 3 \in Nat /\ (p + 3) - 1 = p + 2 /\ p + 3 = p + 2 + 1
      OBVIOUS
    <3> QED
      BY <1>9, <2>3, <3>1
  <2> DEFINE raw == AsValue(rest[2])
  <2>5. IsRaw(raw)
    BY <1>5, <2>1, <2>2 DEF IsRaw, AsValue
  <2>6. \A s \in Settings \cup {"config"} : s = t.name /\ Parses(s, raw) => ValueAt(p + 1, s) = Parsed(s, raw)
    BY <1>10, <1>15, <2>2 DEF ValueAt
  <2> DEFINE remaining == SubSeq(rest, 3, Len(rest))
  <2>7. /\ SetFlag(t.name, raw, remaining) /\ t.kind \in {"inline", "bare"}
        /\ Rest(remaining, 2)
    <3>1. Len(rest) >= 2 /\ 3 \in 1..(Len(rest) + 1) /\ Len(rest) \in 2..Len(rest)
      BY <1>6, <2>1
    <3>2. /\ remaining \in Seq(S) /\ Len(remaining) = IF 3 <= Len(rest) THEN Len(rest) - 3 + 1 ELSE 0
          /\ \A i \in 1..Len(remaining) : remaining[i] = rest[2 + i]
      BY <1>4, <1>6, <3>1
    <3>0. SetFlag(t.name, raw, remaining)
      BY <1>15
    <3> HIDE DEF remaining
    <3>3. Len(rest) = 2 + Len(remaining)
      <4>1. CASE Len(rest) = 2
        BY <3>2, <4>1
      <4>2. CASE Len(rest) >= 3
        BY <1>6, <3>2, <4>2
      <4>3. Len(rest) = 2 \/ Len(rest) >= 3
        <5> DEFINE k == Len(rest)
        <5>1. k \in Nat /\ k >= 2
          BY <1>6, <3>1
        <5> HIDE DEF k
        <5>2. k = 2 \/ k >= 3
          BY <5>1
        <5> QED
          BY <5>2 DEF k
      <4> QED
        BY <4>1, <4>2, <4>3
    <3>4. Rest(remaining, 2)
      BY <3>2, <3>3 DEF S, Rest
    <3> QED
      BY <1>15, <3>0, <3>4
  <2> HIDE DEF raw, remaining
  <2> QED
    BY <1>1, <1>3, <1>10, <2>1, <2>3, <2>4, <2>5, <2>6, <2>7, SetFlagAsked
<1>16. CASE Refuse
  BY <1>16 DEF Refuse, Asked, Precedence
<1> QED
  BY <1>11, <1>13, <1>14, <1>15, <1>16

LEMMA EndFlagsAsked == ASSUME Asked, EndFlags PROVE Asked'
<1> DEFINE S == {line[i] : i \in DOMAIN line}
<1>1. at = "flags" /\ ~AtFlag /\ at' = "file" /\ UNCHANGED <<Sources, given, path, cfg>>
  BY DEF EndFlags, Sources
<1>2. /\ program \in Programs /\ line \in CommandLines /\ env \in Environments /\ file \in Files
      /\ DOMAIN cfg = Settings /\ \A s \in Seconds[program] : cfg[s] \in Int
  BY <1>1 DEF Asked
<1>3. PICK p \in Nat : Read(p)
  BY <1>1 DEF Asked
<1>4. /\ p \in 0..Len(line) /\ rest \in Seq(S)
      /\ Len(rest) = Len(line) - p /\ \A i \in 1..Len(rest) : rest[i] = line[p + i]
      /\ ~IsValue[p + 1] /\ \A i \in 1..p : line[i].kind = "word" => IsValue[i]
  BY <1>3 DEF Read
<1>5. line \in Seq(S)
  BY <1>2, LinesAssumption
<1> HIDE DEF S
<1>6. Len(line) \in Nat /\ Len(rest) \in Nat
  BY <1>4, <1>5
<1>7. p = Len(line) \/ (p + 1 <= Len(line) /\ line[p + 1].kind = "word")
  <2>1. CASE rest = <<>>
    BY <1>4, <1>6, <2>1
  <2>2. CASE rest # <<>>
    <3>1. Len(rest) # 0 /\ Head(rest) = rest[1]
      BY <1>4, <2>2
    <3>2. rest[1] = line[p + 1] /\ p + 1 <= Len(line)
      <4>1. 1 \in 1..Len(rest) /\ p + 1 <= Len(line)
        <5>1. Len(rest) = Len(line) - p /\ p \in 0..Len(line)
          BY <1>4
        <5> QED
          BY ONLY <1>6, <3>1, <5>1
      <4> QED
        BY <1>4, <4>1
    <3> QED
      BY <1>1, <2>2, <3>1, <3>2 DEF AtFlag
  <2> QED
    BY <2>1, <2>2
<1>8. \A i \in 1..Len(line) : (\A j \in 1..i : line[j].kind = "word" => IsValue[j]) <=> i \in 1..p
  <2> SUFFICES ASSUME NEW i \in 1..Len(line)
               PROVE  (\A j \in 1..i : line[j].kind = "word" => IsValue[j]) <=> i \in 1..p
    OBVIOUS
  <2>1. CASE i <= p
    <3>1. \A j \in 1..i : j \in 1..p
      BY <2>1
    <3> QED
      BY <1>4, <2>1, <3>1
  <2>2. CASE i > p
    <3>1. p + 1 \in 1..i /\ line[p + 1].kind = "word" /\ ~IsValue[p + 1]
      BY <1>4, <1>6, <1>7, <2>2
    <3> QED
      BY <2>2, <3>1
  <2> QED
    BY <2>1, <2>2
<1>9. Flags = {i \in 1..p : ~IsValue[i]}
  <2>1. \A i \in 1..p : i \in 1..Len(line)
    BY <1>4, <1>6
  <2> QED
    BY <1>8, <2>1 DEF Flags
<1>10. \A s : FlagsFor(s) = UpTo(p, s)
  BY <1>9 DEF FlagsFor, UpTo
<1>11. path = IF FlagsFor("config") # {} THEN FlagValue("config") ELSE ""
  <2>1. Says(FlagsFor("config"), "config", path, "")
    BY <1>3, <1>10 DEF Read
  <2> QED
    BY <2>1, SaysAll
<1>12. ASSUME NEW s \in Settings PROVE (s \in given <=> FlagsFor(s) # {}) /\ cfg[s] = ByFlags(s)
  <2>1. Says(FlagsFor(s), s, cfg[s], Default(s)) /\ (s \in given <=> FlagsFor(s) # {})
    BY <1>3, <1>10 DEF Read
  <2> QED
    BY <2>1, SaysAll DEF ByFlags
<1>13. UNCHANGED <<program, line, env, file, path, given, cfg>>
  BY <1>1 DEF Sources
<1>14. /\ Settings' = Settings /\ \A s : FlagsFor(s)' = FlagsFor(s) /\ FlagValue(s)' = FlagValue(s)
       /\ \A s : ByFlags(s)' = ByFlags(s)
  BY <1>1, ConstantReading DEF ByFlags
<1> QED
  BY <1>1, <1>2, <1>11, <1>12, <1>13, <1>14 DEF Asked, Precedence

LEMMA ApplyFileAsked == ASSUME Asked, ApplyFile PROVE Asked'
<1>1. at = "file" /\ UNCHANGED <<program, line, env, file>>
  BY DEF ApplyFile
<1>2. /\ program \in Programs /\ line \in CommandLines /\ env \in Environments /\ file \in Files
      /\ DOMAIN cfg = Settings /\ \A s \in Seconds[program] : cfg[s] \in Int
      /\ path = (IF FlagsFor("config") # {} THEN FlagValue("config") ELSE "")
      /\ \A s \in Settings : (s \in given <=> FlagsFor(s) # {}) /\ cfg[s] = ByFlags(s)
  BY <1>1 DEF Asked
<1>3. ReadsFile <=> ConfigPath # ""
  BY <1>2 DEF ReadsFile, ConfigPath
<1>4. Settings' = Settings /\ \A s : ByFile(s)' = ByFile(s)
  <2>1. UNCHANGED Sources
    BY <1>1 DEF Sources
  <2>2. \A s : FlagsFor(s)' = FlagsFor(s) /\ FlagValue(s)' = FlagValue(s)
    BY <2>1, ConstantReading
  <2>3. ReadsFile' = ReadsFile /\ Settings' = Settings
    BY <2>1, ConstantReading
  <2>4. \A s : ByFlags(s)' = ByFlags(s)
    BY <2>2 DEF ByFlags
  <2>5. \A s : FromFile(s, file[s])' = FromFile(s, file[s])
    BY <1>1 DEF FromFile, Truncated, Parsed, Type
  <2> QED
    BY <1>1, <2>2, <2>3, <2>4, <2>5 DEF ByFile
<1>5. CASE at' = "refused"
  BY <1>5 DEF Asked, Precedence
<1>6. CASE ConfigPath = "" /\ at' = "env" /\ UNCHANGED <<rest, path, given, cfg>>
  <2>1. \A s \in Settings : cfg[s] = ByFile(s)
    BY <1>2, <1>3, <1>6 DEF ByFile
  <2> QED
    BY <1>1, <1>2, <1>4, <1>6, <2>1 DEF Asked, Precedence
<1>7. CASE /\ ConfigPath # "" /\ file # Unreadable /\ at' = "env"
           /\ \A s \in Keys : ~OverDefaults(s) \/ IsDuration(s, file[s])
           /\ cfg' = [s \in Settings |-> IF OverDefaults(s) THEN FromFile(s, file[s]) ELSE cfg[s]]
  <2>1. ReadsFile
    BY <1>3, <1>7
  <2>2. \A s \in Settings : cfg'[s] = ByFile(s)
    BY <1>2, <1>7, <2>1 DEF ByFile, ByFlags, OverDefaults
  <2>3. DOMAIN cfg' = Settings
    BY <1>7
  <2>4. ASSUME NEW s \in Seconds[program] PROVE cfg'[s] \in Int
    <3>1. s \in Settings
      BY <1>2, SettingsFacts
    <3>2. CASE OverDefaults(s)
      <4>1. s \in DOMAIN file /\ s \in Keys
        BY <3>1, <3>2 DEF OverDefaults, Keys
      <4>2. file[s].type = "ms" /\ IsRaw(file[s])
        BY <1>2, <1>7, <3>2, <4>1, SourcesAssumption DEF IsDuration
      <4>3. file[s].value \in Int
        BY <4>2 DEF IsRaw
      <4>4. Truncated(file[s].value) \in Int
        BY <4>3 DEF Truncated
      <4> QED
        BY <1>7, <3>1, <3>2, <4>4 DEF FromFile
    <3>3. CASE ~OverDefaults(s)
      BY <1>2, <1>7, <3>1, <3>3
    <3> QED
      BY <3>2, <3>3
  <2> QED
    BY <1>1, <1>2, <1>4, <1>7, <2>2, <2>3, <2>4 DEF Asked, Precedence
<1> QED
  BY <1>5, <1>6, <1>7 DEF ApplyFile, Refuse

LEMMA ReadEnvAsked == ASSUME Asked, ReadEnv PROVE Asked'
<1>1. /\ at = "env" /\ at' = "check" /\ UNCHANGED <<program, line, env, file>>
      /\ cfg' = [s \in Settings |-> IF Usable(s) THEN Parsed(s, env[s]) ELSE cfg[s]]
  BY DEF ReadEnv
<1>2. /\ program \in Programs /\ line \in CommandLines /\ env \in Environments /\ file \in Files
      /\ DOMAIN cfg = Settings /\ \A s \in Seconds[program] : cfg[s] \in Int
      /\ \A s \in Settings : cfg[s] = ByFile(s)
  BY <1>1 DEF Asked
<1>3. Settings' = Settings /\ \A s : Strongest(s)' = Strongest(s)
  BY <1>1, ConstantReading DEF Sources
<1>4. \A s \in Settings : cfg'[s] = Strongest(s)
  <2> SUFFICES ASSUME NEW s \in Settings PROVE cfg'[s] = Strongest(s)
    OBVIOUS
  <2>1. CASE Usable(s)
    BY <1>1, <2>1 DEF Strongest
  <2>2. CASE ~Usable(s)
    <3>1. cfg'[s] = ByFile(s)
      BY <1>1, <1>2, <2>2
    <3>2. ByFile(s) = Strongest(s)
      BY <2>2 DEF ByFile, ByFlags, Strongest
    <3> QED
      BY <3>1, <3>2
  <2> QED
    BY <2>1, <2>2
<1>5. ASSUME NEW s \in Seconds[program] PROVE cfg'[s] \in Int
  <2>1. s \in Settings /\ s \notin Switches[program]
    BY <1>2, SettingsFacts
  <2>2. CASE Usable(s)
    <3>1. s \in DOMAIN env /\ Type(s) = "int" /\ env[s].type = "int" /\ IsRaw(env[s])
      BY <1>2, <2>1, <2>2, SourcesAssumption DEF Usable, Parses, Type
    <3>2. Parsed(s, env[s]) \in Int
      BY <3>1 DEF Parsed, IsRaw
    <3> QED
      BY <1>1, <2>1, <2>2, <3>2
  <2>3. CASE ~Usable(s)
    BY <1>1, <1>2, <2>1, <2>3
  <2> QED
    BY <2>2, <2>3
<1>6. DOMAIN cfg' = Settings
  BY <1>1
<1> QED
  BY <1>1, <1>2, <1>3, <1>4, <1>5, <1>6 DEF Asked, Precedence

LEMMA CheckAsked == ASSUME Asked, Check PROVE Asked'
<1>1. /\ at = "check" /\ UNCHANGED <<program, line, env, file>> /\ cfg' = cfg
      /\ at' = "refused" \/ (Valid /\ at' = "ready")
  BY DEF Check, Refuse
<1>2. /\ program \in Programs /\ line \in CommandLines /\ env \in Environments /\ file \in Files
      /\ DOMAIN cfg = Settings /\ \A s \in Seconds[program] : cfg[s] \in Int
      /\ \A s \in Settings : cfg[s] = Strongest(s)
  BY <1>1 DEF Asked
<1>3. Settings' = Settings /\ \A s : Strongest(s)' = Strongest(s)
  BY <1>1, ConstantReading DEF Sources
<1>4. MustBePositive[program] \subseteq Settings
  BY <1>2, SettingsFacts
<1>5. Valid => \A s \in MustBePositive[program] : Strongest(s) > 0
  BY <1>2, <1>4 DEF Valid
<1> QED
  BY <1>1, <1>2, <1>3, <1>5 DEF Asked, Precedence

-----------------------------------------------------------------------------
\* The life of the server.

Before == {"flags", "file", "env", "check", "ready", "refused"}
Closing == {"grpc", "save", "audit", "pool", "exited"}
InFile == mode \in {"sync", "periodic", "final"}

Typed ==
    /\ at \in Before \cup Stages \cup {"exited", "fatal"}
    /\ mode \in {"none", "final", "periodic", "sync", "db"}
    /\ call \in [Requests -> {"none", "serving", "saving", "stored", "failed", "answered"}]
    /\ snapshot \in [Savers -> (SUBSET (Requests \cup {Old})) \cup {None}]
    /\ memory \subseteq Requests \cup {Old} /\ kept \subseteq Requests \cup {Old}
    /\ answered \subseteq Requests
    /\ audits \subseteq Sinks
    /\ event \in [Sinks -> [Http -> {"none", "queued", "dropped", "logged", "failed"}]]
    /\ owed \in [Savers -> SUBSET Requests] /\ due \subseteq Requests /\ missed \subseteq Requests
    /\ {overlapped, rushed, unsaved, restored} \subseteq BOOLEAN

\* What main has not started yet, and what it has closed.
Listening ==
    /\ at \in Before \cup {"setup"} =>
           http = "off" /\ grpc = "off" /\ answered = {} /\ \A r \in Requests : call[r] = "none"
    /\ at = "listen" => grpc = "off"
    /\ at \in {"http"} \cup Closing => http = "closed"
    /\ at \in Closing => grpc # "open"

\* The stages that did not end by the timeout have waited for the requests.
Quiet ==
    ~rushed => /\ at \in Closing => \A r \in Http : ~InFlight(r)
               /\ at \in Closing \ {"grpc"} => \A r \in Requests : ~InFlight(r)

\* Where the updates are that have been applied.
Stored ==
    /\ at \in Before => memory = {} /\ kept = {Old} /\ ~restored
    /\ at \in Before \/ ~InFile => \A a \in Savers : snapshot[a] = None
    /\ snapshot[Main] # None => at = "save"
    /\ \A r \in Requests :
           /\ call[r] = "saving" => mode = "sync"
           /\ call[r] \in {"saving", "stored", "answered"} => r \in (IF mode = "db" THEN kept ELSE memory)
           /\ snapshot[r] # None => call[r] = "saving" /\ r \in snapshot[r]
           /\ r \in answered => call[r] = "answered"
    /\ \A a \in Savers : snapshot[a] # None => owed[a] \subseteq snapshot[a]
    /\ mode # "db" => /\ kept \ {Old} \subseteq memory
                      /\ \A a \in Savers : snapshot[a] # None => snapshot[a] \subseteq memory

Restored ==
    restored => /\ Old \in memory /\ Old \in kept
                /\ \A a \in Savers : snapshot[a] # None => Old \in snapshot[a]

\* While Saves do not overlap the file loses nothing.
Saved ==
    ~overlapped =>
        /\ \A a, b \in Savers : snapshot[a] # None /\ snapshot[b] # None => a = b
        /\ \A a \in Savers : snapshot[a] # None => kept \ {Old} \subseteq snapshot[a]
        /\ due \subseteq kept
        /\ mode = "sync" =>
               \A r \in Requests : call[r] \in {"stored", "answered"} => r \in kept \cup missed

\* What the final Save writes.
LastSave ==
    ~rushed /\ ~overlapped /\ InFile =>
        /\ at = "save" /\ snapshot[Main] # None => answered \subseteq snapshot[Main]
        /\ at \in {"audit", "pool", "exited"} /\ ~unsaved =>
               /\ answered \subseteq kept
               /\ \A a \in Savers : snapshot[a] # None => answered \subseteq snapshot[a]

\* The events of answered updates.
Audited ==
    \A s \in Sinks, r \in Http :
        /\ s \in audits /\ ~rushed /\ r \in answered => event[s][r] # "none"
        /\ event[s][r] # "none" => call[r] = "answered"
        /\ at \in {"pool", "exited"} => event[s][r] # "queued"

\* A sink whose queue has dropped an event has been sent many.
Crowded ==
    \A s \in Sinks, r \in Http : event[s][r] = "dropped" => Cardinality(Published(s)) > BufferSize

Inv == Typed /\ Listening /\ Quiet /\ Stored /\ Restored /\ Saved /\ LastSave /\ Audited /\ Crowded

Sets == (SUBSET (Requests \cup {Old})) \cup {None}

\* What Copy and Replace do.
Copied(a) ==
    /\ snapshot[a] = None /\ snapshot' \in [Savers -> Sets]
    /\ \A b \in Savers : snapshot'[b] = IF b = a THEN memory ELSE snapshot[b]
    /\ overlapped' \in BOOLEAN
    /\ ~overlapped' => ~overlapped /\ \A b \in Savers : snapshot[b] = None
    /\ owed' \in [Savers -> SUBSET Requests]
    /\ \A b \in Savers : owed'[b] = IF b = a THEN answered ELSE owed[b]
    /\ UNCHANGED <<memory, kept, missed, due, unsaved>>

Replaced(a, ok) ==
    /\ snapshot[a] # None /\ snapshot' \in [Savers -> Sets]
    /\ snapshot[a] \subseteq Requests \cup {Old}
    /\ \A b \in Savers : snapshot'[b] = IF b = a THEN None ELSE snapshot[b]
    /\ kept' = snapshot[a] \/ kept' = kept
    /\ ok => kept' = snapshot[a]
    /\ UNCHANGED <<memory, overlapped>>

\* What Replace makes of the history.
Settled(a, ok) ==
    /\ owed' \in [Savers -> SUBSET Requests] /\ due' \subseteq Requests
    /\ \A b \in Savers : owed'[b] = IF b = a THEN {} ELSE owed[b]
    /\ due' = due \/ (kept' = snapshot[a] /\ due' = due \cup owed[a])
    /\ due' = due \/ ok

LEMMA CopyEffect == ASSUME Typed, NEW a \in Savers, Copy(a) PROVE Copied(a)
<1>1. /\ snapshot' = [snapshot EXCEPT ![a] = memory] /\ memory \in Sets
      /\ snapshot \in [Savers -> Sets]
  BY DEF Typed, Copy, Sets
<1>2. /\ owed' = [owed EXCEPT ![a] = answered] /\ answered \in SUBSET Requests
      /\ owed \in [Savers -> SUBSET Requests]
  BY DEF Typed, Copy
<1>3. snapshot' \in [Savers -> Sets] /\ \A b \in Savers : snapshot'[b] = IF b = a THEN memory ELSE snapshot[b]
  BY <1>1
<1>4. owed' \in [Savers -> SUBSET Requests] /\ \A b \in Savers : owed'[b] = IF b = a THEN answered ELSE owed[b]
  BY <1>2
<1>5. /\ snapshot[a] = None /\ overlapped' = (overlapped \/ \E b \in Savers : snapshot[b] # None)
      /\ UNCHANGED <<memory, kept, missed, due, unsaved>> /\ overlapped \in BOOLEAN
  BY DEF Typed, Copy
<1>6. overlapped' \in BOOLEAN /\ (~overlapped' => ~overlapped /\ \A b \in Savers : snapshot[b] = None)
  BY <1>5, Zenon
<1> QED
  BY <1>3, <1>4, <1>5, <1>6 DEF Copied

LEMMA ReplaceEffect ==
    ASSUME Typed, NEW a \in Savers, NEW ok \in BOOLEAN, Replace(a, ok)
    PROVE  Replaced(a, ok)
<1>1. snapshot[a] \in Sets /\ snapshot[a] # None
  BY DEF Typed, Replace, Sets
<1>2. snapshot' \in [Savers -> Sets] /\ \A b \in Savers : snapshot'[b] = IF b = a THEN None ELSE snapshot[b]
  <2>1. snapshot' = [snapshot EXCEPT ![a] = None] /\ None \in Sets /\ snapshot \in [Savers -> Sets]
    BY DEF Typed, Replace, Sets
  <2> QED
    BY <2>1
<1>4. snapshot[a] \subseteq Requests \cup {Old}
  BY <1>1 DEF Sets
<1>3. (kept' = snapshot[a] \/ kept' = kept) /\ (ok => kept' = snapshot[a])
  BY DEF Replace
<1> QED
  BY <1>1, <1>2, <1>3, <1>4 DEF Replace, Replaced

LEMMA ReplaceDue ==
    ASSUME Typed, NEW a \in Savers, NEW ok \in BOOLEAN, Replace(a, ok)
    PROVE  Settled(a, ok)
<1>1. owed' = [owed EXCEPT ![a] = {}] /\ owed \in [Savers -> SUBSET Requests] /\ due \subseteq Requests
  BY DEF Typed, Replace
<1>2. owed' \in [Savers -> SUBSET Requests] /\ \A b \in Savers : owed'[b] = IF b = a THEN {} ELSE owed[b]
  BY <1>1
<1>3. owed[a] \subseteq Requests
  BY <1>1
<1>4. /\ due' = due \/ (kept' = snapshot[a] /\ due' = due \cup owed[a])
      /\ due' = due \/ ok
  BY DEF Replace
<1> QED
  BY <1>1, <1>2, <1>3, <1>4 DEF Settled

Fates == {"none", "queued", "dropped", "logged", "failed"}

LEMMA PublishEffect ==
    ASSUME Typed, NEW r \in Http, Publish(r)
    PROVE  /\ event' \in [Sinks -> [Http -> Fates]]
           /\ \A s \in Sinks, e \in Http : e # r => event'[s][e] = event[s][e]
           /\ \A s \in Sinks : s \notin audits => event'[s][r] = event[s][r]
           /\ \A s \in audits : /\ event'[s][r] \in {"queued", "dropped"}
                                /\ event'[s][r] = "dropped" => MayDrop(s)
<1>1. PICK full \in SUBSET audits :
          /\ \A s \in audits : IF s \in full THEN MayDrop(s) ELSE MayTake(s)
          /\ event' = [s \in Sinks |-> [event[s] EXCEPT ![r] = IF s \in full THEN "dropped"
                                                              ELSE IF s \in audits THEN "queued" ELSE @]]
  BY DEF Publish
<1>2. event \in [Sinks -> [Http -> Fates]] /\ audits \subseteq Sinks
  BY DEF Typed, Fates
<1>3. ASSUME NEW s \in Sinks
      PROVE  /\ event'[s] \in [Http -> Fates]
             /\ \A e \in Http : event'[s][e] = IF e # r THEN event[s][e]
                                               ELSE IF s \in full THEN "dropped"
                                               ELSE IF s \in audits THEN "queued" ELSE event[s][r]
  <2>1. event[s] \in [Http -> Fates]
    BY <1>2
  <2>2. event'[s] = [event[s] EXCEPT ![r] = IF s \in full THEN "dropped"
                                           ELSE IF s \in audits THEN "queued" ELSE event[s][r]]
    BY <1>1
  <2> QED
    BY <2>1, <2>2 DEF Fates
<1>4. event' \in [Sinks -> [Http -> Fates]]
  BY <1>1, <1>3
<1> QED
  BY <1>1, <1>2, <1>3, <1>4

\* Where no event is dropped and none is forgotten, the crowd stays.
LEMMA StaysCrowded ==
    ASSUME Crowded,
           \A s \in Sinks, e \in Http : /\ event[s][e] # "none" => event'[s][e] # "none"
                                        /\ event'[s][e] = "dropped" => event[s][e] = "dropped"
    PROVE  Crowded'
<1> SUFFICES ASSUME NEW s \in Sinks, NEW r \in Http, event'[s][r] = "dropped"
             PROVE  Cardinality(Published(s)') > BufferSize
  BY DEF Crowded
<1> DEFINE P == {e \in Http : event[s][e] # "none"}
           Q == {e \in Http : event'[s][e] # "none"}
<1>1. Published(s) = P /\ Published(s)' = Q
  BY DEF Published
<1>2. Cardinality(P) > BufferSize
  BY <1>1 DEF Crowded
<1>3. P \subseteq Q /\ Q \subseteq Requests
  BY RequestsAssumption
<1> HIDE DEF P, Q
<1>4. Cardinality(P) <= Cardinality(Q) /\ Cardinality(P) \in Nat /\ Cardinality(Q) \in Nat
  <2>1. IsFiniteSet(Q) /\ IsFiniteSet(P)
    BY <1>3, FS_Subset, BufferSizeAssumption
  <2> QED
    BY <1>3, <2>1, FS_Subset, FS_CardinalityType
<1> QED
  BY <1>1, <1>2, <1>4, BufferSizeAssumption

LEMMA InitInv == ServerInit => Inv
<1> SUFFICES ASSUME ServerInit PROVE Inv
  OBVIOUS
<1> USE DEF ServerInit, ConfigInit, Before, Stages, Closing
<1>1. snapshot \in [Savers -> Sets] /\ \A a \in Savers : snapshot[a] = None
  BY DEF Sets
<1>2. Main \in Savers
  BY DEF Savers
<1>3. Typed
  BY <1>1 DEF Typed, Sets
<1>4. Listening /\ Quiet
  BY DEF Listening, Quiet
<1>5. Stored /\ Restored /\ Saved
  BY <1>1, <1>2, <1>3, SaversAssumption, RequestsAssumption DEF Stored, Restored, Saved, Savers, InFile
<1>6. LastSave /\ Audited /\ Crowded
  <2>1. \A s \in Sinks, r \in Http : event[s][r] = "none"
    OBVIOUS
  <2> QED
    BY <2>1 DEF LastSave, Audited, Crowded, InFile
<1> QED
  BY <1>3, <1>4, <1>5, <1>6 DEF Inv

\* A program that reads its settings does nothing else.
LEMMA ConfigInv == ASSUME Inv, ConfigNext, UNCHANGED lifeVars PROVE Inv'
<1>1. at \in Before /\ at' \in Before
  BY DEF ConfigNext, ParseFlag, SetFlag, EndFlags, ApplyFile, ReadEnv, Check, Refuse, Before
<1>2. UNCHANGED <<mode, audits, mayWait, restored, http, grpc, rushed, memory, kept, snapshot,
                  missed, owed, due, overlapped, unsaved, call, answered, cut, event>>
  BY DEF lifeVars, startVars, listenVars, stopVars, storeVars, callVars
<1> USE <1>1, <1>2 DEF Inv, Before, Closing, Stages, InFile, InFlight
<1>3. Typed' /\ Listening' /\ Quiet'
  BY DEF Typed, Listening, Quiet
<1>4. Stored' /\ Restored' /\ Saved'
  BY DEF Stored, Restored, Saved
<1>5. LastSave' /\ Audited' /\ Crowded'
  BY DEF LastSave, Audited, Crowded, Published
<1> QED
  BY <1>3, <1>4, <1>5

LEMMA OpenStorageInv == ASSUME Inv, OpenStorage PROVE Inv'
<1> USE DEF Inv, Before, Closing, Stages, InFile, InFlight, Savers
<1>1. at = "ready" /\ at' \in {"fatal", "setup"}
  BY DEF OpenStorage, Forget
<1>2. mode' = Mode /\ Mode \in {"none", "final", "periodic", "sync", "db"}
  BY DEF OpenStorage, Mode
<1>3. /\ restored' \in BOOLEAN
      /\ restored' => mode' \in {"sync", "periodic", "final"} /\ memory' = kept
      /\ ~restored' => memory' = {}
  BY DEF OpenStorage
<1>4. UNCHANGED <<audits, http, grpc, rushed, kept, snapshot, missed, owed, due, overlapped, unsaved,
                  call, answered, cut, event>>
  BY DEF OpenStorage, listenVars, stopVars, callVars
<1>5. kept = {Old} /\ answered = {} /\ \A r \in Requests : call[r] = "none"
  BY <1>1 DEF Stored, Listening
<1>6. \A a \in Savers : snapshot[a] = None
  BY <1>1 DEF Stored
<1> USE <1>1, <1>2, <1>3, <1>4, <1>5
<1>7. Typed' /\ Listening' /\ Quiet'
  BY DEF Typed, Listening, Quiet
<1>8. Stored'
  BY <1>6 DEF Stored, Typed
<1>9. Restored' /\ Saved'
  BY <1>6 DEF Restored, Saved, Typed
<1>10. LastSave' /\ Audited' /\ Crowded'
  BY <1>6 DEF LastSave, Audited, Crowded, Published
<1> QED
  BY <1>7, <1>8, <1>9, <1>10

LEMMA SetUpInv == ASSUME Inv, SetUp PROVE Inv'
<1> USE SaversAssumption, RequestsAssumption
    DEF Inv, Before, Closing, Stages, InFile, InFlight, Savers, Alive,
        configVars, startVars, listenVars, stopVars, storeVars, callVars, lifeVars,
        SetUp, Reach, Fatal
<1>1. Typed'
  BY DEF Typed
<1>2. Listening'
  BY DEF Typed, Listening
<1>3. Quiet'
  BY DEF Typed, Quiet
<1>4. Stored'
  BY DEF Typed, Stored
<1>5. Restored'
  BY DEF Typed, Restored
<1>6. Saved'
  BY DEF Typed, Saved
<1>7. LastSave'
  BY DEF Typed, LastSave
<1>8. Audited'
  BY DEF Typed, Audited, Listening
<1>9. Crowded'
  BY DEF Crowded, Published
<1> QED
  BY <1>1, <1>2, <1>3, <1>4, <1>5, <1>6, <1>7, <1>8, <1>9

LEMMA ListenHTTPInv == ASSUME Inv, ListenHTTP PROVE Inv'
<1> USE SaversAssumption, RequestsAssumption
    DEF Inv, Before, Closing, Stages, InFile, InFlight, Savers, Alive,
        configVars, startVars, listenVars, stopVars, storeVars, callVars, lifeVars,
        ListenHTTP, Reach, Fatal
<1>1. Typed'
  BY DEF Typed
<1>2. Listening'
  BY DEF Typed, Listening
<1>3. Quiet'
  BY DEF Typed, Quiet
<1>4. Stored'
  BY DEF Typed, Stored, Listening
<1>5. Restored'
  BY DEF Typed, Restored
<1>6. Saved'
  BY DEF Typed, Saved
<1>7. LastSave'
  BY DEF Typed, LastSave
<1>8. Audited'
  BY DEF Typed, Audited
<1>9. Crowded'
  BY DEF Crowded, Published
<1> QED
  BY <1>1, <1>2, <1>3, <1>4, <1>5, <1>6, <1>7, <1>8, <1>9

LEMMA ListenGRPCInv == ASSUME Inv, ListenGRPC PROVE Inv'
<1> USE SaversAssumption, RequestsAssumption
    DEF Inv, Before, Closing, Stages, InFile, InFlight, Savers, Alive,
        configVars, startVars, listenVars, stopVars, storeVars, callVars, lifeVars,
        ListenGRPC
<1>1. Typed'
  BY DEF Typed
<1>2. Listening'
  BY DEF Typed, Listening
<1>3. Quiet'
  BY DEF Typed, Quiet
<1>4. Stored'
  BY DEF Typed, Stored
<1>5. Restored'
  BY DEF Typed, Restored
<1>6. Saved'
  BY DEF Typed, Saved
<1>7. LastSave'
  BY DEF Typed, LastSave
<1>8. Audited'
  BY DEF Typed, Audited
<1>9. Crowded'
  BY DEF Crowded, Published
<1> QED
  BY <1>1, <1>2, <1>3, <1>4, <1>5, <1>6, <1>7, <1>8, <1>9

LEMMA AcceptInv == ASSUME Inv, NEW r \in Requests, Accept(r) PROVE Inv'
<1> USE SaversAssumption, RequestsAssumption
    DEF Inv, Before, Closing, Stages, InFile, InFlight, Savers, Alive,
        configVars, startVars, listenVars, stopVars, storeVars, callVars, lifeVars,
        Accept
<1>1. Typed'
  BY DEF Typed
<1>2. Listening'
  BY DEF Typed, Listening
<1>3. Quiet'
  BY DEF Typed, Quiet, Listening
<1>4. Stored'
  BY DEF Typed, Stored
<1>5. Restored'
  BY DEF Typed, Restored
<1>6. Saved'
  BY DEF Typed, Saved
<1>7. LastSave'
  BY DEF Typed, LastSave
<1>8. Audited'
  BY DEF Typed, Audited
<1>9. Crowded'
  BY DEF Crowded, Published
<1> QED
  BY <1>1, <1>2, <1>3, <1>4, <1>5, <1>6, <1>7, <1>8, <1>9

LEMMA StoreInv == ASSUME Inv, NEW r \in Requests, Store(r) PROVE Inv'
<1> USE SaversAssumption, RequestsAssumption
    DEF Inv, Before, Closing, Stages, InFile, InFlight, Savers, Alive,
        configVars, startVars, listenVars, stopVars, storeVars, callVars, lifeVars,
        Store
<1>1. Typed'
  BY DEF Typed
<1>2. Listening'
  BY DEF Typed, Listening
<1>3. Quiet'
  BY DEF Typed, Quiet
<1>4. Stored'
  BY DEF Typed, Stored
<1>5. Restored'
  BY DEF Typed, Restored
<1>6. Saved'
  BY DEF Typed, Saved, Stored
<1>7. LastSave'
  BY DEF Typed, LastSave
<1>8. Audited'
  BY DEF Typed, Audited
<1>9. Crowded'
  BY DEF Crowded, Published
<1> QED
  BY <1>1, <1>2, <1>3, <1>4, <1>5, <1>6, <1>7, <1>8, <1>9

LEMMA AnswerInv == ASSUME Inv, NEW r \in Requests, Answer(r) PROVE Inv'
<1> USE SaversAssumption, RequestsAssumption
    DEF Inv, Before, Closing, Stages, InFile, InFlight, Savers, Alive,
        configVars, startVars, listenVars, stopVars, storeVars
<1>1. /\ at \in Stages /\ call[r] = "stored"
      /\ call' = [call EXCEPT ![r] = "answered"] /\ answered' = answered \cup ({r} \ cut)
      /\ UNCHANGED <<configVars, startVars, listenVars, stopVars, storeVars, cut>>
  BY DEF Answer
<1>2. CASE r \in Http /\ at # "pool" /\ Publish(r)
  <2>0. Typed /\ Publish(r)
    BY <1>2
  <2>1. Typed'
    BY <1>1, <1>2, <2>0, PublishEffect DEF Typed, Fates
  <2>2. Listening'
    BY <1>1 DEF Typed, Listening
  <2>3. Quiet'
    BY <1>1 DEF Typed, Quiet
  <2>4. Stored'
    BY <1>1 DEF Typed, Stored
  <2>5. Restored'
    BY <1>1 DEF Typed, Restored
  <2>6. Saved'
    BY <1>1 DEF Typed, Saved
  <2>7. LastSave'
    BY <1>1 DEF Typed, LastSave, Quiet
  <2>8. Audited'
    <3> SUFFICES ASSUME NEW s \in Sinks, NEW e \in Http
                 PROVE  /\ s \in audits' /\ ~rushed' /\ e \in answered' => event'[s][e] # "none"
                        /\ event'[s][e] # "none" => call'[e] = "answered"
                        /\ at' \in {"pool", "exited"} => event'[s][e] # "queued"
      BY DEF Audited
    <3>1. CASE e # r
      BY <1>1, <1>2, <2>0, <3>1, PublishEffect DEF Typed, Audited
    <3>2. CASE e = r
      <4>1. call'[r] = "answered" /\ event[s][r] = "none" /\ at' \notin {"pool", "exited"}
        BY <1>1, <1>2 DEF Typed, Audited
      <4> QED
        <5>1. s \in audits => event'[s][r] \in {"queued", "dropped"}
          BY <1>2, <2>0, PublishEffect, Zenon
        <5>2. s \notin audits => event'[s][r] = "none"
          BY <2>0, PublishEffect, <1>2, <4>1
        <5>3. audits' = audits
          BY <1>1 DEF startVars
        <5> QED
          BY <3>2, <4>1, <5>1, <5>2, <5>3
    <3> QED
      BY <3>1, <3>2
  <2>9. Crowded'
    <3> SUFFICES ASSUME NEW s \in Sinks, NEW e \in Http, event'[s][e] = "dropped"
                 PROVE  Cardinality(Published(s)') > BufferSize
      BY DEF Crowded
    <3>0. IsFiniteSet(Requests) /\ BufferSize \in Nat
      BY BufferSizeAssumption
    <3>1. event[s][r] = "none"
      BY <1>1, <1>2 DEF Audited
    <3>6. \A f \in Http : f # r => event'[s][f] = event[s][f]
      BY <1>2, <2>0, PublishEffect
    <3>7. Published(s) = {f \in Http : event[s][f] # "none"} /\ Published(s)' = {f \in Http : event'[s][f] # "none"}
      BY DEF Published
    <3>2. Published(s) \subseteq Published(s)' /\ Published(s)' \subseteq Requests
      BY <3>1, <3>6, <3>7, RequestsAssumption
    <3>3. IsFiniteSet(Published(s)') /\ IsFiniteSet(Published(s)) /\ Cardinality(Published(s)') \in Nat
          /\ Cardinality(Published(s)) <= Cardinality(Published(s)')
      BY <3>0, <3>2, FS_Subset, FS_CardinalityType
    <3>4. CASE e # r
      <4>1. event[s][e] = "dropped"
        BY <3>4, <3>6
      <4>2. Cardinality(Published(s)) > BufferSize /\ Cardinality(Published(s)) \in Nat
        BY <3>3, <4>1, FS_CardinalityType DEF Crowded
      <4> QED
        BY <3>0, <3>3, <4>2
    <3>5. CASE e = r
      <4>1. s \in audits /\ MayDrop(s)
        BY <2>0, <3>1, <3>5, PublishEffect
      <4>2. InQueue(s) \subseteq Published(s) /\ r \notin Published(s) /\ r \in Published(s)'
        BY <1>2, <3>1, <3>5 DEF InQueue, Published
      <4>3. /\ Cardinality(InQueue(s)) <= Cardinality(Published(s))
            /\ Cardinality(InQueue(s)) \in Nat /\ Cardinality(Published(s)) \in Nat
        BY <3>3, <4>2, FS_Subset, FS_CardinalityType
      <4>4. Cardinality(Published(s) \cup {r}) = Cardinality(Published(s)) + 1
        BY <3>3, <4>2, FS_AddElement
      <4>5. Cardinality(Published(s) \cup {r}) <= Cardinality(Published(s)')
        <5>1. Published(s) \cup {r} \subseteq Published(s)'
          BY <3>2, <4>2
        <5> QED
          BY <3>3, <5>1, FS_Subset
      <4>6. Cardinality(InQueue(s)) >= BufferSize
        BY <4>1 DEF MayDrop
      <4> QED
        BY <3>0, <3>3, <4>3, <4>4, <4>5, <4>6
    <3> QED
      BY <3>4, <3>5
  <2> QED
    BY <2>1, <2>2, <2>3, <2>4, <2>5, <2>6, <2>7, <2>8, <2>9
<1>3. CASE (r \in Http => at \in {"audit", "pool"}) /\ UNCHANGED event
  <2>1. Typed'
    BY <1>1, <1>3 DEF Typed
  <2>2. Listening'
    BY <1>1 DEF Typed, Listening
  <2>3. Quiet'
    BY <1>1 DEF Typed, Quiet
  <2>4. Stored'
    BY <1>1 DEF Typed, Stored
  <2>5. Restored'
    BY <1>1 DEF Typed, Restored
  <2>6. Saved'
    BY <1>1 DEF Typed, Saved
  <2>7. LastSave'
    BY <1>1 DEF Typed, LastSave, Quiet
  <2>8. Audited'
    BY <1>1, <1>3 DEF Typed, Audited, Quiet
  <2>9. Crowded'
    BY <1>1, <1>3 DEF Crowded, Published
  <2> QED
    BY <2>1, <2>2, <2>3, <2>4, <2>5, <2>6, <2>7, <2>8, <2>9
<1> QED
  BY <1>2, <1>3 DEF Answer

LEMMA SaveNowInv == ASSUME Inv, NEW r \in Requests, SaveNow(r) PROVE Inv'
<1> USE SaversAssumption, RequestsAssumption
    DEF Inv, Before, Closing, Stages, InFile, InFlight, Savers, Alive,
        configVars, startVars, listenVars, stopVars, storeVars, callVars, lifeVars
<1>1. /\ at \in Stages /\ call[r] = "saving" /\ r \in Savers /\ r # Main
      /\ UNCHANGED <<configVars, startVars, listenVars, stopVars, answered, cut, event>>
  BY DEF SaveNow
<1>2. CASE Copy(r) /\ UNCHANGED call
  <2>0. Copied(r)
    BY <1>1, <1>2, CopyEffect
  <2>1. Typed'
    BY <1>1, <1>2, <2>0 DEF Copied, Typed, Sets
  <2>2. Listening'
    BY <1>1, <1>2, <2>0 DEF Copied, Typed, Listening, Sets
  <2>3. Quiet'
    BY <1>1, <1>2, <2>0 DEF Copied, Typed, Quiet, Sets
  <2>4. Stored'
    BY <1>1, <1>2, <2>0 DEF Copied, Typed, Stored, Sets
  <2>5. Restored'
    BY <1>1, <1>2, <2>0 DEF Copied, Typed, Restored, Sets
  <2>6. Saved'
    BY <1>1, <1>2, <2>0 DEF Copied, Typed, Saved, Stored, Sets
  <2>7. LastSave'
    BY <1>1, <1>2, <2>0 DEF Copied, Typed, LastSave, Quiet, Sets
  <2>8. Audited'
    BY <1>1, <1>2, <2>0 DEF Copied, Typed, Audited, Sets
  <2>9. Crowded'
    BY <1>1 DEF Crowded, Published
  <2> QED
    BY <2>1, <2>2, <2>3, <2>4, <2>5, <2>6, <2>7, <2>8, <2>9
<1>3. ASSUME NEW ok \in BOOLEAN, Replace(r, ok), UNCHANGED unsaved,
             call' = [call EXCEPT ![r] = IF ok \/ r \notin Singles THEN "stored" ELSE "failed"],
             missed' = IF ok \/ r \in Singles THEN missed ELSE missed \cup {r}
      PROVE  Inv'
  <2>0. Replaced(r, ok) /\ Settled(r, ok)
    BY <1>1, <1>3, ReplaceEffect, ReplaceDue
  <2>1. Typed'
    BY <1>1, <1>3, <2>0 DEF Replaced, Settled, Typed, Sets
  <2>2. Listening'
    BY <1>1, <1>3, <2>0 DEF Replaced, Typed, Listening, Sets
  <2>3. Quiet'
    BY <1>1, <1>3, <2>0 DEF Replaced, Typed, Quiet, Sets
  <2>4. Stored'
    BY <1>1, <1>3, <2>0 DEF Replaced, Settled, Typed, Stored, Sets
  <2>5. Restored'
    BY <1>1, <1>3, <2>0 DEF Replaced, Typed, Restored, Sets
  <2>6. Saved'
    BY <1>1, <1>3, <2>0 DEF Replaced, Settled, Typed, Saved, Stored, Sets
  <2>7. LastSave'
    BY <1>1, <1>3, <2>0 DEF Replaced, Typed, LastSave, Quiet, Stored, Saved, Sets
  <2>8. Audited'
    BY <1>1, <1>3, <2>0 DEF Replaced, Typed, Audited, Sets
  <2>9. Crowded'
    BY <1>1 DEF Crowded, Published
  <2> QED
    BY <2>1, <2>2, <2>3, <2>4, <2>5, <2>6, <2>7, <2>8, <2>9
<1> QED
  BY <1>2, <1>3 DEF SaveNow

LEMMA SavePeriodicallyInv == ASSUME Inv, SavePeriodically PROVE Inv'
<1> USE SaversAssumption, RequestsAssumption
    DEF Inv, Before, Closing, Stages, InFile, InFlight, Savers, Alive,
        configVars, startVars, listenVars, stopVars, storeVars, callVars, lifeVars
<1>1. /\ at \in Stages /\ mode = "periodic" /\ Ticker \in Savers
      /\ UNCHANGED <<configVars, startVars, listenVars, stopVars, callVars, event>>
  BY DEF SavePeriodically
<1>2. CASE Copy(Ticker)
  <2>0. Copied(Ticker)
    BY <1>1, <1>2, CopyEffect
  <2>1. Typed'
    BY <1>1, <1>2, <2>0 DEF Copied, Typed, Sets
  <2>2. Listening'
    BY <1>1, <1>2, <2>0 DEF Copied, Typed, Listening, Sets
  <2>3. Quiet'
    BY <1>1, <1>2, <2>0 DEF Copied, Typed, Quiet, Sets
  <2>4. Stored'
    BY <1>1, <1>2, <2>0 DEF Copied, Typed, Stored, Sets
  <2>5. Restored'
    BY <1>1, <1>2, <2>0 DEF Copied, Typed, Restored, Sets
  <2>6. Saved'
    BY <1>1, <1>2, <2>0 DEF Copied, Typed, Saved, Stored, Sets
  <2>7. LastSave'
    BY <1>1, <1>2, <2>0 DEF Copied, Typed, LastSave, Stored, Sets
  <2>8. Audited'
    BY <1>1, <1>2, <2>0 DEF Copied, Typed, Audited, Sets
  <2>9. Crowded'
    BY <1>1 DEF Crowded, Published
  <2> QED
    BY <2>1, <2>2, <2>3, <2>4, <2>5, <2>6, <2>7, <2>8, <2>9
<1>3. ASSUME NEW ok \in BOOLEAN, Replace(Ticker, ok), UNCHANGED <<missed, unsaved>>
      PROVE  Inv'
  <2>0. Replaced(Ticker, ok) /\ Settled(Ticker, ok)
    BY <1>1, <1>3, ReplaceEffect, ReplaceDue
  <2>1. Typed'
    BY <1>1, <1>3, <2>0 DEF Replaced, Settled, Typed, Sets
  <2>2. Listening'
    BY <1>1, <1>3, <2>0 DEF Replaced, Typed, Listening, Sets
  <2>3. Quiet'
    BY <1>1, <1>3, <2>0 DEF Replaced, Typed, Quiet, Sets
  <2>4. Stored'
    BY <1>1, <1>3, <2>0 DEF Replaced, Settled, Typed, Stored, Sets
  <2>5. Restored'
    BY <1>1, <1>3, <2>0 DEF Replaced, Typed, Restored, Sets
  <2>10. ~overlapped => due' \subseteq kept'
    BY <2>0, RequestsAssumption DEF Replaced, Settled, Typed, Stored, Saved
  <2>6. Saved'
    BY <1>1, <1>3, <2>0, <2>10 DEF Replaced, Typed, Saved, Sets
  <2>7. LastSave'
    BY <1>1, <1>3, <2>0 DEF Replaced, Typed, LastSave, Saved, Sets
  <2>8. Audited'
    BY <1>1, <1>3, <2>0 DEF Replaced, Typed, Audited, Sets
  <2>9. Crowded'
    BY <1>1 DEF Crowded, Published
  <2> QED
    BY <2>1, <2>2, <2>3, <2>4, <2>5, <2>6, <2>7, <2>8, <2>9
<1> QED
  BY <1>2, <1>3 DEF SavePeriodically

LEMMA NotifyInv == ASSUME Inv, NEW s \in Sinks, NEW e \in Http, Notify(s, e) PROVE Inv'
<1> USE SaversAssumption, RequestsAssumption
    DEF Inv, Before, Closing, Stages, InFile, InFlight, Savers, Alive,
        configVars, startVars, listenVars, stopVars, storeVars, callVars, lifeVars,
        Notify
<1>0. /\ \A t \in Sinks, f \in Http : event'[t][f] # event[t][f] => /\ event[t][f] = "queued"
                                                                    /\ event'[t][f] \in {"logged", "failed"}
      /\ event' \in [Sinks -> [Http -> Fates]]
  <2>1. PICK fate \in {"logged", "failed"} : event' = [event EXCEPT ![s][e] = fate]
    BY DEF Notify
  <2>2. event \in [Sinks -> [Http -> Fates]] /\ event[s] \in [Http -> Fates] /\ event[s][e] = "queued"
    BY DEF Typed, Fates, Notify, InQueue
  <2> QED
    BY <2>1, <2>2 DEF Fates
<1>1. Typed'
  BY <1>0 DEF Typed, Fates
<1>2. Listening'
  BY DEF Typed, Listening
<1>3. Quiet'
  BY DEF Typed, Quiet
<1>4. Stored'
  BY DEF Typed, Stored
<1>5. Restored'
  BY DEF Typed, Restored
<1>6. Saved'
  BY DEF Typed, Saved
<1>7. LastSave'
  BY DEF Typed, LastSave
<1>8. Audited'
  BY <1>0 DEF Typed, Audited
<1>9. Crowded'
  BY <1>0, StaysCrowded
<1> QED
  BY <1>1, <1>2, <1>3, <1>4, <1>5, <1>6, <1>7, <1>8, <1>9

LEMMA SignalInv == ASSUME Inv, Signal PROVE Inv'
<1> USE SaversAssumption, RequestsAssumption
    DEF Inv, Before, Closing, Stages, InFile, InFlight, Savers, Alive,
        configVars, startVars, listenVars, stopVars, storeVars, callVars, lifeVars,
        Signal
<1>1. Typed'
  BY DEF Typed
<1>2. Listening'
  BY DEF Typed, Listening
<1>3. Quiet'
  BY DEF Typed, Quiet
<1>4. Stored'
  BY DEF Typed, Stored
<1>5. Restored'
  BY DEF Typed, Restored
<1>6. Saved'
  BY DEF Typed, Saved
<1>7. LastSave'
  BY DEF Typed, LastSave
<1>8. Audited'
  BY DEF Typed, Audited
<1>9. Crowded'
  BY DEF Crowded, Published
<1> QED
  BY <1>1, <1>2, <1>3, <1>4, <1>5, <1>6, <1>7, <1>8, <1>9

LEMMA StartShutdownInv == ASSUME Inv, StartShutdown PROVE Inv'
<1> USE SaversAssumption, RequestsAssumption
    DEF Inv, Before, Closing, Stages, InFile, InFlight, Savers, Alive,
        configVars, startVars, listenVars, stopVars, storeVars, callVars, lifeVars,
        StartShutdown, Reach
<1>1. Typed'
  BY DEF Typed
<1>2. Listening'
  BY DEF Typed, Listening
<1>3. Quiet'
  BY DEF Typed, Quiet
<1>4. Stored'
  BY DEF Typed, Stored
<1>5. Restored'
  BY DEF Typed, Restored
<1>6. Saved'
  BY DEF Typed, Saved
<1>7. LastSave'
  BY DEF Typed, LastSave
<1>8. Audited'
  BY DEF Typed, Audited
<1>9. Crowded'
  BY DEF Crowded, Published
<1> QED
  BY <1>1, <1>2, <1>3, <1>4, <1>5, <1>6, <1>7, <1>8, <1>9

LEMMA ExpireInv == ASSUME Inv, Expire PROVE Inv'
<1> USE SaversAssumption, RequestsAssumption
    DEF Inv, Before, Closing, Stages, InFile, InFlight, Savers, Alive,
        configVars, startVars, listenVars, stopVars, storeVars, callVars, lifeVars,
        Expire
<1>1. Typed'
  BY DEF Typed
<1>2. Listening'
  BY DEF Typed, Listening
<1>3. Quiet'
  BY DEF Typed, Quiet
<1>4. Stored'
  BY DEF Typed, Stored
<1>5. Restored'
  BY DEF Typed, Restored
<1>6. Saved'
  BY DEF Typed, Saved
<1>7. LastSave'
  BY DEF Typed, LastSave
<1>8. Audited'
  BY DEF Typed, Audited
<1>9. Crowded'
  BY DEF Crowded, Published
<1> QED
  BY <1>1, <1>2, <1>3, <1>4, <1>5, <1>6, <1>7, <1>8, <1>9

LEMMA DrainHTTPInv == ASSUME Inv, DrainHTTP PROVE Inv'
<1> USE SaversAssumption, RequestsAssumption
    DEF Inv, Before, Closing, Stages, InFile, InFlight, Savers, Alive,
        configVars, startVars, listenVars, stopVars, storeVars, callVars, lifeVars,
        DrainHTTP, Reach, Wait, HttpDone
<1>1. Typed'
  BY DEF Typed
<1>2. Listening'
  BY DEF Typed, Listening
<1>3. Quiet'
  BY DEF Typed, Quiet
<1>4. Stored'
  BY DEF Typed, Stored
<1>5. Restored'
  BY DEF Typed, Restored
<1>6. Saved'
  BY DEF Typed, Saved
<1>7. LastSave'
  BY DEF Typed, LastSave
<1>8. Audited'
  BY DEF Typed, Audited
<1>9. Crowded'
  BY DEF Crowded, Published
<1> QED
  BY <1>1, <1>2, <1>3, <1>4, <1>5, <1>6, <1>7, <1>8, <1>9

LEMMA DrainGRPCInv == ASSUME Inv, DrainGRPC PROVE Inv'
<1> USE SaversAssumption, RequestsAssumption
    DEF Inv, Before, Closing, Stages, InFile, InFlight, Savers, Alive,
        configVars, startVars, listenVars, stopVars, storeVars, callVars, lifeVars,
        DrainGRPC, Reach, Wait, GrpcDone
<1>1. Typed'
  BY DEF Typed
<1>2. Listening'
  BY DEF Typed, Listening
<1>3. Quiet'
  BY DEF Typed, Quiet
<1>4. Stored'
  BY DEF Typed, Stored
<1>5. Restored'
  BY DEF Typed, Restored
<1>6. Saved'
  BY DEF Typed, Saved
<1>7. LastSave'
  BY DEF Typed, LastSave, Stored
<1>8. Audited'
  BY DEF Typed, Audited
<1>9. Crowded'
  BY DEF Crowded, Published
<1> QED
  BY <1>1, <1>2, <1>3, <1>4, <1>5, <1>6, <1>7, <1>8, <1>9

LEMMA FinalSaveInv == ASSUME Inv, FinalSave PROVE Inv'
<1> USE SaversAssumption, RequestsAssumption
    DEF Inv, Before, Closing, Stages, InFile, InFlight, Savers, Alive,
        configVars, startVars, listenVars, stopVars, storeVars, callVars, lifeVars
<1>1. /\ at = "save" /\ Main \in Savers
      /\ UNCHANGED <<startVars, listenVars, stopVars, callVars, event>>
  BY DEF FinalSave
<1>2. CASE InFile /\ Copy(Main) /\ UNCHANGED configVars
  <2>0. Copied(Main)
    BY <1>1, <1>2, CopyEffect
  <2>1. Typed'
    BY <1>1, <1>2, <2>0 DEF Copied, Typed, Sets
  <2>2. Listening'
    BY <1>1, <1>2, <2>0 DEF Copied, Typed, Listening, Sets
  <2>3. Quiet'
    BY <1>1, <1>2, <2>0 DEF Copied, Typed, Quiet, Sets
  <2>4. Stored'
    BY <1>1, <1>2, <2>0 DEF Copied, Typed, Stored, Sets
  <2>5. Restored'
    BY <1>1, <1>2, <2>0 DEF Copied, Typed, Restored, Sets
  <2>6. Saved'
    BY <1>1, <1>2, <2>0 DEF Copied, Typed, Saved, Stored, Sets
  <2>7. LastSave'
    BY <1>1, <1>2, <2>0 DEF Copied, Typed, LastSave, Stored, Sets
  <2>8. Audited'
    BY <1>1, <1>2, <2>0 DEF Copied, Typed, Audited, Sets
  <2>9. Crowded'
    BY <1>1 DEF Crowded, Published
  <2> QED
    BY <2>1, <2>2, <2>3, <2>4, <2>5, <2>6, <2>7, <2>8, <2>9
<1>3. ASSUME NEW ok \in BOOLEAN, InFile, Replace(Main, ok), unsaved' = ~ok, UNCHANGED missed,
             Reach("audit")
      PROVE  Inv'
  <2>0. Replaced(Main, ok) /\ Settled(Main, ok)
    BY <1>1, <1>3, ReplaceEffect, ReplaceDue
  <2>1. Typed'
    BY <1>1, <1>3, <2>0 DEF Replaced, Settled, Typed, Reach, Sets
  <2>2. Listening'
    BY <1>1, <1>3, <2>0 DEF Replaced, Typed, Listening, Reach, Sets
  <2>3. Quiet'
    BY <1>1, <1>3, <2>0 DEF Replaced, Typed, Quiet, Reach, Sets
  <2>4. Stored'
    BY <1>1, <1>3, <2>0 DEF Replaced, Settled, Typed, Stored, Reach, Sets
  <2>5. Restored'
    BY <1>1, <1>3, <2>0 DEF Replaced, Typed, Restored, Reach, Sets
  <2>10. ~overlapped => due' \subseteq kept'
    BY <2>0, RequestsAssumption DEF Replaced, Settled, Typed, Stored, Saved
  <2>6. Saved'
    BY <1>1, <1>3, <2>0, <2>10 DEF Replaced, Typed, Saved, Reach, Sets
  <2>7. LastSave'
    <3>1. ~rushed' /\ ~overlapped' /\ InFile' =>
              answered' \subseteq snapshot[Main] /\ \A a \in Savers : snapshot'[a] = None
      BY <1>1, <1>3, <2>0 DEF Replaced, LastSave, Saved
    <3>2. ~unsaved' => kept' = snapshot[Main]
      BY <1>1, <1>3, <2>0 DEF Replaced
    <3>3. at' = "audit"
      BY <1>3 DEF Reach
    <3> QED
      BY <3>1, <3>2, <3>3 DEF LastSave
  <2>8. Audited'
    BY <1>1, <1>3, <2>0 DEF Replaced, Typed, Audited, Reach, Sets
  <2>9. Crowded'
    BY <1>1 DEF Crowded, Published
  <2> QED
    BY <2>1, <2>2, <2>3, <2>4, <2>5, <2>6, <2>7, <2>8, <2>9
<1>4. CASE ~InFile /\ Reach("audit") /\ UNCHANGED storeVars
  <2>1. Typed'
    BY <1>1, <1>4 DEF Typed, Reach
  <2>2. Listening'
    BY <1>1, <1>4 DEF Typed, Listening, Reach
  <2>3. Quiet'
    BY <1>1, <1>4 DEF Typed, Quiet, Reach
  <2>4. Stored'
    BY <1>1, <1>4 DEF Typed, Stored, Reach
  <2>5. Restored'
    BY <1>1, <1>4 DEF Typed, Restored, Reach
  <2>6. Saved'
    BY <1>1, <1>4 DEF Typed, Saved, Reach
  <2>7. LastSave'
    BY <1>1, <1>4 DEF Typed, LastSave, Reach
  <2>8. Audited'
    BY <1>1, <1>4 DEF Typed, Audited, Reach
  <2>9. Crowded'
    BY <1>1 DEF Crowded, Published
  <2> QED
    BY <2>1, <2>2, <2>3, <2>4, <2>5, <2>6, <2>7, <2>8, <2>9
<1> QED
  BY <1>2, <1>3, <1>4 DEF FinalSave

LEMMA CloseAuditInv == ASSUME Inv, CloseAudit PROVE Inv'
<1> USE SaversAssumption, RequestsAssumption
    DEF Inv, Before, Closing, Stages, InFile, InFlight, Savers, Alive,
        configVars, startVars, listenVars, stopVars, storeVars, callVars, lifeVars,
        CloseAudit, Reach, Wait
<1>0. /\ \A t \in Sinks, f \in Http : event'[t][f] = IF event[t][f] = "queued" THEN "failed" ELSE event[t][f]
      /\ event' \in [Sinks -> [Http -> Fates]]
  <2>1. event' = [s \in Sinks |-> [r \in Http |-> IF event[s][r] = "queued" THEN "failed" ELSE event[s][r]]]
    BY DEF CloseAudit, InQueue
  <2>2. event \in [Sinks -> [Http -> Fates]]
    BY DEF Typed, Fates
  <2> QED
    BY <2>1, <2>2 DEF Fates
<1>1. Typed'
  BY <1>0 DEF Typed, Fates
<1>2. Listening'
  BY DEF Typed, Listening
<1>3. Quiet'
  BY DEF Typed, Quiet
<1>4. Stored'
  BY DEF Typed, Stored
<1>5. Restored'
  BY DEF Typed, Restored
<1>6. Saved'
  BY DEF Typed, Saved
<1>7. LastSave'
  BY DEF Typed, LastSave
<1>8. Audited'
  BY <1>0 DEF Typed, Audited
<1>9. Crowded'
  BY <1>0, StaysCrowded
<1> QED
  BY <1>1, <1>2, <1>3, <1>4, <1>5, <1>6, <1>7, <1>8, <1>9

LEMMA ExitInv == ASSUME Inv, Exit PROVE Inv'
<1> USE SaversAssumption, RequestsAssumption
    DEF Inv, Before, Closing, Stages, InFile, InFlight, Savers, Alive,
        configVars, startVars, listenVars, stopVars, storeVars, callVars, lifeVars,
        Exit, Reach
<1>1. Typed'
  BY DEF Typed
<1>2. Listening'
  BY DEF Typed, Listening
<1>3. Quiet'
  BY DEF Typed, Quiet
<1>4. Stored'
  BY DEF Typed, Stored
<1>5. Restored'
  BY DEF Typed, Restored
<1>6. Saved'
  BY DEF Typed, Saved
<1>7. LastSave'
  BY DEF Typed, LastSave
<1>8. Audited'
  BY DEF Typed, Audited
<1>9. Crowded'
  BY DEF Crowded, Published
<1> QED
  BY <1>1, <1>2, <1>3, <1>4, <1>5, <1>6, <1>7, <1>8, <1>9

LEMMA NextInv == Inv /\ [ServerNext]_serverVars => Inv'
<1> SUFFICES ASSUME Inv, [ServerNext]_serverVars PROVE Inv'
  OBVIOUS
<1>1. CASE UNCHANGED serverVars
  <2>1. UNCHANGED <<at, mode, audits, mayWait, restored, http, grpc, rushed, memory, kept, snapshot,
                    missed, owed, due,
                  overlapped, unsaved, call, answered, cut, event>>
    BY <1>1 DEF serverVars, configVars, lifeVars, startVars, listenVars, stopVars, storeVars,
                callVars
  <2> USE <2>1 DEF Inv, InFile, InFlight
  <2>2. Typed' /\ Listening' /\ Quiet'
    BY DEF Typed, Listening, Quiet
  <2>3. Stored' /\ Restored' /\ Saved'
    BY DEF Stored, Restored, Saved
  <2>4. LastSave' /\ Audited' /\ Crowded'
    BY DEF LastSave, Audited, Crowded, Published
  <2> QED
    BY <2>2, <2>3, <2>4
<1>2. CASE ConfigNext /\ UNCHANGED lifeVars
  BY <1>2, ConfigInv
<1>3. CASE OpenStorage \/ SetUp \/ ListenHTTP \/ ListenGRPC
  BY <1>3, OpenStorageInv, SetUpInv, ListenHTTPInv, ListenGRPCInv
<1>4. ASSUME NEW r \in Requests, Accept(r) \/ Store(r) \/ SaveNow(r) \/ Answer(r)
      PROVE  Inv'
  BY <1>4, AcceptInv, StoreInv, SaveNowInv, AnswerInv
<1>8. ASSUME NEW s \in Sinks, NEW e \in Http, Notify(s, e) PROVE Inv'
  BY <1>8, NotifyInv
<1>5. CASE SavePeriodically
  BY <1>5, SavePeriodicallyInv
<1>6. CASE Signal \/ StartShutdown \/ Expire
  BY <1>6, SignalInv, StartShutdownInv, ExpireInv
<1>7. CASE Shutdown
  BY <1>7, DrainHTTPInv, DrainGRPCInv, FinalSaveInv, CloseAuditInv, ExitInv DEF Shutdown
<1> QED
  BY <1>1, <1>2, <1>3, <1>4, <1>5, <1>6, <1>7, <1>8 DEF ServerNext

LEMMA Invariance == ServerSpec => []Inv
  BY InitInv, NextInv, PTL DEF ServerSpec

-----------------------------------------------------------------------------
\* From the settings to the store.

Settling == {"flags", "file", "env", "check", "ready"}

\* Where the sources let no update wait, the mode lets none wait.
Waits == /\ at \in Before => mayWait
         /\ ~mayWait => mode \in {"sync", "db"}

LEMMA ConfigAsked == ASSUME Asked, ConfigNext PROVE Asked'
  BY ParseFlagAsked, EndFlagsAsked, ApplyFileAsked, ReadEnvAsked, CheckAsked DEF ConfigNext

LEMMA StutterAsked ==
    ASSUME Asked, UNCHANGED <<program, line, env, file, rest, path, given, cfg, at>>
    PROVE  Asked'
<1>1. UNCHANGED Sources
  BY DEF Sources
<1>2. /\ IsValue' = IsValue /\ Settings' = Settings /\ ReadsFile' = ReadsFile
      /\ \A s : FlagsFor(s)' = FlagsFor(s) /\ FlagValue(s)' = FlagValue(s) /\ Strongest(s)' = Strongest(s)
      /\ \A i, s : ValueAt(i, s)' = ValueAt(i, s)
  BY <1>1, ConstantReading
<1>3. ASSUME NEW p, Read(p) PROVE Read(p)'
  <2>1. \A s : UpTo(p, s)' = UpTo(p, s)
    BY <1>2 DEF UpTo
  <2>2. Says(UpTo(p, "config"), "config", path, "")'
    BY <1>2, <1>3, <2>1 DEF Read, Says
  <2>3. (\A s \in Settings : /\ s \in given <=> UpTo(p, s) # {}
                             /\ Says(UpTo(p, s), s, cfg[s], Default(s)))'
    BY <1>2, <1>3, <2>1 DEF Read, Says
  <2>4. UNCHANGED <<line, rest>>
    OBVIOUS
  <2> QED
    BY <1>2, <1>3, <2>2, <2>3, <2>4 DEF Read
<1>4. \A s : ByFlags(s)' = ByFlags(s)
  BY <1>2 DEF ByFlags
<1>6. \A s : FromFile(s, file[s])' = FromFile(s, file[s])
  BY DEF FromFile, Truncated, Parsed, Type
<1>5. \A s : ByFile(s)' = ByFile(s)
  BY <1>2, <1>4, <1>6 DEF ByFile
<1> QED
  BY <1>2, <1>3, <1>4, <1>5 DEF Asked, Precedence

\* The other actions come after the settings.
Later == \/ SetUp \/ ListenHTTP \/ ListenGRPC
         \/ \E r \in Requests : Accept(r) \/ Store(r) \/ SaveNow(r) \/ Answer(r)
         \/ \E s \in Sinks, e \in Http : Notify(s, e)
         \/ SavePeriodically
         \/ Signal \/ StartShutdown \/ Expire \/ Shutdown

LEMMA LaterStages ==
    ASSUME Later
    PROVE  at \in Stages /\ at' \in Stages \cup {"fatal", "exited"} /\ UNCHANGED <<mode, mayWait>>
<1> USE DEF Alive, Stages, Reach, Fatal, startVars, configVars
<1>1. CASE SetUp \/ ListenHTTP \/ ListenGRPC
  BY <1>1 DEF SetUp, ListenHTTP, ListenGRPC
<1>5. ASSUME NEW s \in Sinks, NEW e \in Http, Notify(s, e)
      PROVE  at \in Stages /\ at' \in Stages \cup {"fatal", "exited"} /\ UNCHANGED <<mode, mayWait>>
  BY <1>5 DEF Notify
<1>2. ASSUME NEW r \in Requests, Accept(r) \/ Store(r) \/ SaveNow(r) \/ Answer(r)
      PROVE  at \in Stages /\ at' \in Stages \cup {"fatal", "exited"} /\ UNCHANGED <<mode, mayWait>>
  BY <1>2 DEF Accept, Store, SaveNow, Answer
<1>3. CASE SavePeriodically \/ Signal \/ StartShutdown \/ Expire
  BY <1>3 DEF SavePeriodically, Signal, StartShutdown, Expire
<1>4. CASE Shutdown
  BY <1>4 DEF Shutdown, DrainHTTP, DrainGRPC, FinalSave, CloseAudit, Exit, Wait, lifeVars
<1> QED
  BY <1>1, <1>2, <1>3, <1>4, <1>5 DEF Later

\* Less than a second, which the settings round to none.
Short(ms) == ms \in -999..999

LEMMA UnderASecond ==
    /\ \A ms : Short(ms) => Truncated(ms) = 0
    /\ \A s \in Int : Short(1000 * s) => s = 0
<1>1. ASSUME NEW ms, Short(ms) PROVE Truncated(ms) = 0
  BY <1>1 DEF Truncated, Short
<1>2. ASSUME NEW s \in Int, Short(1000 * s) PROVE s = 0
  BY <1>2 DEF Short
<1> QED
  BY <1>1, <1>2

LEMMA OpenStorageWaits == ASSUME Asked, OpenStorage PROVE ~mayWait' => mode' \in {"sync", "db"}
<1>1. at = "ready" /\ program = "server" /\ mode' = Mode
  BY DEF OpenStorage
<1>6. \/ mayWait' \/ Strongest("database_dsn") # ""
      \/ Strongest("store_file") # "" /\ Short(IntervalAsked)
  <2>1. mayWait' = (Strongest("database_dsn") = "" /\ (Strongest("store_file") = "" \/ ~Short(IntervalAsked)))
    BY DEF OpenStorage, Short
  <2> QED
    BY <2>1
<1>2. {"database_dsn", "store_file", "store_interval"} \subseteq Settings
      /\ "store_interval" \in Seconds[program]
  BY <1>1 DEF Settings, Texts, Seconds
<1>3. /\ cfg["database_dsn"] = Strongest("database_dsn") /\ cfg["store_file"] = Strongest("store_file")
      /\ cfg["store_interval"] = Strongest("store_interval") /\ cfg["store_interval"] \in Int
  BY <1>1, <1>2 DEF Asked, Precedence
<1>4. CASE Strongest("database_dsn") # ""
  BY <1>1, <1>3, <1>4 DEF Mode
<1>5. CASE Strongest("store_file") # "" /\ Short(IntervalAsked)
  <2>0. Strongest("store_file") # ""
    BY <1>5
  <2>1. CASE /\ ~Usable("store_interval") /\ FlagsFor("store_interval") = {}
             /\ ReadsFile /\ "store_interval" \in DOMAIN file
    <3>1. Strongest("store_interval") = FromFile("store_interval", file["store_interval"])
      BY <2>1 DEF Strongest
    <3>2. IntervalAsked = file["store_interval"].value
      BY <2>1 DEF IntervalAsked
    <3>3. Truncated(IntervalAsked) = 0
      BY <1>5, UnderASecond
    <3>4. Strongest("store_interval") = 0
      BY <1>2, <3>1, <3>2, <3>3 DEF FromFile
    <3> QED
      BY <1>1, <1>3, <2>0, <3>4 DEF Mode
  <2>2. CASE ~(/\ ~Usable("store_interval") /\ FlagsFor("store_interval") = {}
               /\ ReadsFile /\ "store_interval" \in DOMAIN file)
    <3>1. IntervalAsked = 1000 * cfg["store_interval"]
      BY <1>3, <2>2 DEF IntervalAsked
    <3>2. cfg["store_interval"] = 0
      <4> DEFINE s == cfg["store_interval"]
      <4>1. s \in Int /\ Short(1000 * s)
        BY <1>3, <1>5, <3>1
      <4> HIDE DEF s
      <4>2. s = 0
        BY <4>1, UnderASecond
      <4> QED
        BY <4>2 DEF s
    <3> QED
      BY <1>1, <1>3, <2>0, <3>2 DEF Mode
  <2> QED
    BY <2>1, <2>2
<1> QED
  BY <1>4, <1>5, <1>6

LEMMA NextWaits == Inv /\ Asked /\ Waits /\ [ServerNext]_serverVars => Asked' /\ Waits'
<1> SUFFICES ASSUME Inv, Asked, Waits, [ServerNext]_serverVars PROVE Asked' /\ Waits'
  OBVIOUS
<1>1. CASE UNCHANGED serverVars
  <2>1. UNCHANGED <<configVars, mode, mayWait>>
    BY <1>1 DEF serverVars, lifeVars, startVars
  <2>2. UNCHANGED Sources /\ UNCHANGED <<program, line, env, file, rest, path, given, cfg, at>>
    BY <2>1 DEF configVars, Sources
  <2>3. Waits'
    BY <2>1, <2>2 DEF Waits
  <2> QED
    BY <2>2, <2>3, StutterAsked
<1>2. CASE ConfigNext /\ UNCHANGED lifeVars
  <2>1. at \in Before /\ UNCHANGED <<mode, mayWait>>
    BY <1>2 DEF ConfigNext, ParseFlag, SetFlag, EndFlags, ApplyFile, ReadEnv, Check, Refuse, Before,
                lifeVars, startVars
  <2> QED
    BY <1>2, <2>1, ConfigAsked DEF Waits
<1>3. CASE OpenStorage
  <2>1. at' \in {"setup", "fatal"}
    BY <1>3 DEF OpenStorage, Forget
  <2> QED
    BY <1>3, <2>1, OpenStorageWaits DEF Waits, Before, Asked, Precedence
<1>4. CASE Later
  BY <1>4, LaterStages DEF Waits, Before, Stages, Asked, Precedence
<1> QED
  BY <1>1, <1>2, <1>3, <1>4 DEF ServerNext, Later

LEMMA WaitsInvariance == ServerSpec => [](Asked /\ Waits)
<1>1. ServerInit => Asked /\ Waits
  BY InitAsked DEF ServerInit, ConfigInit, Waits
<1> QED
  BY <1>1, Invariance, NextWaits, PTL DEF ServerSpec

-----------------------------------------------------------------------------
\* The theorems.

\* Each setting has the value of its strongest source: the environment where it parses, then
\* the last flag before the first free word, then the file, then the default (server.go:1-3);
\* and a program starts only with positive timeouts and intervals, where it needs them
\* (server.go:152-248, agent.go:112-195).
THEOREM StrongestSourceCounts == ServerSpec => []Precedence
<1>1. Asked => Precedence
  BY DEF Asked
<1> QED
  BY <1>1, WaitsInvariance, PTL

\* Of the updates answered with success the death of the process at any moment loses only those
\* that no Save begun afterwards has written, and none at all when the operator asked for a
\* database, or for a file with an interval under a second, but for a batch whose own Save
\* failed; unless Saves overlapped (file.go:49-57, main.go:68-117, 192-215, storage.go:112-133).
THEOREM AnsweredSurvives == ServerSpec => []LossWindow
<1>1. Inv /\ Waits => LossWindow
  <2> SUFFICES ASSUME Inv, Waits, ~overlapped
               PROVE  due \subseteq kept /\ (~mayWait => answered \ missed \subseteq kept)
    BY DEF LossWindow
  <2>1. due \subseteq kept
    BY DEF Inv, Saved
  <2>2. ASSUME ~mayWait, NEW r \in answered \ missed PROVE r \in kept
    BY <2>2 DEF Inv, Typed, Stored, Saved, Waits
  <2> QED
    BY <2>1, <2>2
<1> QED
  BY <1>1, Invariance, WaitsInvariance, PTL

\* When every stage of the shutdown ended before the timeout, what was answered is in the
\* file with what was restored, unless writing failed, and each of its sinks was notified of the
\* audit event, unless a full queue has dropped it (main.go:248-293, publisher.go:70-83).
THEOREM OrderlyExitLosesNothing == ServerSpec => []NothingLostOnExit
<1>1. Inv => NothingLostOnExit
  <2> SUFFICES ASSUME Inv, at = "exited", ~rushed
               PROVE  /\ mode # "none" /\ ~unsaved /\ ~overlapped =>
                             answered \cup (IF restored THEN {Old} ELSE {}) \subseteq kept
                      /\ \A s \in audits, r \in answered \cap Http :
                             \/ event[s][r] \in {"logged", "failed"}
                             \/ /\ event[s][r] = "dropped"
                                /\ Cardinality(Published(s)) > BufferSize
    BY DEF NothingLostOnExit
  <2>1. restored => Old \in kept
    BY DEF Inv, Restored
  <2>2. mode = "db" => answered \subseteq kept
    BY DEF Inv, Typed, Stored
  <2>3. mode \notin {"db", "none"} /\ ~unsaved /\ ~overlapped => answered \subseteq kept
    BY DEF Inv, Typed, LastSave, InFile
  <2>4. ASSUME NEW s \in audits, NEW r \in answered \cap Http
        PROVE  \/ event[s][r] \in {"logged", "failed"}
               \/ event[s][r] = "dropped" /\ Cardinality(Published(s)) > BufferSize
    <3>1. s \in Sinks /\ r \in Http /\ event[s][r] \in {"none", "queued", "dropped", "logged", "failed"}
      BY DEF Inv, Typed
    <3>2. event[s][r] \notin {"none", "queued"}
      BY <3>1 DEF Inv, Audited
    <3> QED
      BY <3>1, <3>2 DEF Inv, Crowded
  <2> QED
    BY <2>1, <2>2, <2>3, <2>4
<1> QED
  BY <1>1, Invariance, PTL

=============================================================================
