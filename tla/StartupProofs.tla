------------------------------ MODULE StartupProofs ------------------------------
(***************************************************************************)
(* Proofs about the start of the processes, for every set of lines and of  *)
(* configurations, and for integers of every width.                        *)
(***************************************************************************)
EXTENDS Startup, FoldProofs, TLAPS

-----------------------------------------------------------------------------
(***************************************************************************)
(* The inductive invariant: the parser, then the processes.                *)
(***************************************************************************)
\* argv has its places, and those that are still to be read are as they were.
Compacted ==
    /\ line \in Lines
    /\ argv = [k \in 0 .. Len(Arguments(line)) |-> argv[k]]
    /\ phase # "parsed" => argc = Len(Arguments(line)) + 1
    /\ current \in Nat
    /\ current <= Len(Arguments(line)) + 1
    /\ nextKeep \in 1 .. current
    /\ argv[0].shape = "word"
    /\ \A k \in 1 .. Len(Arguments(line)) : k >= current => argv[k] = Arguments(line)[k]

\* The id a node was told is a number, if it was told one.
IdIsNumber ==
    program = "node" =>
        /\ variable = [l \in {"id", "configfile"} |-> variable[l]]
        /\ variable["id"] \in Nat \cup {Undefined}

\* A process that was started has become what Init makes of the configuration.
StartedPbft ==
    /\ phase = "parsed" /\ program = "node"
    /\ \E id \in Ids : pbft = IF Readable THEN PbftInit(id, Config) ELSE Uninited

StartedCoin ==
    /\ phase = "parsed" /\ program = "node"
    /\ \E id \in Ids : coin = IF Readable THEN CoinInit(id, Config) ELSE Uninited

Inv ==
    /\ Compacted
    /\ IdIsNumber
    /\ pbft = Off \/ StartedPbft
    /\ coin = Off \/ StartedCoin

-----------------------------------------------------------------------------
(***************************************************************************)
(* The line, and where its items stand among the arguments.                *)
(***************************************************************************)
\* The arguments of each item.
Spelled(l) == [k \in DOMAIN l |-> Spelling(l[k])]

\* What an item is written as, by its kind.
LEMMA SpellingIs ==
  ASSUME NEW item, IsItem(item)
  PROVE  /\ item.kind \in {"arg", "short", "long", "eq"}
         /\ item.kind = "arg" => Len(Spelling(item)) = 1 /\ Spelling(item)[1] = item.arg
         /\ item.kind = "short" =>
               /\ Len(Spelling(item)) = 2 /\ Spelling(item)[2] = item.arg
               /\ Spelling(item)[1] = Arg("group", <<item.opt.short>>, FALSE, Word(""), Word("-x"))
         /\ item.kind = "long" =>
               /\ Len(Spelling(item)) = 2 /\ Spelling(item)[2] = item.arg
               /\ Spelling(item)[1] = Arg("long", <<item.opt.long>>, FALSE, Word(""), Word("--x"))
         /\ item.kind = "eq" =>
               /\ Len(Spelling(item)) = 1
               /\ Spelling(item)[1] = Arg("long", <<item.opt.long>>, TRUE, item.arg.text, Word("--x=v"))
         /\ Len(Spelling(item)) \in {1, 2}
         /\ \A S : (\A i \in {1, 2} : Spelling(item)[i] \in S) => Spelling(item) \in Seq(S)
<1> DEFINE a == Arg("group", <<item.opt.short>>, FALSE, Word(""), Word("-x"))
           b == Arg("long", <<item.opt.long>>, FALSE, Word(""), Word("--x"))
           c == Arg("long", <<item.opt.long>>, TRUE, item.arg.text, Word("--x=v"))
<1>1. item.kind \in {"arg", "short", "long", "eq"}
  BY DEF IsItem
<1>2. /\ item.kind = "arg" => Spelling(item) = <<item.arg>>
      /\ item.kind = "short" => Spelling(item) = <<a, item.arg>>
      /\ item.kind = "long" => Spelling(item) = <<b, item.arg>>
      /\ item.kind = "eq" => Spelling(item) = <<c>>
  <2> HIDE DEF a, b, c
  <2> QED
    BY DEF Spelling, a, b, c
<1> HIDE DEF a, b, c
<1>3. ASSUME NEW S, \A i \in {1, 2} : Spelling(item)[i] \in S PROVE Spelling(item) \in Seq(S)
  <2> DEFINE w == Spelling(item)
  <2>1. w = <<w[1]>> \/ w = <<w[1], w[2]>>
    BY <1>1, <1>2
  <2>2. w[1] \in S /\ w[2] \in S
    BY <1>3
  <2> HIDE DEF w
  <2>3. w \in Seq(S)
    BY <2>1, <2>2
  <2> QED
    BY <2>3 DEF w
<1>4. /\ item.kind = "arg" => Len(Spelling(item)) = 1 /\ Spelling(item)[1] = item.arg
      /\ item.kind = "short" =>
            Len(Spelling(item)) = 2 /\ Spelling(item)[2] = item.arg /\ Spelling(item)[1] = a
      /\ item.kind = "long" =>
            Len(Spelling(item)) = 2 /\ Spelling(item)[2] = item.arg /\ Spelling(item)[1] = b
      /\ item.kind = "eq" => Len(Spelling(item)) = 1 /\ Spelling(item)[1] = c
  BY <1>2
<1>5. Len(Spelling(item)) \in {1, 2}
  BY <1>1, <1>4
<1> QED
  BY <1>1, <1>3, <1>4, <1>5, Zenon DEF a, b, c

\* A line is a sequence of items.
LEMMA LineIs ==
  ASSUME NEW l \in Lines
  PROVE  /\ Len(l) \in Nat /\ DOMAIN l = 1 .. Len(l)
         /\ \A k \in 1 .. Len(l) : IsItem(l[k]) /\ (Cut(l[k]) => k = Len(l) /\ ~ l[k].arg.eq)
<1>1. l \in Seq({l[k] : k \in DOMAIN l})
  BY LinesAssumption
<1>2. Len(l) \in Nat /\ DOMAIN l = 1 .. Len(l)
  BY <1>1, LenProperties
<1> QED
  BY <1>2, LinesAssumption

\* Each item has its place among the arguments.
LEMMA ArgumentsLaid ==
  ASSUME NEW l \in Lines, NEW q, q = [k \in DOMAIN l |-> q[k]],
         \A k \in DOMAIN l : q[k] \in {<<>>, Spelling(l[k])}
  PROVE  \E P : IsLaidOut(P, q, FlattenSeq(q))
<1> DEFINE S == {Spelling(l[k])[i] : k \in DOMAIN l, i \in {1, 2}}
<1>1. ASSUME NEW k \in DOMAIN l PROVE q[k] \in Seq(S)
  <2>1. IsItem(l[k])
    BY LineIs
  <2>2. \A i \in {1, 2} : Spelling(l[k])[i] \in S
    OBVIOUS
  <2> HIDE DEF S
  <2>3. Spelling(l[k]) \in Seq(S)
    BY <2>1, <2>2, SpellingIs
  <2>4. q[k] = <<>> \/ q[k] = Spelling(l[k])
    OBVIOUS
  <2>5. <<>> \in Seq(S)
    OBVIOUS
  <2> QED
    BY <2>3, <2>4, <2>5
<1> HIDE DEF S
<1>2. q \in Seq(Seq(S))
  <2>1. q \in [1 .. Len(l) -> Seq(S)] /\ Len(l) \in Nat
    BY <1>1, LineIs
  <2> QED
    BY <2>1
<1> QED
  BY <1>2, FlattenLays

\* The arguments are finitely many.
LEMMA ArgumentsAre ==
  ASSUME NEW l \in Lines
  PROVE  /\ \E P : IsLaidOut(P, Spelled(l), Arguments(l))
         /\ Len(Arguments(l)) \in Nat
<1>1. Arguments(l) = FlattenSeq(Spelled(l))
  BY DEF Arguments, Spelled
<1>2. /\ Spelled(l) = [k \in DOMAIN l |-> Spelled(l)[k]]
      /\ \A k \in DOMAIN l : Spelled(l)[k] \in {<<>>, Spelling(l[k])}
      /\ Len(Spelled(l)) \in Nat
  BY LineIs DEF Spelled
<1>3. PICK P : IsLaidOut(P, Spelled(l), Arguments(l))
  BY <1>1, <1>2, ArgumentsLaid
<1>4. Len(Arguments(l)) \in Nat
  BY <1>2, <1>3 DEF IsLaidOut
<1> QED
  BY <1>3, <1>4

-----------------------------------------------------------------------------
(***************************************************************************)
(* The parser.                                                             *)
(***************************************************************************)
\* The long names of the options of a node, and the one that is a number.
LEMMA NodeOptionsAre ==
  ASSUME program = "node"
  PROVE  /\ {o.long : o \in Options(program)} = {"id", "configfile"}
         /\ \A o \in Options(program) :
               /\ o.long \in {"id", "configfile"}
               /\ o.long = "id" => o.type = "uint32_t"
               /\ o.default = <<>>
BY DEF Options, NodeOptions, Option

\* Init establishes the invariant.
LEMMA InvInit == StartInit => Inv
<1> SUFFICES ASSUME StartInit PROVE Inv
  OBVIOUS
<1> USE DEF StartInit, ParserInit
<1>1. line \in Lines /\ Len(Arguments(line)) \in Nat
  BY ArgumentsAre
<1>2. Compacted
  <2>1. argc - 1 = Len(Arguments(line))
    BY <1>1
  <2>2. argv = [k \in 0 .. Len(Arguments(line)) |->
                   IF k = 0 THEN Plain(Word("program")) ELSE Arguments(line)[k]]
    BY <2>1
  <2>3. argv[0].shape = "word"
    <3>1. argv[0] = Plain(Word("program"))
      BY <1>1, <2>2
    <3>2. Plain(Word("program")).shape = "word"
      BY DEF Plain, Arg
    <3> QED
      BY <3>1, <3>2
  <2>4. \A k \in 1 .. Len(Arguments(line)) : argv[k] = Arguments(line)[k]
    BY <1>1, <2>2
  <2>5. /\ argc = Len(Arguments(line)) + 1
        /\ current \in Nat /\ current <= Len(Arguments(line)) + 1
        /\ nextKeep \in 1 .. current
    BY <1>1
  <2>6. argv = [k \in 0 .. Len(Arguments(line)) |-> argv[k]]
    BY <2>2
  <2> QED
    BY <1>1, <2>3, <2>4, <2>5, <2>6 DEF Compacted
<1>3. IdIsNumber
  BY NodeOptionsAre DEF IdIsNumber, Initially
<1> QED
  BY <1>2, <1>3 DEF Inv

\* An argument nobody takes moves down, to a place that has been read.
LEMMA KeepCompacted ==
  ASSUME Compacted, Keep, current < argc, phase # "parsed", UNCHANGED <<line, argc, phase>>
  PROVE  Compacted'
<1> DEFINE N == Len(Arguments(line))
<1>1. N \in Nat /\ line' = line
  BY ArgumentsAre DEF Compacted
<1>2. /\ current \in Nat /\ current <= N
      /\ nextKeep \in 1 .. current
      /\ argv = [k \in 0 .. N |-> argv[k]]
  BY <1>1 DEF Compacted
<1>3. /\ argv' = [argv EXCEPT ![nextKeep] = argv[current]]
      /\ nextKeep' = nextKeep + 1
      /\ current' = current + 1
  BY DEF Keep
<1>4. nextKeep \in 0 .. N
  BY <1>1, <1>2
<1> HIDE DEF N
<1>5. /\ argv' = [k \in 0 .. N |-> argv'[k]]
      /\ \A k \in 0 .. N : k # nextKeep => argv'[k] = argv[k]
  BY <1>2, <1>3, <1>4
<1>6. argv'[0] = argv[0]
  BY <1>1, <1>2, <1>5
<1>7. \A k \in 1 .. N : k >= current' => argv'[k] = argv[k] /\ k >= current
  BY <1>1, <1>2, <1>3, <1>5
<1>8. current' <= N + 1 /\ current' \in Nat /\ nextKeep' \in 1 .. current'
  BY <1>1, <1>2, <1>3
<1> USE DEF N
<1>9. argv[0].shape = "word" /\ \A k \in 1 .. N : k >= current => argv[k] = Arguments(line)[k]
  BY DEF Compacted
<1>10. argc' = N + 1
  BY DEF Compacted
<1> HIDE DEF N
<1>11. /\ argv'[0].shape = "word"
       /\ \A k \in 1 .. N : k >= current' => argv'[k] = Arguments(line)[k]
  BY <1>6, <1>7, <1>9
<1> QED
  BY <1>1, <1>5, <1>8, <1>10, <1>11 DEF N, Compacted

\* Steps that read an argument and move none.
LEMMA ReadCompacted ==
  ASSUME Compacted, phase # "parsed", UNCHANGED <<line, argv, nextKeep>>,
         phase' = "parsed" \/ argc' = argc,
         current' \in current .. argc
  PROVE  Compacted'
<1>1. Len(Arguments(line)) \in Nat /\ argc = Len(Arguments(line)) + 1
  BY ArgumentsAre DEF Compacted
<1>2. current' \in Nat /\ current' <= Len(Arguments(line)) + 1 /\ current <= current'
  BY <1>1 DEF Compacted
<1>3. nextKeep' \in 1 .. current'
  BY <1>2 DEF Compacted
<1>4. \A k \in 1 .. Len(Arguments(line)) : k >= current' => argv[k] = Arguments(line)[k]
  <2>1. current \in Nat
    BY DEF Compacted
  <2>2. \A k \in 1 .. Len(Arguments(line)) : k >= current' => k >= current
    BY <1>1, <1>2, <2>1
  <2> QED
    BY <2>2 DEF Compacted
<1>5. phase' # "parsed" => argc' = Len(Arguments(line)) + 1
  BY <1>1
<1>6. /\ line \in Lines /\ argv[0].shape = "word"
      /\ argv = [k \in 0 .. Len(Arguments(line)) |-> argv[k]]
  BY DEF Compacted
<1> QED
  BY <1>2, <1>3, <1>4, <1>5, <1>6 DEF Compacted

\* What is stored for the id is in the range of its type.
LEMMA ParsedId ==
  ASSUME IdIsNumber, NEW name, NEW t, NEW next, UNCHANGED program,
         NEW o \in Called(program, name), ParseOption(o, t, next)
  PROVE  IdIsNumber'
<1> SUFFICES ASSUME program = "node"
             PROVE  /\ variable' = [l \in {"id", "configfile"} |-> variable'[l]]
                    /\ variable'["id"] \in Nat \cup {Undefined}
  BY DEF IdIsNumber
<1>1. /\ o.long \in {"id", "configfile"}
      /\ o.long = "id" => o.type = "uint32_t"
  BY NodeOptionsAre DEF Called
<1>2. /\ variable = [l \in {"id", "configfile"} |-> variable[l]]
      /\ variable["id"] \in Nat \cup {Undefined}
  BY DEF IdIsNumber
<1>3. CASE ~ Parses(o, t)
  BY <1>2, <1>3 DEF ParseOption
<1>4. CASE Parses(o, t)
  <2>1. variable' = [variable EXCEPT ![o.long] = Value(o, t)]
    BY <1>4 DEF ParseOption
  <2>2. o.long = "id" => Value(o, t) \in Nat
    <3> SUFFICES ASSUME o.long = "id" PROVE Value(o, t) \in Nat
      OBVIOUS
    <3>1. IntegerParses("uint32_t", t) /\ Value(o, t) = IntegerValue(t)
      BY <1>1, <1>4 DEF Parses, Value
    <3>2. ~ t.neg /\ Magnitude(t) \in 0 .. (Modulus - 1)
      BY <3>1 DEF IntegerParses, InRange
    <3> QED
      BY <3>1, <3>2 DEF IntegerValue
  <2> QED
    BY <1>1, <1>2, <2>1, <2>2
<1> QED
  BY <1>3, <1>4

\* A step of the parser keeps what has to do with it, and the parser steps no more
\* when it has ended.
LEMMA ParserStep ==
  ASSUME Compacted, IdIsNumber, ParserNext
  PROVE  Compacted' /\ IdIsNumber' /\ phase # "parsed"
<1>1. Len(Arguments(line)) \in Nat /\ current \in Nat
      /\ (phase # "parsed" => argc \in Nat /\ current <= argc)
  BY ArgumentsAre DEF Compacted
<1>2. CASE ReadWord
  <2>1. Keep /\ current < argc /\ phase # "parsed" /\ UNCHANGED <<program, line, argc, phase, variable>>
    BY <1>2 DEF ReadWord, At
  <2> QED
    BY <2>1, KeepCompacted DEF IdIsNumber
<1>3. CASE KeepRest
  <2>1. Keep /\ current < argc /\ phase # "parsed" /\ UNCHANGED <<program, line, argc, phase, variable>>
    BY <1>3 DEF KeepRest
  <2> QED
    BY <2>1, KeepCompacted DEF IdIsNumber
<1>4. CASE SyntaxError \/ UnknownOption \/ GroupedOption \/ MissingArgument
  <2>1. /\ phase # "parsed"
        /\ UNCHANGED <<program, line, argv, argc, current, nextKeep, variable>>
    BY <1>4 DEF SyntaxError, UnknownOption, GroupedOption, MissingArgument, Throw, Single, Flag, At
  <2> QED
    BY <1>1, <2>1, ReadCompacted DEF IdIsNumber
<1>5. CASE ReadEquals
  <2>1. phase # "parsed" /\ current < argc /\ UNCHANGED <<program, line, argv, argc, nextKeep>>
    BY <1>5 DEF ReadEquals, Single, Flag, At
  <2>2. PICK o \in Called(program, Name) : ParseOption(o, argv[current].value, current + 1)
    BY <1>5 DEF ReadEquals
  <2>3. current' = current + 1 \/ current' = current
    BY <2>2 DEF ParseOption
  <2>4. current' \in current .. argc
    BY <1>1, <2>1, <2>3
  <2> QED
    BY <2>1, <2>2, <2>4, ReadCompacted, ParsedId
<1>6. CASE ReadNext
  <2>1. phase # "parsed" /\ current + 1 < argc /\ UNCHANGED <<program, line, argv, argc, nextKeep>>
    BY <1>6 DEF ReadNext, Single, Flag, At
  <2>2. PICK o \in Called(program, Name) : ParseOption(o, argv[current + 1].text, current + 2)
    BY <1>6 DEF ReadNext
  <2>3. current' = current + 2 \/ current' = current
    BY <2>2 DEF ParseOption
  <2>4. current' \in current .. argc
    BY <1>1, <2>1, <2>3
  <2> QED
    BY <2>1, <2>2, <2>4, ReadCompacted, ParsedId
<1>7. CASE EndLoop
  <2>1. /\ phase = "loop"
        /\ current = argc \/ current < argc
        /\ current' = IF current = argc THEN current ELSE current + 1
        /\ UNCHANGED <<program, line, argv, argc, nextKeep, variable>>
    BY <1>7 DEF EndLoop, At
  <2>2. current' \in current .. argc
    BY <1>1, <2>1
  <2> QED
    BY <2>1, <2>2, ReadCompacted DEF IdIsNumber
<1>8. CASE Defaults
  <2>1. /\ phase = "defaults"
        /\ UNCHANGED <<program, line, argv, argc, current, nextKeep>>
    BY <1>8 DEF Defaults
  <2>2. Compacted'
    BY <1>1, <2>1, ReadCompacted
  <2>3. ASSUME program = "node" PROVE variable' = variable
    <3>1. Defaulted = {}
      BY <2>3, NodeOptionsAre DEF Defaulted
    <3>2. variable' = [l \in DOMAIN variable |-> variable[l]]
      BY <1>8, <3>1 DEF Defaults
    <3> QED
      BY <2>3, <3>2 DEF IdIsNumber
  <2> QED
    BY <2>1, <2>2, <2>3 DEF IdIsNumber
<1>9. CASE EndParse
  <2>1. /\ phase = "rest"
        /\ phase' = "parsed"
        /\ UNCHANGED <<program, line, argv, current, nextKeep, variable>>
    BY <1>9 DEF EndParse
  <2> QED
    BY <1>1, <2>1, ReadCompacted DEF IdIsNumber
<1> QED
  BY <1>2, <1>3, <1>4, <1>5, <1>6, <1>7, <1>8, <1>9 DEF ParserNext

-----------------------------------------------------------------------------
(***************************************************************************)
(* The processes.                                                          *)
(***************************************************************************)
\* What was started stays what it is while the parser is at rest.
LEMMA StartedStays ==
  ASSUME UNCHANGED parserVars
  PROVE  /\ pbft' = pbft => (StartedPbft <=> StartedPbft')
         /\ coin' = coin => (StartedCoin <=> StartedCoin')
         /\ Compacted => Compacted'
         /\ IdIsNumber => IdIsNumber'
<1>1. Ids' = Ids /\ Readable' = Readable /\ Config' = Config
  BY DEF parserVars, Ids, Readable, Config
<1> QED
  BY <1>1 DEF parserVars, StartedPbft, StartedCoin, Compacted, IdIsNumber

\* Every step keeps the invariant.
LEMMA InvStep == Inv /\ [StartNext]_vars => Inv'
<1> SUFFICES ASSUME Inv, [StartNext]_vars PROVE Inv'
  OBVIOUS
<1>1. CASE ParserNext /\ UNCHANGED <<pbft, coin, client>>
  <2>1. Compacted' /\ IdIsNumber' /\ phase # "parsed"
    BY <1>1, ParserStep DEF Inv
  <2>2. pbft = Off /\ coin = Off
    BY <2>1 DEF Inv, StartedPbft, StartedCoin
  <2> QED
    BY <1>1, <2>1, <2>2 DEF Inv, Off
<1>2. CASE StartPbft
  <2>1. UNCHANGED parserVars /\ coin' = coin
    BY <1>2 DEF StartPbft
  <2>2. /\ phase = "parsed" /\ program = "node"
        /\ \E id \in Ids : pbft' = IF Readable THEN PbftInit(id, Config) ELSE Uninited
    BY <1>2 DEF StartPbft, Parsed
  <2>3. Ids' = Ids /\ Readable' = Readable /\ Config' = Config
    BY <2>1 DEF parserVars, Ids, Readable, Config
  <2>4. StartedPbft'
    BY <2>1, <2>2, <2>3 DEF StartedPbft, parserVars
  <2> QED
    BY <2>1, <2>4, StartedStays DEF Inv, Off
<1>3. CASE StartCoin
  <2>1. UNCHANGED parserVars /\ pbft' = pbft
    BY <1>3 DEF StartCoin
  <2>2. /\ phase = "parsed" /\ program = "node"
        /\ \E id \in Ids : coin' = IF Readable THEN CoinInit(id, Config) ELSE Uninited
    BY <1>3 DEF StartCoin, Parsed
  <2>3. Ids' = Ids /\ Readable' = Readable /\ Config' = Config
    BY <2>1 DEF parserVars, Ids, Readable, Config
  <2>4. StartedCoin'
    BY <2>1, <2>2, <2>3 DEF StartedCoin, parserVars
  <2> QED
    BY <2>1, <2>4, StartedStays DEF Inv, Off
<1>4. CASE StartClient \/ UNCHANGED vars
  <2>1. UNCHANGED parserVars /\ pbft' = pbft /\ coin' = coin
    BY <1>4 DEF StartClient, vars
  <2> QED
    BY <2>1, StartedStays DEF Inv, Off
<1> QED
  BY <1>1, <1>2, <1>3, <1>4 DEF StartNext

\* The invariant holds throughout.
LEMMA AlwaysInv == Spec => []Inv
  BY InvInit, InvStep, PTL DEF Spec

\* An id is a number.
LEMMA IdsAreNumbers ==
  ASSUME IdIsNumber, program = "node", NEW id \in Ids
  PROVE  id \in Nat
BY DEF IdIsNumber, Ids

\* What serves after the configuration was read has an entry in it.
LEMMA CoinServes ==
  ASSUME NEW id \in Nat, NEW c, Size(c) \in Nat, CoinInit(id, c) # Ended
  PROVE  /\ id < Size(c)
         /\ CoinInit(id, c) = Process("serving", Port(c, id), Port(c, id) + 1000,
                                      c.keys[Port(c, id)], c.pbft_primary, <<>>)
BY DEF CoinInit

-----------------------------------------------------------------------------
(***************************************************************************)
(* Keys and addresses come through their texts unchanged (so it is for the *)
(* client, whose proofs have the same four lemmas).                        *)
(***************************************************************************)
\* Hex is read back by Unhex.
LEMMA HexRead ==
  ASSUME NEW bytes \in Seq(Bytes)
  PROVE  /\ Unhex(Hex(bytes)) = bytes
         /\ Hex(bytes) \in Seq(Nat)
         /\ Len(Hex(bytes)) = 2 * Len(bytes)
         /\ \A i \in 1 .. Len(bytes) :
               Hex(bytes)[2 * i - 1] * HexBase + Hex(bytes)[2 * i] = bytes[i]
<1> DEFINE text == Hex(bytes)
<1>1. text = FlattenSeq([i \in DOMAIN bytes |-> <<bytes[i] \div HexBase, bytes[i] % HexBase>>])
  BY DEF Hex
<1>2. HexBase \in Nat /\ HexBase > 0 /\ bytes \in Seq(0 .. HexBase * HexBase - 1)
  BY SigningAssumption DEF Bytes
<1> HIDE DEF text
<1>3. /\ text \in Seq(0 .. HexBase - 1)
      /\ Len(text) = 2 * Len(bytes)
      /\ [i \in 1 .. (Len(text) \div 2) |-> text[2 * i - 1] * HexBase + text[2 * i]] = bytes
  BY <1>1, <1>2, BytesRead
<1>4. text \in Seq(Nat)
  BY <1>2, <1>3
<1>5. Unhex(text) = bytes
  BY <1>3, Zenon DEF Unhex
<1>6. ASSUME NEW i \in 1 .. Len(bytes) PROVE text[2 * i - 1] * HexBase + text[2 * i] = bytes[i]
  <2>1. Len(text) \div 2 = Len(bytes)
    BY <1>3
  <2> QED
    BY <1>3, <2>1, Zenon
<1> QED
  BY <1>3, <1>4, <1>5, <1>6 DEF text

\* A private key is one byte or two.
LEMMA KeyBytes ==
  ASSUME NEW k \in Keys
  PROVE  LET B == HexBase * HexBase
         IN  /\ k \in Nat /\ B \in Nat /\ B > 4 /\ Bytes = 0 .. B - 1
             /\ k \div B \in Bytes /\ k % B \in Bytes
             /\ k = (k \div B) * B + (k % B)
<1> DEFINE B == HexBase * HexBase
<1>1. k \in Nat /\ HexBase \in Nat /\ HexBase >= 3 /\ k \div B \in Bytes
  BY SigningAssumption
<1>2. B \in Nat /\ B > 4
  <2>1. HexBase * HexBase \in Nat
    BY <1>1
  <2>2. HexBase * HexBase >= 3 * 3
    BY <1>1, ProductGrows
  <2> QED
    BY <2>1, <2>2
<1>3. Bytes = 0 .. B - 1
  BY DEF Bytes
<1>4. k % B \in 0 .. B - 1 /\ k = (k \div B) * B + (k % B)
  <2> HIDE DEF B
  <2> QED
    BY <1>1, <1>2, DivMod
<1> QED
  BY <1>1, <1>2, <1>3, <1>4

\* The bytes of a public key.
LEMMA PointRead ==
  ASSUME NEW k \in Keys
  PROVE  Unhex(GenAddr(k).addr) = Point(k)
<1> DEFINE B == HexBase * HexBase
<1>1. k \div B \in Bytes /\ k % B \in Bytes /\ 4 \in Bytes
  <2>1. B \in Nat /\ B > 4 /\ Bytes = 0 .. B - 1
    BY KeyBytes
  <2>2. 4 \in Bytes
    <3> HIDE DEF B
    <3> QED
      BY <2>1
  <2> QED
    BY <2>2, KeyBytes
<1>2. Point(k) = <<4, k \div B, k % B>>
  BY DEF Point
<1> HIDE DEF B
<1>3. Point(k) \in Seq(Bytes)
  BY <1>1, <1>2
<1>4. GenAddr(k).addr = Hex(Point(k))
  BY DEF GenAddr
<1> QED
  BY <1>3, <1>4, HexRead

\* A private key is the number its text says.
LEMMA KeyRead ==
  ASSUME NEW k \in Keys
  PROVE  HexToPrivate(GenAddr(k).priv) = k
<1> DEFINE B == HexBase * HexBase
<1>1. ASSUME NEW bytes \in Seq(Bytes)
      PROVE  /\ Len(bytes) = 1 => HexToPrivate(Hex(bytes)) = bytes[1]
             /\ Len(bytes) = 2 => HexToPrivate(Hex(bytes)) = bytes[1] * B + bytes[2]
  <2>1. HexBase \in Nat /\ bytes \in Seq(Nat)
    BY SigningAssumption DEF Bytes
  <2> QED
    BY <2>1, HexRead, NumberRead DEF HexToPrivate
<1>2. GenAddr(k).priv = IF k \in Bytes THEN Hex(<<k>>) ELSE Hex(<<k \div B, k % B>>)
  BY DEF GenAddr, PrivateHex
<1>3. k \div B \in Bytes /\ k % B \in Bytes /\ k = (k \div B) * B + (k % B)
  BY KeyBytes
<1> HIDE DEF B
<1>4. CASE k \in Bytes
  <2> DEFINE bytes == <<k>>
  <2>1. bytes \in Seq(Bytes) /\ Len(bytes) = 1 /\ bytes[1] = k
    BY <1>4
  <2>2. GenAddr(k).priv = Hex(bytes)
    BY <1>2, <1>4
  <2> HIDE DEF bytes
  <2> QED
    BY <1>1, <2>1, <2>2
<1>5. CASE k \notin Bytes
  <2> DEFINE bytes == <<k \div B, k % B>>
  <2>1. bytes \in Seq(Bytes) /\ Len(bytes) = 2 /\ bytes[1] = k \div B /\ bytes[2] = k % B
    BY <1>3
  <2>2. GenAddr(k).priv = Hex(bytes)
    BY <1>2, <1>5
  <2> HIDE DEF bytes
  <2> QED
    BY <1>1, <1>3, <2>1, <2>2
<1> QED
  BY <1>4, <1>5

\* A signature verifies for the key it was made with, and for what begins
\* like what was signed.
LEMMA SignatureIs ==
  ASSUME NEW k \in Keys, NEW r \in Seq(Bytes), NEW dgst, NEW other
  PROVE  ECDSA_verify(other, SigBytes(SigText(ECDSA_sign(HexToPrivate(GenAddr(k).priv), dgst, r))),
                      Unhex(GenAddr(k).addr))
         <=> Leftmost(other) = Leftmost(dgst)
<1>1. HexToPrivate(GenAddr(k).priv) = k /\ Unhex(GenAddr(k).addr) = Point(k)
  BY KeyRead, PointRead
<1>2. SigText(ECDSA_sign(k, dgst, r)) = [r |-> Hex(r), s |-> <<r, k, Leftmost(dgst)>>]
  <2>1. SigText(ECDSA_sign(k, dgst, r)) = [[r |-> r, s |-> <<r, k, Leftmost(dgst)>>] EXCEPT !.r = Hex(@)]
    BY DEF SigText, ECDSA_sign
  <2> QED
    BY <2>1
<1>3. SigBytes([r |-> Hex(r), s |-> <<r, k, Leftmost(dgst)>>]) = [r |-> r, s |-> <<r, k, Leftmost(dgst)>>]
  <2>1. Unhex(Hex(r)) = r
    BY HexRead
  <2> QED
    BY SMTT(30), <2>1 DEF SigBytes
<1> DEFINE sig == [r |-> r, s |-> <<r, k, Leftmost(dgst)>>]
<1>4. sig.r = r /\ sig.s = <<r, k, Leftmost(dgst)>>
  OBVIOUS
<1> HIDE DEF sig
<1>5. ECDSA_verify(other, sig, Point(k)) <=> Leftmost(other) = Leftmost(dgst)
  <2>1. \A x \in Keys : <<r, k, Leftmost(dgst)>> = <<r, x, Leftmost(other)>> <=> x = k /\ Leftmost(other) = Leftmost(dgst)
    OBVIOUS
  <2> QED
    BY <1>4, <2>1 DEF ECDSA_verify
<1> QED
  BY <1>1, <1>2, <1>3, <1>5 DEF sig

-----------------------------------------------------------------------------
(***************************************************************************)
(* What a message signs says which message it is.                          *)
(***************************************************************************)
\* The decimal digits of the numbers up to n.
AreDecimals(f, n) ==
    /\ f \in [0 .. n -> Seq(Nat)]
    /\ \A k \in 0 .. n :
          /\ k < 10 => f[k] = <<k>>
          /\ ~ (k < 10) => f[k] = Append(f[k \div 10], k % 10)

\* The recursion of Decimal comes to an end.
LEMMA DecimalsExist == ASSUME NEW n \in Nat PROVE \E f : AreDecimals(f, n)
<1> DEFINE S == {m \in Nat : \E f : AreDecimals(f, m)}
<1>1. 0 \in S
  <2> DEFINE f == [k \in 0 .. 0 |-> <<0>>]
  <2>1. <<0>> \in Seq(Nat) /\ \A k \in 0 .. 0 : k = 0
    OBVIOUS
  <2>2. f \in [0 .. 0 -> Seq(Nat)] /\ \A k \in 0 .. 0 : f[k] = <<k>> /\ k < 10
    BY <2>1
  <2> HIDE DEF f
  <2>3. AreDecimals(f, 0)
    BY <2>2 DEF AreDecimals
  <2> QED
    BY <2>3
<1>2. ASSUME NEW m \in S PROVE m + 1 \in S
  <2>1. PICK f : AreDecimals(f, m)
    OBVIOUS
  <2> DEFINE N == m + 1
             new == IF N < 10 THEN <<N>> ELSE Append(f[N \div 10], N % 10)
             g == [k \in 0 .. N |-> IF k = N THEN new ELSE f[k]]
  <2>2. m \in Nat /\ N \in Nat /\ \A k \in 0 .. N : k = N \/ k \in 0 .. m
    OBVIOUS
  <2>3. /\ f \in [0 .. m -> Seq(Nat)]
        /\ \A k \in 0 .. m :
              /\ k < 10 => f[k] = <<k>>
              /\ ~ (k < 10) => f[k] = Append(f[k \div 10], k % 10)
    BY <2>1 DEF AreDecimals
  <2>4. new \in Seq(Nat)
    <3>1. CASE N < 10
      BY <2>2, <3>1
    <3>2. CASE ~ (N < 10)
      <4>1. N \div 10 \in 0 .. m /\ N % 10 \in Nat
        BY <2>2, <3>2
      <4>2. f[N \div 10] \in Seq(Nat)
        BY <2>3, <4>1
      <4>3. Append(f[N \div 10], N % 10) \in Seq(Nat)
        BY <4>1, <4>2, AppendProperties
      <4> QED
        BY <3>2, <4>3
    <3> QED
      BY <3>1, <3>2
  <2>5. g \in [0 .. N -> Seq(Nat)]
    <3> HIDE DEF new, N
    <3> QED
      BY <2>2, <2>3, <2>4
  <2>6. \A k \in 0 .. N : k >= 10 => k \div 10 \in 0 .. m
    BY <2>2
  <2>7. ASSUME NEW k \in 0 .. N
        PROVE  /\ k < 10 => g[k] = <<k>>
               /\ ~ (k < 10) => g[k] = Append(g[k \div 10], k % 10)
    <3>1. k >= 10 => g[k \div 10] = f[k \div 10]
      BY <2>2, <2>6
    <3>2. CASE k = N
      <4>1. g[k] = new
        BY <3>2
      <4> HIDE DEF g
      <4> QED
        BY SMTT(30), <2>2, <3>1, <3>2, <4>1
    <3>3. CASE k # N
      <4>1. g[k] = f[k] /\ k \in 0 .. m
        BY <2>2, <3>3
      <4>2. CASE k < 10
        <5>1. f[k] = <<k>>
          BY <2>3, <4>1, <4>2, Zenon
        <5> QED
          BY <4>1, <4>2, <5>1, Zenon
      <4>3. CASE ~ (k < 10)
        <5>1. k >= 10
          BY <4>1, <4>3
        <5>2. g[k \div 10] = f[k \div 10] /\ f[k] = Append(f[k \div 10], k % 10)
          BY <2>3, <3>1, <4>1, <4>3, <5>1, Zenon
        <5> QED
          BY <4>1, <4>3, <5>2, Zenon
      <4> QED
        BY <4>2, <4>3, Zenon
    <3> QED
      BY <3>2, <3>3
  <2> HIDE DEF g, new
  <2>8. AreDecimals(g, N)
    BY <2>5, <2>7 DEF AreDecimals
  <2> QED
    BY <2>2, <2>8
<1>3. S = Nat
  <2> HIDE DEF S
  <2>1. S \in SUBSET Nat
    BY DEF S
  <2> QED
    BY <1>1, <1>2, <2>1, NatInd
<1> QED
  BY <1>3

\* Decimal is what the recursion defines.
LEMMA DecimalIs ==
  ASSUME NEW n \in Nat
  PROVE  \E f : AreDecimals(f, n) /\ Decimal(n) = f[n]
<1> DEFINE Defines(f) == f = [k \in 0 .. n |-> IF k < 10 THEN <<k>> ELSE Append(f[k \div 10], k % 10)]
           c == CHOOSE f : Defines(f)
<1>1. Decimal(n) = c[n]
  BY Zenon DEF Decimal
<1>2. PICK g : AreDecimals(g, n)
  BY DecimalsExist
<1>3. Defines(g)
  BY <1>2 DEF AreDecimals
<1>4. Defines(c)
  BY <1>3, Zenon
<1> HIDE DEF c
<1>5. \A k \in 0 .. n :
         /\ k < 10 => c[k] = <<k>>
         /\ ~ (k < 10) => c[k] = Append(c[k \div 10], k % 10)
  BY <1>4
<1> DEFINE S == {m \in Nat : \A k \in 0 .. n : k <= m => c[k] \in Seq(Nat)}
<1>6. 0 \in S
  <2> SUFFICES ASSUME NEW k \in 0 .. n, k <= 0 PROVE c[k] \in Seq(Nat)
    OBVIOUS
  <2>1. k < 10 /\ <<k>> \in Seq(Nat)
    OBVIOUS
  <2>2. c[k] = <<k>>
    BY <1>5, <2>1, Zenon
  <2> QED
    BY <2>1, <2>2, Zenon
<1>7. ASSUME NEW m \in S PROVE m + 1 \in S
  <2> SUFFICES ASSUME NEW k \in 0 .. n, k = m + 1 PROVE c[k] \in Seq(Nat)
    <3>1. m \in Nat /\ \A k \in 0 .. n : k <= m + 1 => k <= m \/ k = m + 1
      OBVIOUS
    <3> QED
      BY <3>1
  <2>1. CASE k < 10
    <3>1. <<k>> \in Seq(Nat)
      OBVIOUS
    <3> QED
      BY <1>5, <2>1, <3>1
  <2>2. CASE ~ (k < 10)
    <3>1. k \div 10 \in 0 .. n /\ k \div 10 <= m /\ k % 10 \in Nat
      BY <2>2
    <3>2. c[k \div 10] \in Seq(Nat)
      BY <3>1
    <3>3. Append(c[k \div 10], k % 10) \in Seq(Nat)
      BY <3>1, <3>2, AppendProperties
    <3> QED
      BY <1>5, <2>2, <3>3
  <2> QED
    BY <2>1, <2>2
<1>8. S = Nat
  <2> HIDE DEF S
  <2>1. S \in SUBSET Nat
    BY DEF S
  <2> QED
    BY <1>6, <1>7, <2>1, NatInd
<1>9. c \in [0 .. n -> Seq(Nat)]
  <2>1. \A k \in 0 .. n : c[k] \in Seq(Nat)
    BY <1>8
  <2>2. c = [k \in 0 .. n |-> c[k]]
    BY <1>4
  <2> QED
    BY <2>1, <2>2
<1>10. AreDecimals(c, n)
  BY <1>5, <1>9 DEF AreDecimals
<1> QED
  BY <1>1, <1>10

\* What Append adds, and to what.
LEMMA AppendIs ==
  ASSUME NEW u \in Seq(Nat), NEW x \in Nat
  PROVE  /\ Append(u, x) \in Seq(Nat)
         /\ Len(u) \in Nat
         /\ Len(Append(u, x)) = Len(u) + 1
         /\ Append(u, x)[Len(u) + 1] = x
         /\ \A i \in 1 .. Len(u) : Append(u, x)[i] = u[i]
         /\ u = [i \in 1 .. Len(u) |-> u[i]]
  OBVIOUS

\* A sequence is another one with a number behind it, and no other.
IsLonger(w, u, x) == u \in Seq(Nat) /\ x \in Nat /\ w = Append(u, x)

\* So what it is made of is known.
LEMMA AppendSame ==
  ASSUME NEW w, NEW u, NEW x, NEW v, NEW y, IsLonger(w, u, x), IsLonger(w, v, y)
  PROVE  u = v /\ x = y
<1>1. /\ u \in Seq(Nat) /\ x \in Nat /\ w = Append(u, x)
      /\ v \in Seq(Nat) /\ y \in Nat /\ w = Append(v, y)
  BY DEF IsLonger
<1>2. ASSUME NEW p \in Seq(Nat), NEW z \in Nat, w = Append(p, z)
      PROVE  /\ Len(p) \in Nat /\ Len(w) = Len(p) + 1 /\ w[Len(p) + 1] = z
             /\ \A i \in 1 .. Len(p) : w[i] = p[i]
  BY <1>2, AppendIs
<1>3. /\ Len(u) \in Nat /\ Len(w) = Len(u) + 1 /\ w[Len(u) + 1] = x
      /\ \A i \in 1 .. Len(u) : w[i] = u[i]
  BY <1>1, <1>2
<1>4. /\ Len(v) \in Nat /\ Len(w) = Len(v) + 1 /\ w[Len(v) + 1] = y
      /\ \A i \in 1 .. Len(v) : w[i] = v[i]
  BY <1>1, <1>2
<1>5. Len(u) = Len(v)
  BY <1>3, <1>4
<1>6. x = y /\ \A i \in 1 .. Len(u) : u[i] = v[i]
  BY <1>3, <1>4, <1>5
<1> QED
  BY <1>1, <1>5, <1>6, AppendIs

\* The digits of a number of one digit, and of a greater one.
LEMMA DigitsAre ==
  ASSUME NEW n \in Nat, NEW f, AreDecimals(f, n), NEW a \in 0 .. n
  PROVE  /\ f[a] \in Seq(Nat) /\ Len(f[a]) \in Nat \ {0}
         /\ a < 10 => f[a] = <<a>> /\ Len(f[a]) = 1
         /\ ~ (a < 10) =>
               /\ a \div 10 \in 0 .. n /\ a \div 10 < a /\ a % 10 \in Nat
               /\ a = (a \div 10) * 10 + (a % 10)
               /\ IsLonger(f[a], f[a \div 10], a % 10)
               /\ Len(f[a]) > 1
<1>1. \A k \in 0 .. n :
         /\ k < 10 => f[k] = <<k>>
         /\ ~ (k < 10) => f[k] = Append(f[k \div 10], k % 10)
  BY Zenon DEF AreDecimals
<1>5. \A k \in 0 .. n : f[k] \in Seq(Nat)
  BY DEF AreDecimals
<1>2. ASSUME NEW k \in 0 .. n, k < 10 PROVE f[k] = <<k>> /\ Len(f[k]) = 1
  <2>1. f[k] = <<k>>
    BY <1>1, <1>2, Zenon
  <2>2. Len(<<k>>) = 1
    OBVIOUS
  <2> QED
    BY <2>1, <2>2, Zenon
<1>3. ASSUME NEW k \in 0 .. n, ~ (k < 10)
      PROVE  /\ k \div 10 \in 0 .. n /\ k \div 10 < k /\ k % 10 \in Nat
             /\ k = (k \div 10) * 10 + (k % 10)
             /\ IsLonger(f[k], f[k \div 10], k % 10)
             /\ Len(f[k \div 10]) \in Nat
             /\ Len(f[k]) = Len(f[k \div 10]) + 1
  <2>1. /\ k \div 10 \in 0 .. n /\ k \div 10 < k /\ k % 10 \in Nat
        /\ k = (k \div 10) * 10 + (k % 10)
    BY <1>3
  <2>2. f[k \div 10] \in Seq(Nat)
    BY <1>5, <2>1
  <2>3. f[k] = Append(f[k \div 10], k % 10)
    BY <1>1, <1>3, Zenon
  <2>4. /\ Len(f[k \div 10]) \in Nat
        /\ Len(Append(f[k \div 10], k % 10)) = Len(f[k \div 10]) + 1
    BY <2>1, <2>2, AppendIs
  <2> QED
    BY <2>1, <2>2, <2>3, <2>4 DEF IsLonger
<1>4. \A k \in 0 .. n : Len(f[k]) \in Nat \ {0}
  <2> SUFFICES ASSUME NEW k \in 0 .. n PROVE Len(f[k]) \in Nat \ {0}
    OBVIOUS
  <2>1. CASE k < 10
    BY <1>2, <2>1
  <2>2. CASE ~ (k < 10)
    BY <1>3, <2>2
  <2> QED
    BY <2>1, <2>2
<1>6. ASSUME ~ (a < 10) PROVE Len(f[a]) > 1
  <2>1. a \div 10 \in 0 .. n /\ Len(f[a]) = Len(f[a \div 10]) + 1
    BY <1>3, <1>6
  <2>2. Len(f[a \div 10]) \in Nat \ {0}
    BY <1>4, <2>1
  <2> QED
    BY <2>1, <2>2
<1> QED
  BY <1>2, <1>3, <1>4, <1>5, <1>6, Zenon

\* Two numbers have different digits.
LEMMA DecimalsDiffer ==
  ASSUME NEW m \in Nat, NEW n \in Nat, Decimal(m) = Decimal(n)
  PROVE  m = n
<1>1. PICK f : AreDecimals(f, m) /\ Decimal(m) = f[m]
  BY DecimalIs
<1>2. PICK g : AreDecimals(g, n) /\ Decimal(n) = g[n]
  BY DecimalIs
<1> DEFINE Differ(x) == \A a \in 0 .. m, b \in 0 .. n : a < x /\ b < x /\ f[a] = g[b] => a = b
           S == {x \in Nat : Differ(x)}
<1>3. 0 \in S
  OBVIOUS
<1>4. ASSUME NEW x \in S PROVE x + 1 \in S
  <2> SUFFICES ASSUME NEW a \in 0 .. m, NEW b \in 0 .. n, a < x + 1, b < x + 1, f[a] = g[b]
               PROVE  a = b
    OBVIOUS
  <2>1. x \in Nat /\ Differ(x)
    OBVIOUS
  <2>2. Len(f[a]) = Len(g[b])
    OBVIOUS
  <2>3. CASE a < 10 /\ b < 10
    <3>1. f[a] = <<a>> /\ g[b] = <<b>>
      BY SMTT(30), <1>1, <1>2, <2>3, DigitsAre
    <3>2. <<a>> = <<b>>
      BY <3>1
    <3> QED
      BY <3>2
  <2>4. CASE ~ (a < 10) /\ ~ (b < 10)
    <3> DEFINE p == a \div 10
               q == b \div 10
               r == a % 10
               t == b % 10
    <3>1. /\ p \in 0 .. m /\ p < a /\ r \in Nat /\ a = p * 10 + r
          /\ IsLonger(f[a], f[p], r)
      BY <1>1, <2>4, DigitsAre
    <3>2. /\ q \in 0 .. n /\ q < b /\ t \in Nat /\ b = q * 10 + t
          /\ IsLonger(g[b], g[q], t)
      BY <1>2, <2>4, DigitsAre
    <3> HIDE DEF p, q, r, t
    <3>3. f[p] = g[q] /\ r = t
      BY <3>1, <3>2, AppendSame
    <3>4. p < x /\ q < x
      BY <2>1, <3>1, <3>2
    <3>5. p = q
      BY <2>1, <3>1, <3>2, <3>3, <3>4
    <3> QED
      BY <3>1, <3>2, <3>3, <3>5
  <2>5. CASE a < 10 /\ ~ (b < 10)
    <3>1. Len(f[a]) = 1 /\ Len(g[b]) > 1
      BY <1>1, <1>2, <2>5, DigitsAre
    <3> QED
      BY <2>2, <3>1
  <2>6. CASE ~ (a < 10) /\ b < 10
    <3>1. Len(f[a]) > 1 /\ Len(g[b]) = 1
      BY <1>1, <1>2, <2>6, DigitsAre
    <3> QED
      BY <2>2, <3>1
  <2> QED
    BY <2>3, <2>4, <2>5, <2>6
<1>5. S = Nat
  <2> HIDE DEF S
  <2>1. S \in SUBSET Nat
    BY DEF S
  <2> QED
    BY <1>3, <1>4, <2>1, NatInd
<1>6. PICK x \in Nat : m < x /\ n < x
  <2>1. m < m + n + 1 /\ n < m + n + 1 /\ m + n + 1 \in Nat
    OBVIOUS
  <2> QED
    BY <2>1
<1>7. Differ(x)
  BY <1>5
<1>8. m \in 0 .. m /\ n \in 0 .. n /\ f[m] = g[n]
  <2>1. f[m] = g[n]
    BY <1>1, <1>2, Zenon
  <2> QED
    BY <2>1
<1> QED
  BY <1>6, <1>7, <1>8

\* A sequence is two others put together.
IsJoined(w, u, v) ==
    /\ Len(w) = Len(u) + Len(v)
    /\ \A i \in 1 .. Len(u) : w[i] = u[i]
    /\ \A i \in 1 .. Len(v) : w[Len(u) + i] = v[i]

\* \o puts them together.
LEMMA ConcatIs ==
  ASSUME NEW S, NEW u \in Seq(S), NEW v \in Seq(S)
  PROVE  u \o v \in Seq(S) /\ IsJoined(u \o v, u, v)
<1> DEFINE w == u \o v
<1>1. /\ w \in Seq(S)
      /\ Len(w) = Len(u) + Len(v)
      /\ \A i \in 1 .. Len(u) + Len(v) : w[i] = IF i <= Len(u) THEN u[i] ELSE v[i - Len(u)]
  BY ConcatProperties
<1>2. Len(u) \in Nat /\ Len(v) \in Nat
  OBVIOUS
<1> HIDE DEF w
<1>3. \A i \in 1 .. Len(u) : w[i] = u[i]
  BY <1>1, <1>2
<1>4. ASSUME NEW i \in 1 .. Len(v) PROVE w[Len(u) + i] = v[i]
  <2>1. /\ Len(u) + i \in 1 .. Len(u) + Len(v)
        /\ ~ (Len(u) + i <= Len(u))
        /\ (Len(u) + i) - Len(u) = i
    BY <1>2
  <2> QED
    BY <1>1, <2>1
<1> QED
  BY <1>1, <1>3, <1>4 DEF w, IsJoined

\* What is signed of two texts, compared symbol by symbol.
LEMMA LeftmostSame ==
  ASSUME NEW u \in Seq(Nat), NEW v \in Seq(Nat), Len(u) # 0, Len(v) # 0
  PROVE  /\ Leftmost(u) = Leftmost(v) => u[1] = v[1]
         /\ Len(u) = Len(v) =>
               (Leftmost(u) = Leftmost(v) <=> \A i \in 1 .. Len(u) : i <= Width => u[i] = v[i])
<1> DEFINE Some(w) == IF Len(w) < Width THEN Len(w) ELSE Width
<1>1. ASSUME NEW w \in Seq(Nat), Len(w) # 0
      PROVE  /\ Len(w) \in Nat /\ Some(w) \in 1 .. Len(w)
             /\ Leftmost(w) = [i \in 1 .. Some(w) |-> w[i]]
             /\ \A i \in 1 .. Len(w) : i <= Width <=> i \in 1 .. Some(w)
  <2>1. Len(w) \in Nat /\ Width \in Nat \ {0} /\ Some(w) \in 1 .. Len(w)
    BY <1>1, SigningAssumption
  <2>2. \A i \in 1 .. Len(w) : i <= Width <=> i \in 1 .. Some(w)
    BY <2>1
  <2>3. Leftmost(w) = SubSeq(w, 1, Some(w))
    BY DEF Leftmost
  <2> HIDE DEF Some
  <2>4. SubSeq(w, 1, Some(w)) = [i \in 1 .. Some(w) |-> w[i]]
    BY <2>1
  <2> QED
    BY <2>1, <2>2, <2>3, <2>4
<1>2. /\ Len(u) \in Nat /\ Some(u) \in 1 .. Len(u)
      /\ Leftmost(u) = [i \in 1 .. Some(u) |-> u[i]]
      /\ \A i \in 1 .. Len(u) : i <= Width <=> i \in 1 .. Some(u)
  BY <1>1
<1>3. /\ Len(v) \in Nat /\ Some(v) \in 1 .. Len(v)
      /\ Leftmost(v) = [i \in 1 .. Some(v) |-> v[i]]
  BY <1>1
<1>4. Len(u) = Len(v) => Some(u) = Some(v)
  OBVIOUS
<1> HIDE DEF Some
<1>5. 1 \in 1 .. Some(u) /\ 1 \in 1 .. Some(v)
  BY <1>2, <1>3
<1>6. ASSUME Leftmost(u) = Leftmost(v) PROVE u[1] = v[1]
  BY <1>2, <1>3, <1>5, <1>6
<1>7. ASSUME Len(u) = Len(v)
      PROVE  Leftmost(u) = Leftmost(v) <=> \A i \in 1 .. Len(u) : i <= Width => u[i] = v[i]
  <2>1. Leftmost(u) = Leftmost(v) <=> \A i \in 1 .. Some(u) : u[i] = v[i]
    BY <1>2, <1>3, <1>4, <1>7
  <2>2. \A i \in 1 .. Some(u) : i \in 1 .. Len(u)
    BY <1>2
  <2> QED
    BY <1>2, <2>1, <2>2
<1> QED
  BY <1>6, <1>7

\* A text is a number of one symbol, the view 0, the digits of another number, and
\* a digest.
IsText(w, t, e, d) ==
    /\ w \in Seq(Nat)
    /\ Len(w) = 2 + Len(e) + Len(d)
    /\ w[1] = t
    /\ w[2] = 0
    /\ \A i \in 1 .. Len(e) : w[2 + i] = e[i]
    /\ \A i \in 1 .. Len(d) : w[2 + Len(e) + i] = d[i]

\* That is what SignedText makes.
LEMMA TextIs ==
  ASSUME NEW t \in Nat, NEW e \in Seq(Nat), NEW d \in Seq(Nat)
  PROVE  IsText(((<<t>> \o <<0>>) \o e) \o d, t, e, d)
<1> DEFINE a == <<t>>
           z == <<0>>
<1>1. /\ a \in Seq(Nat) /\ z \in Seq(Nat) /\ Len(a) = 1 /\ Len(z) = 1 /\ a[1] = t /\ z[1] = 0
  OBVIOUS
<1> HIDE DEF a, z
<1> DEFINE b == a \o z
<1>2. b \in Seq(Nat) /\ IsJoined(b, a, z)
  BY <1>1, ConcatIs
<1> HIDE DEF b
<1> DEFINE c == b \o e
<1>3. c \in Seq(Nat) /\ IsJoined(c, b, e)
  BY <1>2, ConcatIs
<1> HIDE DEF c
<1> DEFINE w == c \o d
<1>4. w \in Seq(Nat) /\ IsJoined(w, c, d)
  BY <1>3, ConcatIs
<1> HIDE DEF w
<1>5. Len(e) \in Nat /\ Len(d) \in Nat
  OBVIOUS
<1>6. Len(b) = 2 /\ b[1] = t /\ b[2] = 0
  BY <1>1, <1>2 DEF IsJoined
<1>7. /\ Len(c) = 2 + Len(e) /\ c[1] = t /\ c[2] = 0
      /\ \A i \in 1 .. Len(e) : c[2 + i] = e[i]
  BY <1>3, <1>5, <1>6 DEF IsJoined
<1>8. /\ Len(w) = 2 + Len(e) + Len(d)
      /\ \A i \in 1 .. 2 + Len(e) : w[i] = c[i]
      /\ \A i \in 1 .. Len(d) : w[2 + Len(e) + i] = d[i]
  BY <1>4, <1>7 DEF IsJoined
<1>9. /\ 1 \in 1 .. 2 + Len(e) /\ 2 \in 1 .. 2 + Len(e)
      /\ \A i \in 1 .. Len(e) : 2 + i \in 1 .. 2 + Len(e)
  BY <1>5
<1>10. IsText(w, t, e, d)
  BY <1>4, <1>7, <1>8, <1>9 DEF IsText
<1> QED
  BY <1>10 DEF w, c, b, a, z

\* What is signed of a text is the same in another, and likewise for a digest
\* behind l digits of a number.
SameSigned(w, w2) == \A i \in 1 .. Len(w) : i <= Width => w[i] = w2[i]
SameDigest(d, d2, l) == \A i \in 1 .. Len(d) : 2 + l + i <= Width => d[i] = d2[i]

\* Two texts with digits and digests of the same lengths: part by part.
LEMMA TextsAgree ==
  ASSUME NEW t \in Nat, NEW e \in Seq(Nat), NEW d \in Seq(Nat), NEW w, IsText(w, t, e, d),
         NEW t2 \in Nat, NEW e2 \in Seq(Nat), NEW d2 \in Seq(Nat), NEW w2, IsText(w2, t2, e2, d2),
         Len(e) = Len(e2), Len(d) = Len(d2), Len(e) + 2 <= Width
  PROVE  SameSigned(w, w2) <=> t = t2 /\ e = e2 /\ SameDigest(d, d2, Len(e))
<1> DEFINE l == Len(e)
           k == Len(d)
<1>1. l \in Nat /\ k \in Nat /\ Width \in Nat /\ l + 2 <= Width /\ Len(w) = 2 + l + k
  BY SigningAssumption DEF IsText
<1>2. /\ w[1] = t /\ w[2] = 0 /\ w2[1] = t2 /\ w2[2] = 0
      /\ \A i \in 1 .. l : w[2 + i] = e[i] /\ w2[2 + i] = e2[i]
      /\ \A i \in 1 .. k : w[2 + l + i] = d[i] /\ w2[2 + l + i] = d2[i]
  BY DEF IsText
<1>3. e = e2 <=> \A i \in 1 .. l : e[i] = e2[i]
  <2>1. e = [i \in 1 .. l |-> e[i]] /\ e2 = [i \in 1 .. l |-> e2[i]]
    OBVIOUS
  <2> HIDE DEF l
  <2> QED
    BY <2>1
<1> HIDE DEF l, k
<1>4. ASSUME \A i \in 1 .. Len(w) : i <= Width => w[i] = w2[i]
      PROVE  /\ t = t2
             /\ \A i \in 1 .. l : e[i] = e2[i]
             /\ \A i \in 1 .. k : 2 + l + i <= Width => d[i] = d2[i]
  <2>1. 1 \in 1 .. Len(w) /\ 1 <= Width
    BY <1>1
  <2>2. \A i \in 1 .. l : 2 + i \in 1 .. Len(w) /\ 2 + i <= Width
    BY <1>1
  <2>3. \A i \in 1 .. k : 2 + l + i \in 1 .. Len(w)
    BY <1>1
  <2> QED
    BY <1>2, <1>4, <2>1, <2>2, <2>3
<1>5. ASSUME t = t2, \A i \in 1 .. l : e[i] = e2[i],
             \A i \in 1 .. k : 2 + l + i <= Width => d[i] = d2[i],
             NEW i \in 1 .. Len(w), i <= Width
      PROVE  w[i] = w2[i]
  <2>1. CASE i <= 2
    <3>1. i = 1 \/ i = 2
      BY <2>1
    <3> QED
      BY <1>2, <1>5, <3>1
  <2>2. CASE i > 2 /\ i <= 2 + l
    <3>1. i - 2 \in 1 .. l /\ 2 + (i - 2) = i
      BY <1>1, <2>2
    <3> QED
      BY <1>2, <1>5, <3>1
  <2>3. CASE i > 2 + l
    <3>1. i - 2 - l \in 1 .. k /\ 2 + l + (i - 2 - l) = i
      BY <1>1, <2>3
    <3> QED
      BY <1>2, <1>5, <3>1
  <2>4. i <= 2 \/ (i > 2 /\ i <= 2 + l) \/ i > 2 + l
    BY <1>1
  <2> QED
    BY <2>1, <2>2, <2>3, <2>4
<1>6. (\A i \in 1 .. Len(w) : i <= Width => w[i] = w2[i])
      <=> /\ t = t2
          /\ \A i \in 1 .. l : e[i] = e2[i]
          /\ \A i \in 1 .. k : 2 + l + i <= Width => d[i] = d2[i]
  BY <1>4, <1>5
<1> QED
  BY <1>3, <1>6 DEF l, k, SameSigned, SameDigest

\* The text of a message of a process.
LEMMA MessageText ==
  ASSUME NEW p, NEW m \in Messages(p)
  PROVE  /\ IsText(SignedText(m), ToInt(m.mtype), Decimal(m.seq), m.digest)
         /\ m.mtype \in {"Preprepare", "Prepare", "Commit"}
         /\ ToInt(m.mtype) \in Nat
         /\ m.seq \in Nat
         /\ Decimal(m.seq) \in Seq(Nat)
         /\ Len(Decimal(m.seq)) + 2 <= Width
         /\ m.digest \in Digests
         /\ m.digest \in Seq(Nat)
<1>1. /\ m.mtype \in {"Preprepare", "Prepare", "Commit"} /\ m.view_id = 0
      /\ m.seq \in Numbers /\ m.digest \in Digests
  BY DEF Messages
<1>2. ToInt(m.mtype) \in Nat
  BY <1>1 DEF ToInt
<1>3. /\ m.seq \in Nat /\ Len(Decimal(m.seq)) + 2 <= Width /\ m.digest \in Seq(Nat)
  BY <1>1, MessagesAssumption
<1>4. ASSUME NEW n \in Nat PROVE Decimal(n) \in Seq(Nat)
  <2>1. PICK f : AreDecimals(f, n) /\ Decimal(n) = f[n]
    BY DecimalIs
  <2> QED
    BY <2>1 DEF AreDecimals
<1>5. Decimal(0) = <<0>>
  <2>1. PICK f : AreDecimals(f, 0) /\ Decimal(0) = f[0]
    BY DecimalIs
  <2>2. f[0] = <<0>>
    BY <2>1, DigitsAre
  <2> QED
    BY <2>1, <2>2
<1>6. Decimal(m.seq) \in Seq(Nat)
  BY <1>3, <1>4
<1>7. SignedText(m) = ((<<ToInt(m.mtype)>> \o <<0>>) \o Decimal(m.seq)) \o m.digest
  <2>1. SignedText(m) = ((<<ToInt(m.mtype)>> \o Decimal(m.view_id)) \o Decimal(m.seq)) \o m.digest
    BY Zenon DEF SignedText
  <2> QED
    BY <1>1, <1>5, <2>1, Zenon
<1> DEFINE t == ToInt(m.mtype)
           e == Decimal(m.seq)
           d == m.digest
<1>8. t \in Nat /\ e \in Seq(Nat) /\ d \in Seq(Nat)
  BY <1>2, <1>3, <1>6, Zenon
<1>9. SignedText(m) = ((<<t>> \o <<0>>) \o e) \o d
  BY <1>7, Zenon
<1> HIDE DEF t, e, d
<1>10. IsText(SignedText(m), t, e, d)
  BY <1>8, <1>9, TextIs
<1> QED
  BY <1>1, <1>2, <1>3, <1>6, <1>10 DEF t, e, d

\* Which messages have texts of which the same is signed.
LEMMA MessagesAgree ==
  ASSUME NEW p, NEW m \in Messages(p), NEW other \in Messages(p)
  PROVE  /\ Leftmost(SignedText(other)) = Leftmost(SignedText(m)) => other.mtype = m.mtype
         /\ Len(Decimal(other.seq)) = Len(Decimal(m.seq)) =>
               (Leftmost(SignedText(other)) = Leftmost(SignedText(m))
                <=> /\ other.mtype = m.mtype
                    /\ other.seq = m.seq
                    /\ SameBeginning(m.digest, other.digest, m.seq))
<1> DEFINE w == SignedText(other)
           v == SignedText(m)
           t1 == ToInt(m.mtype)
           t2 == ToInt(other.mtype)
           e1 == Decimal(m.seq)
           e2 == Decimal(other.seq)
           d1 == m.digest
           d2 == other.digest
<1>1. /\ IsText(v, t1, e1, d1) /\ t1 \in Nat /\ e1 \in Seq(Nat) /\ m.seq \in Nat
      /\ m.mtype \in {"Preprepare", "Prepare", "Commit"} /\ d1 \in Seq(Nat)
      /\ Len(e1) + 2 <= Width /\ d1 \in Digests
  BY MessageText
<1>2. /\ IsText(w, t2, e2, d2) /\ t2 \in Nat /\ e2 \in Seq(Nat) /\ other.seq \in Nat
      /\ other.mtype \in {"Preprepare", "Prepare", "Commit"} /\ d2 \in Seq(Nat)
      /\ d2 \in Digests
  BY MessageText
<1>3. t1 = t2 <=> other.mtype = m.mtype
  BY <1>1, <1>2 DEF ToInt
<1>4. e1 = e2 <=> other.seq = m.seq
  BY <1>1, <1>2, DecimalsDiffer
<1>5. Len(d1) = Len(d2)
  BY <1>1, <1>2, MessagesAssumption
<1>6. SameBeginning(d1, d2, m.seq)
      <=> \A i \in 1 .. Len(d1) : 2 + Len(e1) + i <= Width => d2[i] = d1[i]
  BY DEF SameBeginning
<1> HIDE DEF w, v, t1, t2, e1, e2, d1, d2
<1>7. /\ w \in Seq(Nat) /\ v \in Seq(Nat) /\ Len(w) # 0 /\ Len(v) # 0
      /\ w[1] = t2 /\ v[1] = t1
      /\ Len(w) = 2 + Len(e2) + Len(d2) /\ Len(v) = 2 + Len(e1) + Len(d1)
  <2>1. /\ w \in Seq(Nat) /\ v \in Seq(Nat) /\ w[1] = t2 /\ v[1] = t1
        /\ Len(w) = 2 + Len(e2) + Len(d2) /\ Len(v) = 2 + Len(e1) + Len(d1)
    BY <1>1, <1>2 DEF IsText
  <2>2. ASSUME NEW x \in Seq(Nat), NEW y \in Seq(Nat) PROVE 2 + Len(x) + Len(y) # 0
    OBVIOUS
  <2> QED
    BY <1>1, <1>2, <2>1, <2>2
<1>8. Leftmost(w) = Leftmost(v) => other.mtype = m.mtype
  BY <1>3, <1>7, LeftmostSame
<1>9. ASSUME Len(e2) = Len(e1)
      PROVE  Leftmost(w) = Leftmost(v)
             <=> /\ other.mtype = m.mtype
                 /\ other.seq = m.seq
                 /\ SameBeginning(d1, d2, m.seq)
  <2>1. Len(w) = Len(v)
    BY <1>5, <1>7, <1>9
  <2>2. Leftmost(w) = Leftmost(v) <=> SameSigned(v, w)
    <3>1. Leftmost(v) = Leftmost(w) <=> \A i \in 1 .. Len(v) : i <= Width => v[i] = w[i]
      BY <1>7, <2>1, LeftmostSame
    <3> QED
      BY <3>1 DEF SameSigned
  <2>3. Len(e1) = Len(e2)
    BY <1>9
  <2>4. SameSigned(v, w) <=> t1 = t2 /\ e1 = e2 /\ SameDigest(d1, d2, Len(e1))
    BY <1>1, <1>2, <1>5, <2>3, TextsAgree
  <2>5. SameBeginning(d1, d2, m.seq) <=> SameDigest(d1, d2, Len(e1))
    BY <1>6 DEF SameDigest
  <2> QED
    BY <1>3, <1>4, <2>2, <2>4, <2>5
<1> QED
  BY <1>8, <1>9 DEF w, v, e1, e2, d1, d2

-----------------------------------------------------------------------------
(***************************************************************************)
(* The theorems.                                                           *)
(***************************************************************************)
\* The parser overwrites no argument before it has read it, and stays in argv.
THEOREM UnreadIsKept == Spec => []UnreadKept
<1>1. ASSUME Inv PROVE UnreadKept
  <2>1. Len(Arguments(line)) \in Nat /\ DOMAIN argv = 0 .. Len(Arguments(line))
    BY <1>1, ArgumentsAre DEF Inv, Compacted
  <2>2. \A k \in DOMAIN argv : k >= current => k \in 1 .. Len(Arguments(line))
    BY <1>1, <2>1 DEF Inv, Compacted
  <2> QED
    BY <1>1, <2>1, <2>2 DEF Inv, Compacted, UnreadKept
<1> QED
  BY AlwaysInv, <1>1, PTL

\* The two processes of a machine that were told an id find each other.
THEOREM TheyArePaired == Spec => []Paired
<1>1. ASSUME Inv PROVE Paired
  <2> SUFFICES ASSUME program = "node", variable["id"] # Undefined, Readable,
                      pbft.state = "serving", coin.state = "serving"
               PROVE  /\ pbft.peer = coin.port
                      /\ coin.peer = pbft.port
                      /\ pbft.key = coin.key
                      /\ pbft.primary = coin.primary
    BY DEF Paired
  <2> DEFINE id == variable["id"]
  <2>1. pbft # Off /\ coin # Off
    BY DEF Off, Process
  <2>2. Ids = {id} /\ id \in Nat
    BY <1>1 DEF Ids, Inv, IdIsNumber
  <2>3. pbft = PbftInit(id, Config) /\ coin = CoinInit(id, Config)
    BY <1>1, <2>1, <2>2 DEF Inv, StartedPbft, StartedCoin
  <2>4. pbft # Ended /\ coin # Ended
    BY DEF Ended, Process
  <2>5. Size(Config) \in Nat
    BY ConfigsAssumption DEF Readable, Config
  <2> HIDE DEF id
  <2>6. /\ id < Size(Config)
        /\ coin = Process("serving", Port(Config, id), Port(Config, id) + 1000,
                          Config.keys[Port(Config, id)], Config.pbft_primary, <<>>)
    BY <2>2, <2>3, <2>4, <2>5, CoinServes
  <2>7. /\ pbft.peer = Port(Config, id)
        /\ pbft.port = Port(Config, id) + 1000
        /\ pbft.key = Config.keys[Port(Config, id)]
        /\ pbft.primary = Config.pbft_primary
    BY <2>3, <2>4, <2>6 DEF PbftInit, Process
  <2> QED
    BY <2>6, <2>7 DEF Process
<1> QED
  BY AlwaysInv, <1>1, PTL

\* Who serves at the address of a replica has the key everybody has for it.
THEOREM EveryoneServesAsItself == Spec => []ServesAsItself
<1>1. ASSUME Inv
      PROVE  /\ \A k \in DOMAIN pbft.replicas :
                   pbft.port = pbft.replicas[k].port => pbft.key = pbft.replicas[k].key
             /\ pbft.port # 0 => \E k \in DOMAIN pbft.replicas : pbft.replicas[k].port = pbft.port
  <2>1. CASE pbft \in {Off, Ended, Uninited}
    <3>1. pbft.port = 0 /\ pbft.replicas = <<>>
      BY <2>1 DEF Off, Ended, Uninited, Process
    <3> QED
      BY <3>1
  <2>2. CASE pbft \notin {Off, Ended, Uninited}
    <3>1. PICK id \in Ids : Readable /\ pbft = PbftInit(id, Config) /\ program = "node"
      BY <1>1, <2>2 DEF Inv, StartedPbft
    <3>2. id \in Nat
      BY <1>1, <3>1, IdsAreNumbers DEF Inv
    <3>3. /\ Size(Config) \in Nat
          /\ \A i \in 0 .. (Size(Config) - 1) : Port(Config, i) \in Nat
      BY <3>1, ConfigsAssumption DEF Readable, Config, Port
    <3>4. /\ pbft.port = IF id < Size(Config) THEN Port(Config, id) + 1000 ELSE 0
          /\ pbft.key = IF id < Size(Config) THEN Config.keys[Port(Config, id)] ELSE NoKey
          /\ pbft.replicas = [i \in 1 .. Size(Config) |->
                [host |-> Host(Config, i - 1), port |-> Port(Config, i - 1) + 1000,
                 key |-> Config.keys[Port(Config, i - 1)]]]
      BY <2>2, <3>1 DEF PbftInit, Process
    <3>5. /\ DOMAIN pbft.replicas = 1 .. Size(Config)
          /\ \A k \in 1 .. Size(Config) :
                /\ pbft.replicas[k].port = Port(Config, k - 1) + 1000
                /\ pbft.replicas[k].key = Config.keys[Port(Config, k - 1)]
                /\ Port(Config, k - 1) \in Nat
      BY <3>3, <3>4
    <3>6. CASE id < Size(Config)
      <4>1. Port(Config, id) \in Nat /\ id + 1 \in 1 .. Size(Config) /\ (id + 1) - 1 = id
        BY <3>2, <3>3, <3>6
      <4>2. pbft.replicas[id + 1].port = pbft.port
        BY <3>4, <3>5, <3>6, <4>1
      <4>3. ASSUME NEW k \in 1 .. Size(Config), pbft.port = pbft.replicas[k].port
            PROVE  pbft.key = pbft.replicas[k].key
        <5>1. Port(Config, k - 1) = Port(Config, id)
          BY <3>4, <3>5, <3>6, <4>1, <4>3
        <5> QED
          BY <3>4, <3>5, <3>6, <5>1
      <4> QED
        BY <3>5, <4>1, <4>2, <4>3
    <3>7. CASE ~ (id < Size(Config))
      BY <3>4, <3>5, <3>7
    <3> QED
      BY <3>6, <3>7
  <2> QED
    BY <2>1, <2>2
<1>2. ASSUME Inv, coin.port # 0 PROVE coin.key = Config.keys[coin.port]
  <2>1. coin \notin {Off, Ended, Uninited}
    BY <1>2 DEF Off, Ended, Uninited, Process
  <2>2. PICK id \in Ids : Readable /\ coin = CoinInit(id, Config) /\ program = "node"
    BY <1>2, <2>1 DEF Inv, StartedCoin
  <2>3. id \in Nat /\ Size(Config) \in Nat
    BY <1>2, <2>2, IdsAreNumbers, ConfigsAssumption DEF Inv, Readable, Config
  <2>4. coin = Process("serving", Port(Config, id), Port(Config, id) + 1000,
                       Config.keys[Port(Config, id)], Config.pbft_primary, <<>>)
    BY <2>1, <2>2, <2>3, CoinServes
  <2> QED
    BY <2>4 DEF Process
<1>3. Inv => ServesAsItself
  BY <1>1, <1>2 DEF ServesAsItself
<1> QED
  BY AlwaysInv, <1>3, PTL

\* A PBFT process that has found its keys signs each of its messages so that the
\* signature verifies; of the messages with numbers as long, for those alone whose
\* type, number and beginning of the digest are the same; for no other type.
THEOREM EveryMessageVerifies == Spec => []MessagesVerify
<1>1. ASSUME Inv PROVE MessagesVerify
  <2> SUFFICES ASSUME pbft.state = "serving", pbft.port # 0,
                      NEW m \in Messages(pbft), NEW other \in Messages(pbft)
               PROVE  LET verifies == CheckSignature(Signed(other, Signate(m, pbft.key.priv, Nonce)))
                      IN  /\ verifies => other.mtype = m.mtype
                          /\ Len(Decimal(other.seq)) = Len(Decimal(m.seq)) =>
                                (verifies <=> /\ other.mtype = m.mtype
                                              /\ other.seq = m.seq
                                              /\ SameBeginning(m.digest, other.digest, m.seq))
    BY DEF MessagesVerify
  <2>1. PICK k \in Keys : pbft.key = GenAddr(k)
    <3>1. pbft \notin {Off, Ended, Uninited}
      BY DEF Off, Ended, Uninited, Process
    <3>2. PICK id \in Ids : Readable /\ pbft = PbftInit(id, Config) /\ program = "node"
      BY <1>1, <3>1 DEF Inv, StartedPbft
    <3>3. id \in Nat /\ Size(Config) \in Nat
      BY <1>1, <3>2, IdsAreNumbers, ConfigsAssumption DEF Inv, Readable, Config
    <3>4. /\ pbft.port = IF id < Size(Config) THEN Port(Config, id) + 1000 ELSE 0
          /\ pbft.key = IF id < Size(Config) THEN Config.keys[Port(Config, id)] ELSE NoKey
          /\ \A i \in 0 .. (Size(Config) - 1) : Port(Config, i) \in DOMAIN Config.keys
      BY <3>1, <3>2 DEF PbftInit, Process
    <3>5. Port(Config, id) \in DOMAIN Config.keys /\ pbft.key = Config.keys[Port(Config, id)]
      BY <3>3, <3>4
    <3> QED
      BY <3>2, <3>5, ConfigsAssumption DEF Readable, Config
  <2> DEFINE sig == Signate(m, pbft.key.priv, Nonce)
  <2>2. CheckSignature(Signed(other, sig)) <=> Leftmost(SignedText(other)) = Leftmost(SignedText(m))
    <3>1. /\ other.pub_key = GenAddr(k).addr
          /\ Signed(other, sig).pub_key = GenAddr(k).addr
          /\ Signed(other, sig).signature = sig
          /\ SignedText(Signed(other, sig)) = SignedText(other)
      <4>1. other.pub_key = pbft.key.addr
        BY DEF Messages
      <4>2. /\ Signed(other, sig).pub_key = other.pub_key
            /\ Signed(other, sig).signature = sig
            /\ Signed(other, sig).mtype = other.mtype
            /\ Signed(other, sig).view_id = other.view_id
            /\ Signed(other, sig).seq = other.seq
            /\ Signed(other, sig).digest = other.digest
        BY DEF Signed
      <4>3. SignedText(Signed(other, sig)) = SignedText(other)
        BY <4>2, Zenon DEF SignedText
      <4> QED
        BY <2>1, <4>1, <4>2, <4>3, Zenon
    <3>2. sig = SigText(ECDSA_sign(HexToPrivate(GenAddr(k).priv), SignedText(m), Nonce))
      BY <2>1 DEF Signate
    <3> HIDE DEF sig
    <3>3. ECDSA_verify(SignedText(other), SigBytes(sig), Unhex(GenAddr(k).addr))
          <=> Leftmost(SignedText(other)) = Leftmost(SignedText(m))
      BY <3>2, MessagesAssumption, SignatureIs
    <3> QED
      BY <3>1, <3>3 DEF CheckSignature
  <2> DEFINE verifies == CheckSignature(Signed(other, sig))
  <2>3. verifies <=> Leftmost(SignedText(other)) = Leftmost(SignedText(m))
    BY <2>2
  <2> HIDE DEF verifies
  <2>4. /\ verifies => other.mtype = m.mtype
        /\ Len(Decimal(other.seq)) = Len(Decimal(m.seq)) =>
              (verifies <=> /\ other.mtype = m.mtype
                            /\ other.seq = m.seq
                            /\ SameBeginning(m.digest, other.digest, m.seq))
    BY <2>3, MessagesAgree
  <2> QED
    BY <2>4, Zenon DEF verifies
<1> QED
  BY AlwaysInv, <1>1, PTL

-----------------------------------------------------------------------------
(***************************************************************************)
(* Integers.  The digits are read by ReadDigit, and those of the number    *)
(* they stand for (NumberFold) beside them.                                *)
(***************************************************************************)
\* The values on the way when a text is read.
IsParsing(r, t) ==
    /\ r \in [0 .. Len(t.digits) -> Int]
    /\ r[0] = 0
    /\ r[Len(t.digits)] = Magnitude(t)
    /\ \A k \in 1 .. Len(t.digits) : r[k] = ReadDigit(t.base, r[k - 1], t.digits[k])

\* A digit is read in the unsigned type.
LEMMA ReadDigitIs ==
  ASSUME NEW B \in Nat, NEW r \in Int, NEW d \in Nat
  PROVE  /\ ReadDigit(B, r, d) \in -1 .. Modulus - 1
         /\ ReadDigit(B, r, d) # Bad =>
               r # Bad /\ d < B /\ r <= ReadDigit(B, r, d) /\ ReadDigit(B, r, d) = (r * B + d) % Modulus
         /\ r # Bad /\ d < B /\ r <= (r * B + d) % Modulus => ReadDigit(B, r, d) = (r * B + d) % Modulus
         /\ (r * B + d) % Modulus < r => ReadDigit(B, r, d) = Bad
<1>1. Modulus \in Nat \ {0}
  BY CommandLineAssumption DEF Modulus
<1>2. r * B + d \in Int
  OBVIOUS
<1> DEFINE x == r * B + d
           next == x % Modulus
<1>3. next \in 0 .. Modulus - 1
  <2> HIDE DEF x
  <2> QED
    BY <1>1, <1>2 DEF x
<1> HIDE DEF next
<1>4. ReadDigit(B, r, d) = IF r = Bad \/ d >= B \/ r > next THEN Bad ELSE next
  BY DEF ReadDigit, next
<1>5. /\ ReadDigit(B, r, d) \in -1 .. Modulus - 1
      /\ ReadDigit(B, r, d) # Bad => r # Bad /\ d < B /\ r <= ReadDigit(B, r, d) /\ ReadDigit(B, r, d) = next
      /\ r # Bad /\ d < B /\ r <= next => ReadDigit(B, r, d) = next
      /\ next < r => ReadDigit(B, r, d) = Bad
  BY <1>1, <1>3, <1>4 DEF Bad
<1> QED
  BY <1>5 DEF next

\* Magnitude reads the digits one by one.
LEMMA MagnitudeFold ==
  ASSUME NEW t, t.base \in Nat, t.digits \in Seq(Nat)
  PROVE  \E r : IsParsing(r, t)
<1> DEFINE q == t.digits
           B == t.base
           n == Len(q)
           step == [k \in 1 .. n |-> [x \in Int |-> ReadDigit(B, x, q[k])]]
           Fold(h) == h = [s \in SUBSET DOMAIN q |->
                             IF s = {} THEN 0 ELSE ReadDigit(B, h[s \ {Max(s)}], q[Max(s)])]
<1>1. n \in Nat /\ DOMAIN q = 1 .. n /\ \A k \in 1 .. n : q[k] \in Nat
  OBVIOUS
<1>2. \A x \in Int, d \in Nat : ReadDigit(B, x, d) \in Int
  <2>1. \A x \in Int, d \in Nat : ReadDigit(B, x, d) \in -1 .. Modulus - 1
    BY ReadDigitIs
  <2> QED
    BY <2>1, CommandLineAssumption DEF Modulus
<1>3. step \in [1 .. n -> [Int -> Int]]
  BY <1>1, <1>2
<1>4. \A k \in 1 .. n, x \in Int : step[k][x] = ReadDigit(B, x, q[k])
  OBVIOUS
<1> HIDE DEF step
<1>5. \A g \in [SUBSET (1 .. n) -> Int] : \A s \in SUBSET (1 .. n) :
         s # {} => step[Max(s)][g[s \ {Max(s)}]] = ReadDigit(B, g[s \ {Max(s)}], q[Max(s)])
  <2> SUFFICES ASSUME NEW g \in [SUBSET (1 .. n) -> Int],
                      NEW s \in SUBSET (1 .. n), s # {}
               PROVE  step[Max(s)][g[s \ {Max(s)}]] = ReadDigit(B, g[s \ {Max(s)}], q[Max(s)])
    OBVIOUS
  <2>1. Max(s) \in 1 .. n
    BY <1>1, MaxIs
  <2>2. g[s \ {Max(s)}] \in Int
    OBVIOUS
  <2> QED
    BY <1>4, <2>1, <2>2
<1>6. PICK g : IsIteration(g, Int, 0, n, step)
  <2>1. n \in Nat /\ 0 \in Int
    BY <1>1
  <2> HIDE DEF n
  <2> QED
    BY <1>3, <2>1, Iteration
<1>7. \E h : Fold(h)
  <2>1. /\ g \in [SUBSET (1 .. n) -> Int]
        /\ \A s \in SUBSET (1 .. n) : g[s] = IF s = {} THEN 0 ELSE step[Max(s)][g[s \ {Max(s)}]]
    BY <1>6 DEF IsIteration
  <2>2. \A s \in SUBSET DOMAIN q :
           g[s] = IF s = {} THEN 0 ELSE ReadDigit(B, g[s \ {Max(s)}], q[Max(s)])
    BY <1>1, <1>5, <2>1
  <2>3. Fold(g)
    BY <1>1, <2>1, <2>2
  <2> QED
    BY <2>3
<1> DEFINE c == CHOOSE h : Fold(h)
<1>8. Magnitude(t) = c[1 .. n]
  BY <1>1, Zenon DEF Magnitude, FoldLeft, MapThenFoldSet
<1>9. Fold(c)
  BY <1>7, Zenon
<1> HIDE DEF c
<1>10. /\ c[{}] = 0
       /\ \A s \in SUBSET (1 .. n) : s # {} => c[s] = ReadDigit(B, c[s \ {Max(s)}], q[Max(s)])
  BY <1>1, <1>9
<1>11. FollowsSteps(c, Int, 0, n, step)
  <2>1. \A s \in SUBSET (1 .. n) : s # {} => Max(s) \in 1 .. n
    BY <1>1, MaxIs
  <2> QED
    BY <1>4, <1>10, <2>1 DEF FollowsSteps
<1>12. PICK r : IsTrace(r, Int, 0, n, step) /\ r[n] = c[1 .. n]
  <2>1. n \in Nat /\ 0 \in Int
    BY <1>1
  <2> HIDE DEF n, Fold
  <2>2. ComesTo(Int, 0, n, step, c[1 .. n])
    BY <1>3, <1>11, <2>1, Unrolled
  <2> QED
    BY <2>2 DEF ComesTo
<1>13. /\ r \in [0 .. n -> Int]
       /\ r[0] = 0
       /\ \A k \in 1 .. n : r[k] = step[k][r[k - 1]]
  BY <1>12 DEF IsTrace
<1>14. \A k \in 1 .. n : r[k] = ReadDigit(B, r[k - 1], q[k])
  <2>1. \A k \in 1 .. n : r[k - 1] \in Int
    <3>1. \A k \in 1 .. n : k - 1 \in 0 .. n
      BY <1>1
    <3> QED
      BY <1>13, <3>1
  <2> QED
    BY <1>4, <1>13, <2>1
<1> QED
  BY <1>8, <1>12, <1>13, <1>14 DEF IsParsing

\* Two numbers with the same remainder have the same again with a digit more.
StaysRemainder(M, B, d, r, q) ==
    LET p == ((r * B + d) \div M) + q * B
    IN  p \in Int /\ (r + M * q) * B + d = ((r * B + d) % M) + M * p

\* They do.
LEMMA SameRemainder ==
  ASSUME NEW M \in Nat \ {0}, NEW B \in Nat, NEW d \in Nat, NEW r \in Int, NEW q \in Int
  PROVE  StaysRemainder(M, B, d, r, q)
<1> DEFINE x == r * B + d
           c == x \div M
           m == x % M
<1>1. x \in Int
  OBVIOUS
<1>2. c \in Int /\ m \in Int /\ x = M * c + m
  <2> HIDE DEF x
  <2> QED
    BY <1>1
<1>3. (r + M * q) * B + d = x + (M * q) * B
  OBVIOUS
<1>4. (M * q) * B = M * (q * B) /\ q * B \in Int
  OBVIOUS
<1> DEFINE y == q * B
<1> HIDE DEF c, m, x, y
<1>5. M * (c + y) = M * c + M * y /\ c + y \in Int
  BY <1>2, <1>4 DEF y
<1> DEFINE u == M * c
           v == M * y
<1>6. u \in Int /\ v \in Int
  BY <1>2, <1>4 DEF y
<1>7. x = u + m /\ (r + M * q) * B + d = x + v /\ M * (c + y) = u + v
  BY <1>2, <1>3, <1>4, <1>5 DEF y
<1>8. x + v = m + (u + v)
  <2> HIDE DEF u, v
  <2> QED
    BY <1>1, <1>2, <1>6, <1>7
<1>9. c + y \in Int /\ (r + M * q) * B + d = m + M * (c + y)
  BY <1>5, <1>7, <1>8
<1> QED
  BY <1>9 DEF c, m, x, y, StaysRemainder

\* A number that is less than the modulus is its own remainder.
LEMMA SmallRemainder ==
  ASSUME NEW M \in Nat \ {0}, NEW x \in 0 .. M - 1
  PROVE  x % M = x /\ (M + x) % M = x
<1>1. (0 * M + x) % M = x /\ (1 * M + x) % M = x
  <2>1. M \in Nat /\ M > 0 /\ 0 \in Nat /\ 1 \in Nat
    OBVIOUS
  <2> QED
    BY <2>1, DivModUnique, Zenon
<1>2. 0 * M + x = x /\ 1 * M + x = M + x
  OBVIOUS
<1> QED
  BY <1>1, <1>2

\* The digits of a text, up to one of them, are digits of its base.
Proper(t, k) == \A j \in 1 .. k : t.digits[j] < t.base

\* What is read is the number up to a multiple of the modulus.
LEMMA ReadRemainder ==
  ASSUME NEW t, t.base \in Nat, t.digits \in Seq(Nat), Magnitude(t) # Bad
  PROVE  /\ Proper(t, Len(t.digits))
         /\ Magnitude(t) \in 0 .. Modulus - 1
         /\ \E q \in Int : Absolute(t) = Magnitude(t) + Modulus * q
<1> DEFINE n == Len(t.digits)
           B == t.base
           M == Modulus
<1>1. n \in Nat /\ \A k \in 1 .. n : t.digits[k] \in Nat
  OBVIOUS
<1>2. M \in Nat \ {0}
  BY CommandLineAssumption DEF Modulus
<1>3. PICK r : IsParsing(r, t)
  BY MagnitudeFold
<1>4. PICK h : IsReading(h, B, t.digits)
  BY NumberFold
<1>5. h[n] = Absolute(t)
  BY <1>4, Zenon DEF IsReading, Absolute
<1>6. /\ r \in [0 .. n -> Int] /\ r[0] = 0 /\ r[n] = Magnitude(t)
      /\ \A k \in 1 .. n : r[k] = ReadDigit(B, r[k - 1], t.digits[k])
  BY <1>3 DEF IsParsing
<1>7. /\ h \in [0 .. n -> Nat] /\ h[0] = 0
      /\ \A k \in 1 .. n : h[k] = h[k - 1] * B + t.digits[k]
  BY <1>4 DEF IsReading
<1> DEFINE Same(k) == \E q \in Int : h[k] = r[k] + M * q
           E == {k \in 0 .. n : r[k] # Bad => r[k] \in 0 .. M - 1 /\ Proper(t, k) /\ Same(k)}
           id == [k \in 0 .. n |-> k]
<1>8. 0 \in E
  <2>1. Same(0)
    BY <1>2, <1>6, <1>7
  <2>2. Proper(t, 0)
    BY DEF Proper
  <2>3. 0 \in 0 .. n /\ r[0] \in 0 .. M - 1
    BY <1>1, <1>2, <1>6
  <2> HIDE DEF Same
  <2> QED
    BY <2>1, <2>2, <2>3
<1>9. ASSUME NEW k \in 1 .. n, id[k - 1] \in E PROVE id[k] \in E
  <2>1. k \in 0 .. n /\ k - 1 \in 0 .. n /\ id[k] = k /\ id[k - 1] = k - 1
    BY <1>1
  <2> SUFFICES ASSUME r[k] # Bad PROVE r[k] \in 0 .. M - 1 /\ Proper(t, k) /\ Same(k)
    BY <2>1
  <2> DEFINE d == t.digits[k]
             s == r[k - 1]
  <2>2. d \in Nat /\ s \in Int /\ B \in Nat /\ r[k] = ReadDigit(B, s, d)
    BY <1>1, <1>6, <2>1
  <2>3. s # Bad /\ d < B /\ r[k] = (s * B + d) % M /\ r[k] \in -1 .. M - 1
    <3> DEFINE x == ReadDigit(B, s, d)
    <3> HIDE DEF B, d, s
    <3>1. x \in -1 .. M - 1 /\ (x # Bad => s # Bad /\ d < B /\ s <= x /\ x = (s * B + d) % M)
      BY <2>2, ReadDigitIs, Zenon
    <3> HIDE DEF x, M
    <3>2. r[k] = x
      BY <2>2 DEF x
    <3> QED
      BY <3>1, <3>2
  <2>4. Proper(t, k - 1) /\ Same(k - 1)
    BY <1>9, <2>1, <2>3
  <2>5. Proper(t, k)
    <3>1. \A j \in 1 .. k : j \in 1 .. k - 1 \/ j = k
      OBVIOUS
    <3> QED
      BY <2>3, <2>4, <3>1 DEF Proper
  <2>6. PICK q \in Int : h[k - 1] = s + M * q
    BY <2>4
  <2>7. PICK p \in Int : (s + M * q) * B + d = ((s * B + d) % M) + M * p
    <3> HIDE DEF B, d, s, M
    <3>1. M \in Nat \ {0} /\ B \in Nat /\ d \in Nat /\ s \in Int /\ q \in Int
      BY <1>2, <2>2
    <3>2. StaysRemainder(M, B, d, s, q)
      BY <3>1, SameRemainder
    <3> QED
      BY <3>2, Zenon DEF StaysRemainder
  <2>8. h[k] = r[k] + M * p
    <3>1. h[k] = h[k - 1] * B + d
      BY <1>7
    <3> HIDE DEF B, d, s, M
    <3> QED
      BY <2>3, <2>6, <2>7, <3>1
  <2>9. r[k] \in 0 .. M - 1
    BY <1>2, <2>3 DEF Bad
  <2> QED
    BY <2>5, <2>8, <2>9
<1>10. \A k \in 0 .. n : id[k] \in E
  <2>1. id[0] \in E
    BY <1>1, <1>8
  <2> HIDE DEF E, id, n
  <2> QED
    BY <1>1, <1>9, <2>1, Along
<1>11. n \in 0 .. n /\ id[n] = n
  BY <1>1
<1>12. n \in E
  <2> HIDE DEF E, n
  <2> QED
    BY <1>10, <1>11
<1>13. r[n] \in 0 .. M - 1 /\ Proper(t, n) /\ Same(n)
  BY <1>6, <1>12
<1> QED
  BY <1>5, <1>6, <1>13

\* A number of the unsigned type is read as itself.
LEMMA ReadItself ==
  ASSUME NEW t, t.base \in {10, 16}, t.digits \in Seq(Nat),
         NEW m \in 0 .. Len(t.digits), Proper(t, m),
         NEW r, IsParsing(r, t), NEW h, IsReading(h, t.base, t.digits), h[m] < Modulus
  PROVE  r[m] = h[m]
<1> DEFINE n == Len(t.digits)
           B == t.base
           M == Modulus
<1>1. n \in Nat /\ B \in {10, 16} /\ \A k \in 1 .. n : t.digits[k] \in Nat
  OBVIOUS
<1>2. M \in Nat \ {0}
  BY CommandLineAssumption DEF Modulus
<1>3. /\ r \in [0 .. n -> Int] /\ r[0] = 0
      /\ \A k \in 1 .. n : r[k] = ReadDigit(B, r[k - 1], t.digits[k])
  BY DEF IsParsing
<1>4. /\ h \in [0 .. n -> Nat] /\ h[0] = 0
      /\ \A k \in 1 .. n : h[k] = h[k - 1] * B + t.digits[k]
  BY DEF IsReading
<1> DEFINE E == {k \in 0 .. n : k <= m /\ h[k] < M => r[k] = h[k]}
           id == [k \in 0 .. n |-> k]
<1>5. ASSUME NEW k \in 1 .. n, id[k - 1] \in E PROVE id[k] \in E
  <2>1. k \in 0 .. n /\ k - 1 \in 0 .. n /\ id[k] = k /\ id[k - 1] = k - 1
    BY <1>1
  <2> SUFFICES ASSUME k <= m, h[k] < M PROVE r[k] = h[k]
    BY <2>1
  <2> DEFINE d == t.digits[k]
             g == h[k - 1]
  <2>2. d \in Nat /\ g \in Nat /\ d < B /\ h[k] = g * B + d
    <3>1. d < B
      <4>1. k \in 1 .. m
        BY <1>1
      <4> QED
        BY <4>1, Zenon DEF Proper
    <3>2. d \in Nat /\ g \in Nat /\ h[k] = g * B + d
      BY <1>1, <1>4, <2>1
    <3> QED
      BY <3>1, <3>2
  <2>3. g <= h[k] /\ h[k] \in Nat /\ k - 1 <= m
    <3>1. k - 1 <= m
      BY <1>1
    <3>2. CASE B = 10
      <4> HIDE DEF B, d, g
      <4> QED
        BY <2>2, <3>1, <3>2
    <3>3. CASE B = 16
      <4> HIDE DEF B, d, g
      <4> QED
        BY <2>2, <3>1, <3>3
    <3> QED
      BY <1>1, <3>2, <3>3
  <2>4. r[k - 1] = g
    <3>1. g < M
      <4> HIDE DEF g, M
      <4> QED
        BY <1>2, <2>2, <2>3
    <3> QED
      BY <1>5, <2>1, <2>3, <3>1
  <2>5. (g * B + d) % M = h[k]
    <3>1. \A x \in 0 .. M - 1 : x % M = x
      <4> HIDE DEF M
      <4> QED
        BY <1>2, SmallRemainder, Zenon
    <3>2. h[k] \in 0 .. M - 1
      <4> HIDE DEF M
      <4> QED
        BY <1>2, <2>3
    <3> HIDE DEF M, B, d, g
    <3> QED
      BY <2>2, <3>1, <3>2
  <2>6. r[k] = ReadDigit(B, g, d)
    BY <1>3, <2>4
  <2>7. g # Bad /\ B \in Nat /\ g \in Int
    BY <1>1, <2>2 DEF Bad
  <2>8. g # Bad /\ d < B /\ g <= (g * B + d) % M => ReadDigit(B, g, d) = (g * B + d) % M
    <3> HIDE DEF B, d, g
    <3> QED
      BY <2>2, <2>7, ReadDigitIs, Zenon
  <2> HIDE DEF M, B, d, g
  <2> QED
    BY <2>2, <2>3, <2>5, <2>6, <2>7, <2>8
<1>6. id[0] \in E
  BY <1>1, <1>3, <1>4
<1>7. \A k \in 0 .. n : id[k] \in E
  <2> HIDE DEF E, id, n
  <2> QED
    BY <1>1, <1>5, <1>6, Along
<1>8. m \in E
  <2>1. m \in 0 .. n /\ id[m] = m
    OBVIOUS
  <2> HIDE DEF E, n
  <2> QED
    BY <1>7, <2>1
<1> QED
  BY <1>8

\* So Magnitude is the number a text stands for, if the unsigned type has it.
LEMMA MagnitudeReads ==
  ASSUME NEW t, t.base \in {10, 16}, t.digits \in Seq(Nat),
         Proper(t, Len(t.digits)), Absolute(t) < Modulus
  PROVE  Magnitude(t) = Absolute(t)
<1>1. t.base \in Nat /\ Len(t.digits) \in 0 .. Len(t.digits)
  OBVIOUS
<1>2. PICK r : IsParsing(r, t)
  BY <1>1, MagnitudeFold
<1>3. PICK h : IsReading(h, t.base, t.digits)
  BY <1>1, NumberFold
<1>4. h[Len(t.digits)] = Absolute(t)
  BY <1>3, Zenon DEF IsReading, Absolute
<1>5. r[Len(t.digits)] = h[Len(t.digits)]
  BY <1>1, <1>2, <1>3, <1>4, ReadItself
<1> QED
  BY <1>2, <1>4, <1>5 DEF IsParsing

\* The first numbers beyond the unsigned type get smaller by their last digit.
LEMMA FirstRefused ==
  ASSUME NEW t, t.base \in {10, 16}, t.digits \in Seq(Nat), Proper(t, Len(t.digits)),
         Modulus <= Absolute(t), Absolute(t) < Modulus + (Modulus \div t.base)
  PROVE  Magnitude(t) = Bad
<1> DEFINE n == Len(t.digits)
           B == t.base
           M == Modulus
           c == M \div B
           m == M % B
<1>1. n \in Nat /\ B \in Nat /\ B \in {10, 16} /\ \A k \in 1 .. n : t.digits[k] \in Nat
  OBVIOUS
<1>2. M \in Nat \ {0}
  BY CommandLineAssumption DEF Modulus
<1>3. c \in Nat /\ m \in 0 .. B - 1 /\ M = c * B + m
  <2>1. B > 0 /\ M \in Nat
    BY <1>1, <1>2
  <2> HIDE DEF B, M
  <2> QED
    BY <1>1, <2>1, DivMod
<1>4. PICK r : IsParsing(r, t)
  BY <1>1, MagnitudeFold
<1>5. PICK h : IsReading(h, B, t.digits)
  BY <1>1, NumberFold
<1>6. h[n] = Absolute(t)
  BY <1>5, Zenon DEF IsReading, Absolute
<1>7. n # 0
  <2>1. h[0] = 0
    BY <1>5 DEF IsReading
  <2>2. ~ (M <= 0)
    BY <1>2
  <2> HIDE DEF n
  <2> QED
    BY <1>6, <2>1, <2>2
<1>8. n \in 1 .. n /\ n - 1 \in 0 .. n
  BY <1>1, <1>7
<1> DEFINE g == h[n - 1]
           d == t.digits[n]
           x == h[n] - M
<1>9. g \in Nat /\ d \in Nat /\ d < B /\ h[n] \in Nat /\ h[n] = g * B + d
  <2>1. h \in [0 .. n -> Nat] /\ \A k \in 1 .. n : h[k] = h[k - 1] * B + t.digits[k]
    BY <1>5 DEF IsReading
  <2>2. n \in 0 .. n
    BY <1>1
  <2> QED
    BY <1>1, <1>8, <2>1, <2>2 DEF Proper
<1>10. x \in Nat /\ x < c /\ h[n] = M + x
  <2>1. h[n] >= M /\ h[n] < M + c
    BY <1>6
  <2>2. M \in Nat /\ c \in Nat /\ h[n] \in Nat
    BY <1>2, <1>3, <1>9
  <2> HIDE DEF M, c, n
  <2> QED
    BY <2>1, <2>2
<1>11. g < M /\ c <= g /\ x \in 0 .. M - 1
  <2>1. CASE B = 10
    <3> HIDE DEF B, M, c, m, g, d, x
    <3> QED
      BY <1>2, <1>3, <1>9, <1>10, <2>1
  <2>2. CASE B = 16
    <3> HIDE DEF B, M, c, m, g, d, x
    <3> QED
      BY <1>2, <1>3, <1>9, <1>10, <2>2
  <2> QED
    BY <1>1, <2>1, <2>2
<1>12. r[n - 1] = g
  <2>1. Proper(t, n - 1)
    BY <1>1 DEF Proper
  <2>2. h[n - 1] < M
    BY <1>11
  <2>3. ASSUME NEW k \in 0 .. Len(t.digits), Proper(t, k), h[k] < Modulus
        PROVE  r[k] = h[k]
    <3>1. IsParsing(r, t) /\ IsReading(h, t.base, t.digits)
      BY <1>4, <1>5
    <3> HIDE DEF n, B, M, c, m, g, d, x
    <3> QED
      BY <2>3, <3>1, ReadItself
  <2> QED
    BY <1>8, <2>1, <2>2, <2>3, Zenon
<1>13. (g * B + d) % M = x
  <2> HIDE DEF B, M, g, d, x
  <2>1. (M + x) % M = x
    BY <1>2, <1>11, SmallRemainder
  <2> QED
    BY <1>9, <1>10, <2>1
<1>14. r[n] = ReadDigit(B, g, d) /\ r[n] = Magnitude(t)
  BY <1>4, <1>8, <1>12 DEF IsParsing
<1>15. (g * B + d) % M < g => ReadDigit(B, g, d) = Bad
  <2>1. g \in Int
    BY <1>9
  <2> HIDE DEF B, g, d
  <2> QED
    BY <1>1, <1>9, <2>1, ReadDigitIs, Zenon
<1>16. x < g
  <2> HIDE DEF x, g, c
  <2> QED
    BY <1>3, <1>9, <1>10, <1>11
<1> QED
  BY <1>13, <1>14, <1>15, <1>16

\* A multiple of the modulus leaves nothing.
LEMMA NoRemainder ==
  ASSUME NEW M \in Nat \ {0}, NEW q \in Int
  PROVE  (M * q) % M = 0
<1> DEFINE x == M * q
<1>1. x \in Int /\ x = M * q + 0
  OBVIOUS
<1> HIDE DEF x
<1>2. x % M = 0
  BY <1>1
<1> QED
  BY <1>2 DEF x

\* An integer is read as IntegerExact says.
LEMMA IntegersReadExactly ==
  ASSUME NEW type, NEW t, Matched(t)
  PROVE  ReadExactly(type, t)
<1> DEFINE isNumeral == t.digits # <<>> /\ \A j \in DOMAIN t.digits : t.digits[j] < t.base
           M == Modulus
           n == Absolute(t)
           v == Magnitude(t)
<1>1. t.neg \in BOOLEAN /\ t.base \in {10, 16} /\ t.base \in Nat /\ t.digits \in Seq(Nat)
  <2>1. t.digits \in Seq(0 .. 35)
    BY DEF Matched
  <2>2. t.digits \in Seq(Nat)
    <3>1. 0 .. 35 \subseteq Nat
      OBVIOUS
    <3> QED
      BY <2>1, <3>1, SeqMonotonic
  <2> QED
    BY <2>1, <2>2 DEF Matched
<1>2. isNumeral <=> t.digits # <<>> /\ Proper(t, Len(t.digits))
  BY <1>1 DEF Proper
<1>3. M = 2 * Half /\ Half \in Nat \ {0} /\ M \in Nat \ {0}
  BY CommandLineAssumption DEF Modulus
<1>4. n \in Nat
  <2>1. PICK h : IsReading(h, t.base, t.digits)
    BY <1>1, NumberFold
  <2>2. h[Len(t.digits)] = Absolute(t)
    BY <2>1, Zenon DEF IsReading, Absolute
  <2>3. Len(t.digits) \in 0 .. Len(t.digits)
    BY <1>1
  <2> QED
    BY <2>1, <2>2, <2>3 DEF IsReading
<1>5. v # Bad => /\ Proper(t, Len(t.digits))
                 /\ v \in 0 .. M - 1
                 /\ \E q \in Int : n = v + M * q
  BY <1>1, ReadRemainder
<1>6. Proper(t, Len(t.digits)) /\ n < M => v = n
  BY <1>1, MagnitudeReads
<1>7. Proper(t, Len(t.digits)) /\ M <= n /\ n < M + (M \div t.base) => v = Bad
  BY <1>1, FirstRefused
<1>8. Number(t) = (IF t.neg THEN -n ELSE n) /\ IntegerValue(t) = (IF t.neg THEN -v ELSE v)
  BY DEF Number, IntegerValue
<1> HIDE DEF isNumeral, n, v
<1>9. ASSUME IntegerParses(type, t)
      PROVE  isNumeral /\ (IntegerValue(t) - Number(t)) % M = 0
  <2>1. t.digits # <<>> /\ v # Bad
    BY <1>9 DEF IntegerParses, v
  <2>2. PICK q \in Int : n = v + M * q
    BY <1>5, <2>1
  <2>3. v \in Int
    BY <1>3, <1>5, <2>1
  <2> DEFINE z == IF t.neg THEN q ELSE -q
  <2>4. z \in Int
    OBVIOUS
  <2>5. M * (-q) = -(M * q)
    BY <1>3
  <2>6. IntegerValue(t) - Number(t) = M * z
    <3> DEFINE y == M * q
    <3>1. y \in Int /\ n = v + y /\ M * (-q) = -y
      BY <1>3, <2>2, <2>5
    <3>2. CASE t.neg
      <4>1. IntegerValue(t) = -v /\ Number(t) = -n /\ M * z = y
        BY <1>8, <3>2
      <4> HIDE DEF y, z
      <4> QED
        BY <1>4, <2>3, <3>1, <4>1
    <3>3. CASE ~ t.neg
      <4>1. IntegerValue(t) = v /\ Number(t) = n /\ M * z = -y
        BY <1>8, <3>1, <3>3
      <4> HIDE DEF y, z
      <4> QED
        BY <1>4, <2>3, <3>1, <4>1
    <3> QED
      BY <3>2, <3>3
  <2>7. (M * z) % M = 0
    <3> HIDE DEF z, M
    <3> QED
      BY <1>3, <2>4, NoRemainder
  <2> QED
    BY <1>2, <1>5, <2>1, <2>6, <2>7
<1>10. ASSUME isNumeral, InRange(type, Number(t)), ~ (t.neg /\ type # "int")
       PROVE  IntegerParses(type, t) /\ IntegerValue(t) = Number(t)
  <2>1. n < M
    BY <1>3, <1>4, <1>8, <1>10 DEF InRange
  <2>2. v = n /\ v # Bad /\ t.digits # <<>>
    BY <1>2, <1>4, <1>6, <1>10, <2>1 DEF Bad
  <2> QED
    BY <1>8, <1>10, <2>2 DEF IntegerParses, v
<1>11. ASSUME isNumeral, ~ InRange(type, Number(t)), n < M + (M \div t.base), IntegerParses(type, t)
       PROVE  FALSE
  <2>1. v # Bad
    BY <1>11 DEF IntegerParses, v
  <2>2. n < M
    <3>1. ~ (M <= n)
      BY <1>2, <1>7, <1>11, <2>1
    <3> QED
      BY <1>3, <1>4, <3>1
  <2>3. v = n
    BY <1>2, <1>6, <1>11, <2>2
  <2> QED
    BY <1>8, <1>11, <2>3 DEF IntegerParses, v
<1> QED
  BY <1>9, <1>10, <1>11 DEF ReadExactly, isNumeral, n

(***************************************************************************)
(* integer_parser reads every number of its type as itself, whatever the   *)
(* width of the type: IntegerExact.                                        *)
(***************************************************************************)
THEOREM IntegersAreExact == Spec => []IntegerExact
<1>1. Inv => IntegerExact
  <2> SUFFICES ASSUME Inv, NEW k \in DOMAIN line, line[k].kind # "arg"
               PROVE  ReadExactly(line[k].opt.type, line[k].arg.text)
    BY DEF IntegerExact
  <2>1. Matched(line[k].arg.text)
    BY LineIs DEF Inv, Compacted, IsItem
  <2> QED
    BY <2>1, IntegersReadExactly
<1> QED
  BY <1>1, AlwaysInv, PTL

-----------------------------------------------------------------------------
(***************************************************************************)
(* Types.  That a count is not beyond the argument that is read next needs *)
(* more while the loop goes on: it is behind it, since an option that was  *)
(* counted has moved the parser on, or ended it.                           *)
(***************************************************************************)
TypedPhase ==
    phase \in {"loop", "defaults", "rest", "parsed", "argument_incorrect_type",
               "missing_argument_exception", "option_not_exists_exception",
               "option_requires_argument_exception", "option_syntax_exception"}

\* What a variable may hold, by its name.
IsTyped(l, v) ==
    \/ l = "configfile"
    \/ v = Undefined
    \/ l = "id" /\ v \in 0 .. (Modulus - 1)
    \/ l = "mode" /\ v \in (-Half) .. (Half - 1)

TypedVariables ==
    /\ variable = [l \in {o.long : o \in Options(program)} |-> variable[l]]
    /\ \A l \in DOMAIN variable : IsTyped(l, variable[l])

TypedCounts ==
    /\ count = [l \in {o.long : o \in Options(program)} |-> count[l]]
    /\ \A l \in DOMAIN count : /\ count[l] \in Nat
                               /\ count[l] <= current
                               /\ phase = "loop" => count[l] < current

TypedParser ==
    /\ program \in {"node", "client"}
    /\ TypedPhase
    /\ TypedVariables
    /\ TypedCounts

\* A client that was started has become what main makes of the configuration.
StartedClient ==
    /\ phase = "parsed" /\ program = "client"
    /\ client = IF Readable THEN Process("serving", 0, 0, NoKey, 0, Config.node_addr)
                            ELSE Ended

TypeInv ==
    /\ TypedParser
    /\ client = Off \/ StartedClient

\* The options of the programs, by their long names.
LEMMA OptionsAre ==
  ASSUME NEW o \in Options(program)
  PROVE  /\ o.long = "configfile" \/ (o.long = "id" /\ o.type = "uint32_t")
               \/ (o.long = "mode" /\ o.type = "int")
         /\ o.default # <<>> => /\ o.long = "mode" /\ o.type = "int"
                                /\ o.default[1] = NumeralOf("0", FALSE, 10, <<0>>)
<1> DEFINE d == NumeralOf("0", FALSE, 10, <<0>>)
<1> HIDE DEF d
<1>1. \/ o = Option("i", "id", "uint32_t", <<>>)
      \/ o = Option("f", "configfile", "string", <<>>)
      \/ o = Option("m", "mode", "int", <<d>>)
  BY DEF Options, NodeOptions, ClientOptions, d
<1>2. /\ o.long = "configfile" \/ (o.long = "id" /\ o.type = "uint32_t")
            \/ (o.long = "mode" /\ o.type = "int")
      /\ o.default # <<>> => o.long = "mode" /\ o.type = "int" /\ o.default[1] = d
  BY <1>1 DEF Option
<1> QED
  BY <1>2 DEF d

\* A value that an option parses is of its type.
LEMMA ParsedIsTyped ==
  ASSUME NEW o \in Options(program), NEW t, Parses(o, t)
  PROVE  IsTyped(o.long, Value(o, t))
<1>1. CASE o.long = "configfile"
  BY <1>1 DEF IsTyped
<1>2. CASE o.long = "id" /\ o.type = "uint32_t"
  <2>1. IntegerParses("uint32_t", t) /\ Value(o, t) = IntegerValue(t)
    BY <1>2 DEF Parses, Value
  <2>2. ~ t.neg /\ Magnitude(t) \in 0 .. (Modulus - 1)
    BY <2>1 DEF IntegerParses, InRange
  <2> QED
    BY <1>2, <2>1, <2>2 DEF IntegerValue, IsTyped
<1>3. CASE o.long = "mode" /\ o.type = "int"
  <2>1. IntegerParses("int", t) /\ Value(o, t) = IntegerValue(t)
    BY <1>3 DEF Parses, Value
  <2>2. IntegerValue(t) \in (-Half) .. (Half - 1)
    BY <2>1 DEF IntegerParses, InRange, IntegerValue
  <2> QED
    BY <1>3, <2>1, <2>2 DEF IsTyped
<1> QED
  BY <1>1, <1>2, <1>3, OptionsAre

\* The default value of the mode is 0.
LEMMA DefaultIsTyped ==
  ASSUME NEW o \in Options(program), o.default # <<>>
  PROVE  IsTyped(o.long, Value(o, o.default[1]))
<1> DEFINE t == NumeralOf("0", FALSE, 10, <<0>>)
           q == <<0>>
<1>1. o.long = "mode" /\ o.type = "int" /\ o.default[1] = t
  BY OptionsAre
<1>2. t.neg = FALSE /\ t.base = 10 /\ t.digits = q
  BY DEF NumeralOf
<1>3. q \in Seq(Nat) /\ Len(q) = 1 /\ q[1] = 0
  OBVIOUS
<1> HIDE DEF q, t
<1>4. PICK h : IsReading(h, t.base, t.digits)
  BY <1>2, <1>3, NumberFold
<1>5. h[Len(t.digits)] = Absolute(t)
  BY <1>4, Zenon DEF IsReading, Absolute
<1>6. Absolute(t) = 0
  <2>1. Len(t.digits) = 1 /\ t.digits[1] = 0 /\ 1 \in 1 .. Len(t.digits) /\ 1 - 1 = 0
    BY <1>2, <1>3
  <2>2. h[0] = 0 /\ h[1] = h[0] * t.base + 0
    BY <1>4, <2>1 DEF IsReading
  <2> QED
    BY <1>2, <1>5, <2>1, <2>2
<1>7. Half \in Nat \ {0}
  BY CommandLineAssumption
<1>8. Magnitude(t) = 0
  <2>1. Proper(t, Len(t.digits))
    BY <1>2, <1>3 DEF Proper
  <2>2. 0 < Modulus
    BY <1>7 DEF Modulus
  <2>3. t.base \in {10, 16} /\ t.digits \in Seq(Nat) /\ Absolute(t) < Modulus
    BY <1>2, <1>3, <1>6, <2>2
  <2> QED
    BY <1>6, <2>1, <2>3, MagnitudeReads
<1>9. Value(o, t) = 0
  BY <1>1, <1>2, <1>8 DEF Value, IntegerValue
<1> QED
  BY <1>1, <1>7, <1>9 DEF IsTyped

\* An option that is parsed is counted, and moves the parser on if it can.
LEMMA ParseOptionTypes ==
  ASSUME Compacted, TypedParser, phase = "loop", NEW t, NEW next \in Int, current < next,
         NEW o \in Options(program), ParseOption(o, t, next), program' = program
  PROVE  TypedParser'
<1>1. current \in Nat
  BY DEF Compacted
<1>2. /\ variable = [l \in {p.long : p \in Options(program)} |-> variable[l]]
      /\ \A l \in DOMAIN variable : IsTyped(l, variable[l])
  BY DEF TypedParser, TypedVariables
<1>3. /\ count = [l \in {p.long : p \in Options(program)} |-> count[l]]
      /\ \A l \in DOMAIN count : count[l] \in Nat /\ count[l] < current
  BY DEF TypedParser, TypedCounts
<1>4. count' = [count EXCEPT ![o.long] = @ + 1]
  BY DEF ParseOption
<1>5. /\ count' = [l \in {p.long : p \in Options(program)} |-> count'[l]]
      /\ \A l \in DOMAIN count' : count'[l] \in Nat /\ count'[l] <= current
  <2> DEFINE L == {p.long : p \in Options(program)}
  <2>1. count = [l \in L |-> count[l]] /\ o.long \in L /\ DOMAIN count = L
    BY <1>3
  <2> HIDE DEF L
  <2>2. count' = [l \in L |-> IF l = o.long THEN count[l] + 1 ELSE count[l]]
    BY <1>4, <2>1
  <2>3. \A l \in L : count[l] \in Nat /\ count[l] < current
    BY <1>3, <2>1
  <2>4. \A l \in L : count'[l] \in Nat /\ count'[l] <= current
    BY <1>1, <2>2, <2>3
  <2>5. count' = [l \in L |-> count'[l]] /\ DOMAIN count' = L
    BY <2>2
  <2> QED
    BY <2>4, <2>5 DEF L
<1>6. CASE Parses(o, t)
  <2>1. variable' = [variable EXCEPT ![o.long] = Value(o, t)] /\ current' = next /\ phase' = phase
    BY <1>6 DEF ParseOption
  <2>2. IsTyped(o.long, Value(o, t))
    BY <1>6, ParsedIsTyped
  <2>3. /\ variable' = [l \in {p.long : p \in Options(program)} |-> variable'[l]]
        /\ \A l \in DOMAIN variable' : IsTyped(l, variable'[l])
    BY <1>2, <2>1, <2>2
  <2>4. TypedVariables'
    BY <2>3 DEF TypedVariables, IsTyped
  <2>5. TypedCounts'
    BY <1>1, <1>5, <2>1 DEF TypedCounts
  <2> QED
    BY <2>1, <2>4, <2>5 DEF TypedParser, TypedPhase
<1>7. CASE ~ Parses(o, t)
  <2>1. phase' = "argument_incorrect_type" /\ UNCHANGED <<variable, current>>
    BY <1>7 DEF ParseOption
  <2>2. TypedVariables'
    BY <2>1 DEF TypedParser, TypedVariables, IsTyped
  <2>3. TypedCounts'
    BY <1>1, <1>5, <2>1 DEF TypedCounts
  <2> QED
    BY <2>1, <2>2, <2>3 DEF TypedParser, TypedPhase
<1> QED
  BY <1>6, <1>7

\* Steps that count nothing.
LEMMA UncountedTypes ==
  ASSUME Compacted, TypedParser, UNCHANGED <<program, count>>, TypedPhase', TypedVariables',
         current' \in Int, current <= current', phase' = "loop" => phase = "loop"
  PROVE  TypedParser'
<1>1. current \in Nat
  BY DEF Compacted
<1>2. /\ count' = [l \in {o.long : o \in Options(program')} |-> count'[l]]
      /\ \A l \in DOMAIN count' :
            count'[l] \in Nat /\ count'[l] <= current /\ (phase = "loop" => count'[l] < current)
  BY DEF TypedParser, TypedCounts
<1>3. \A l \in DOMAIN count' :
         count'[l] \in Nat /\ count'[l] <= current' /\ (phase' = "loop" => count'[l] < current')
  BY <1>1, <1>2
<1>4. TypedCounts'
  BY <1>2, <1>3 DEF TypedCounts
<1> QED
  BY <1>4 DEF TypedParser

\* Init establishes the types.
LEMMA TypeInit == StartInit => TypeInv
<1> SUFFICES ASSUME StartInit PROVE TypeInv
  OBVIOUS
<1>1. /\ program \in {"node", "client"} /\ phase = "loop" /\ current = 1 /\ client = Off
      /\ variable = [l \in {o.long : o \in Options(program)} |-> Initially(l)]
      /\ count = [l \in {o.long : o \in Options(program)} |-> 0]
  BY DEF StartInit, ParserInit
<1>2. TypedPhase
  BY <1>1 DEF TypedPhase
<1>3. TypedVariables
  BY <1>1 DEF TypedVariables, IsTyped, Initially
<1>4. TypedCounts
  BY <1>1 DEF TypedCounts
<1> QED
  BY <1>1, <1>2, <1>3, <1>4 DEF TypeInv, TypedParser

\* The parser keeps its types.
LEMMA ParserTypes ==
  ASSUME Compacted, TypedParser, ParserNext
  PROVE  TypedParser'
<1>1. Len(Arguments(line)) \in Nat /\ current \in Nat
      /\ (phase # "parsed" => argc \in Nat /\ current <= argc)
  BY ArgumentsAre DEF Compacted
<1>2. UNCHANGED <<program, variable>> => TypedVariables'
  BY DEF TypedParser, TypedVariables, IsTyped
<1>3. UNCHANGED phase => TypedPhase'
  BY DEF TypedParser, TypedPhase
<1>4. CASE ReadWord \/ KeepRest
  <2>1. UNCHANGED <<program, phase, variable, count>> /\ current' = current + 1
    BY <1>4 DEF ReadWord, KeepRest, Keep
  <2> QED
    BY <1>1, <1>2, <1>3, <2>1, UncountedTypes
<1>5. CASE SyntaxError \/ UnknownOption \/ GroupedOption \/ MissingArgument
  <2>1. /\ UNCHANGED <<program, current, variable, count>>
        /\ phase' \in {"option_syntax_exception", "option_not_exists_exception",
                       "option_requires_argument_exception", "missing_argument_exception"}
    BY <1>5 DEF SyntaxError, UnknownOption, GroupedOption, MissingArgument, Throw
  <2>2. TypedPhase' /\ phase' # "loop"
    BY <2>1 DEF TypedPhase
  <2> QED
    BY <1>1, <1>2, <2>1, <2>2, UncountedTypes
<1>6. CASE ReadEquals
  <2>1. phase = "loop" /\ program' = program
    BY <1>6 DEF ReadEquals, Single, Flag, At
  <2>2. PICK o \in Called(program, Name) : ParseOption(o, argv[current].value, current + 1)
    BY <1>6 DEF ReadEquals
  <2>3. o \in Options(program) /\ current + 1 \in Int /\ current < current + 1
    BY <1>1, <2>2 DEF Called
  <2> QED
    BY <2>1, <2>2, <2>3, ParseOptionTypes
<1>7. CASE ReadNext
  <2>1. phase = "loop" /\ program' = program
    BY <1>7 DEF ReadNext, Single, Flag, At
  <2>2. PICK o \in Called(program, Name) : ParseOption(o, argv[current + 1].text, current + 2)
    BY <1>7 DEF ReadNext
  <2>3. o \in Options(program) /\ current + 2 \in Int /\ current < current + 2
    BY <1>1, <2>2 DEF Called
  <2> QED
    BY <2>1, <2>2, <2>3, ParseOptionTypes
<1>8. CASE EndLoop
  <2>1. /\ UNCHANGED <<program, variable, count>> /\ phase' = "defaults"
        /\ current' = IF current = argc THEN current ELSE current + 1
    BY <1>8 DEF EndLoop
  <2>2. TypedPhase'
    BY <2>1 DEF TypedPhase
  <2>3. current' \in Int /\ current <= current'
    BY <1>1, <2>1
  <2> QED
    BY <1>2, <2>1, <2>2, <2>3, UncountedTypes
<1>9. CASE Defaults
  <2>1. /\ UNCHANGED <<program, current, count>> /\ phase' = "rest"
        /\ variable' = [l \in DOMAIN variable |->
              IF \E o \in Defaulted : o.long = l
              THEN Value(CHOOSE o \in Defaulted : o.long = l,
                         (CHOOSE o \in Defaulted : o.long = l).default[1])
              ELSE variable[l]]
    BY <1>9, Zenon DEF Defaults
  <2>2. TypedPhase'
    BY <2>1 DEF TypedPhase
  <2>3. ASSUME NEW l \in DOMAIN variable PROVE IsTyped(l, variable'[l])
    <3>1. CASE \E o \in Defaulted : o.long = l
      <4> DEFINE o == CHOOSE o \in Defaulted : o.long = l
      <4>1. o \in Defaulted /\ o.long = l
        BY <3>1
      <4>2. variable'[l] = Value(o, o.default[1])
        BY <2>1, <2>3, <3>1
      <4> HIDE DEF o
      <4>3. o \in Options(program) /\ o.default # <<>>
        BY <4>1 DEF Defaulted
      <4> QED
        BY <4>1, <4>2, <4>3, DefaultIsTyped
    <3>2. CASE ~ \E o \in Defaulted : o.long = l
      <4>1. variable'[l] = variable[l]
        BY <2>1, <2>3, <3>2
      <4> QED
        BY <2>3, <4>1 DEF TypedParser, TypedVariables
    <3> QED
      BY <3>1, <3>2
  <2>4. DOMAIN variable = {o.long : o \in Options(program)} /\ DOMAIN variable' = DOMAIN variable
    BY <2>1 DEF TypedParser, TypedVariables
  <2>5. variable' = [l \in DOMAIN variable |-> variable'[l]]
    BY <2>1
  <2>6. TypedVariables'
    <3>1. \A l \in DOMAIN variable' : IsTyped(l, variable'[l])
      BY <2>3, <2>4
    <3>2. variable' = [l \in {o.long : o \in Options(program')} |-> variable'[l]]
      BY <2>1, <2>4, <2>5
    <3> QED
      BY <3>1, <3>2 DEF TypedVariables, IsTyped
  <2> QED
    BY <1>1, <2>1, <2>2, <2>6, UncountedTypes
<1>10. CASE EndParse
  <2>1. UNCHANGED <<program, current, variable, count>> /\ phase' = "parsed"
    BY <1>10 DEF EndParse
  <2>2. TypedPhase'
    BY <2>1 DEF TypedPhase
  <2> QED
    BY <1>1, <1>2, <2>1, <2>2, UncountedTypes
<1> QED
  BY <1>4, <1>5, <1>6, <1>7, <1>8, <1>9, <1>10 DEF ParserNext

\* Every step keeps the types.
LEMMA TypeStep == Inv /\ TypeInv /\ [StartNext]_vars => TypeInv'
<1> SUFFICES ASSUME Inv, TypeInv, [StartNext]_vars PROVE TypeInv'
  OBVIOUS
<1>1. CASE ParserNext /\ UNCHANGED <<pbft, coin, client>>
  <2>1. TypedParser'
    BY <1>1, ParserTypes DEF Inv, TypeInv
  <2>2. phase # "parsed"
    BY <1>1, ParserStep DEF Inv
  <2> QED
    BY <1>1, <2>1, <2>2 DEF TypeInv, StartedClient, Off
<1>2. UNCHANGED parserVars => TypedParser' /\ (client' = client /\ StartedClient => StartedClient')
  <2> SUFFICES ASSUME UNCHANGED parserVars
               PROVE  TypedParser' /\ (client' = client /\ StartedClient => StartedClient')
    OBVIOUS
  <2>1. Readable' = Readable /\ Config' = Config
    BY DEF parserVars, Readable, Config
  <2>2. TypedParser'
    BY DEF parserVars, TypeInv, TypedParser, TypedPhase, TypedVariables, TypedCounts, IsTyped
  <2> QED
    BY <2>1, <2>2 DEF parserVars, StartedClient
<1>3. CASE StartPbft \/ StartCoin \/ UNCHANGED vars
  <2>1. UNCHANGED parserVars /\ client' = client
    BY <1>3 DEF StartPbft, StartCoin, vars
  <2> QED
    BY <1>2, <2>1 DEF TypeInv, Off
<1>4. CASE StartClient
  <2>1. /\ UNCHANGED parserVars /\ phase = "parsed" /\ program = "client"
        /\ client' = IF Readable THEN Process("serving", 0, 0, NoKey, 0, Config.node_addr) ELSE Ended
    BY <1>4 DEF StartClient, Parsed
  <2>2. Readable' = Readable /\ Config' = Config
    BY <2>1 DEF parserVars, Readable, Config
  <2> QED
    BY <1>2, <2>1, <2>2 DEF TypeInv, StartedClient, parserVars
<1> QED
  BY <1>1, <1>3, <1>4 DEF StartNext

\* A process that has not read a configuration, or that ended.
LEMMA PlainProcesses ==
  /\ Untyped(Off) \in Processes
  /\ Untyped(Ended) \in Processes
  /\ Untyped(Uninited) \in Processes
BY DEF Untyped, Off, Ended, Uninited, Process, Processes

\* The keys a configuration has are keys of a process.
LEMMA ConfigKeys ==
  ASSUME NEW f \in DOMAIN Configs, NEW p \in DOMAIN Configs[f].keys
  PROVE  Configs[f].keys[p] \in
            UNION {{c.keys[q] : q \in DOMAIN c.keys} : c \in {Configs[g] : g \in DOMAIN Configs}}
OBVIOUS

\* What becomes of a process that reads a configuration.
LEMMA InitProcesses ==
  ASSUME NEW f \in DOMAIN Configs, NEW id \in Nat
  PROVE  Untyped(PbftInit(id, Configs[f])) \in Processes /\ Untyped(CoinInit(id, Configs[f])) \in Processes
<1> DEFINE c == Configs[f]
           K == UNION {{d.keys[q] : q \in DOMAIN d.keys} : d \in {Configs[g] : g \in DOMAIN Configs}}
           s == Size(c)
<1>1. /\ s \in Nat /\ c.pbft_primary \in Nat
      /\ \A i \in 0 .. (s - 1) : Port(c, i) \in Nat
  BY ConfigsAssumption DEF Port
<1>2. \A p \in DOMAIN c.keys : c.keys[p] \in K
  BY ConfigKeys
<1>3. Untyped(Ended) \in Processes
  BY PlainProcesses
<1>4. ASSUME NEW port \in Nat, NEW peer \in Nat, NEW key \in {NoKey} \cup K, NEW replicas
      PROVE  Untyped(Process("serving", port, peer, key, c.pbft_primary, replicas)) \in Processes
  <2>1. c.pbft_primary \in Nat
    BY <1>1
  <2> HIDE DEF K, c
  <2>2. Processes = [state : {"off", "serving", "ended"}, port : Nat, peer : Nat,
                     key : {NoKey} \cup K, primary : Nat]
    BY DEF Processes, K
  <2> QED
    BY <1>4, <2>1, <2>2 DEF Untyped, Process
<1> HIDE DEF K, c, s
<1>5. Untyped(PbftInit(id, c)) \in Processes
  <2>1. CASE \E i \in 0 .. (Size(c) - 1) : Port(c, i) \notin DOMAIN c.keys
    BY <1>3, <2>1 DEF PbftInit
  <2>2. CASE ~ \E i \in 0 .. (Size(c) - 1) : Port(c, i) \notin DOMAIN c.keys
    <3> DEFINE port == IF id < Size(c) THEN Port(c, id) + 1000 ELSE 0
               peer == IF id < Size(c) THEN Port(c, id) ELSE 0
               key == IF id < Size(c) THEN c.keys[Port(c, id)] ELSE NoKey
               replicas == [i \in 1 .. Size(c) |-> [host |-> Host(c, i - 1),
                                                    port |-> Port(c, i - 1) + 1000,
                                                    key |-> c.keys[Port(c, i - 1)]]]
    <3>1. id < Size(c) => id \in 0 .. (Size(c) - 1)
      BY <1>1 DEF s
    <3>2. id < Size(c) => Port(c, id) \in Nat /\ c.keys[Port(c, id)] \in K
      BY <1>1, <1>2, <2>2, <3>1 DEF s
    <3>3. port \in Nat /\ peer \in Nat /\ key \in {NoKey} \cup K
      BY <3>2
    <3>4. PbftInit(id, c) = Process("serving", port, peer, key, c.pbft_primary, replicas)
      BY <2>2, Zenon DEF PbftInit
    <3> HIDE DEF port, peer, key, replicas
    <3> QED
      BY <1>4, <3>3, <3>4
  <2> QED
    BY <2>1, <2>2
<1>6. Untyped(CoinInit(id, c)) \in Processes
  <2>1. CASE id >= Size(c) \/ (id < Size(c) /\ Port(c, id) \notin DOMAIN c.keys)
    BY <1>3, <2>1 DEF CoinInit
  <2>2. CASE ~ (id >= Size(c) \/ (id < Size(c) /\ Port(c, id) \notin DOMAIN c.keys))
    <3> DEFINE port == Port(c, id)
               key == c.keys[Port(c, id)]
    <3>1. id \in 0 .. (Size(c) - 1) /\ Port(c, id) \in DOMAIN c.keys
      BY <1>1, <2>2 DEF s
    <3>2. port \in Nat /\ port + 1000 \in Nat /\ key \in {NoKey} \cup K
      BY <1>1, <1>2, <3>1 DEF s
    <3>3. CoinInit(id, c) = Process("serving", port, port + 1000, key, c.pbft_primary, <<>>)
      BY <2>2, Zenon DEF CoinInit
    <3> HIDE DEF port, key
    <3> QED
      BY <1>4, <3>2, <3>3
  <2> QED
    BY <2>1, <2>2
<1> QED
  BY <1>5, <1>6 DEF c

(***************************************************************************)
(* The type invariant: the parser's variables hold values of the types     *)
(* they were declared with, and the processes are what Init can make of    *)
(* a configuration.                                                        *)
(***************************************************************************)
THEOREM TypeCorrect == Spec => []TypeOK
<1>1. Inv /\ TypeInv => TypeOK
  <2> SUFFICES ASSUME Inv, TypeInv PROVE TypeOK
    OBVIOUS
  <2>1. \A l \in DOMAIN variable :
          \/ l = "configfile"
          \/ variable[l] = Undefined
          \/ l = "id" /\ variable[l] \in 0 .. (Modulus - 1)
          \/ l = "mode" /\ variable[l] \in (-Half) .. (Half - 1)
    BY DEF TypeInv, TypedParser, TypedVariables, IsTyped
  <2>2. \A l \in DOMAIN count : count[l] \in 0 .. current
    <3>1. current \in Nat
      BY DEF Inv, Compacted
    <3>2. \A l \in DOMAIN count : count[l] \in Nat /\ count[l] <= current
      BY DEF TypeInv, TypedParser, TypedCounts
    <3> QED
      BY <3>1, <3>2
  <2>3. ASSUME StartedPbft \/ StartedCoin, NEW id \in Ids PROVE id \in Nat
    BY <2>3, IdsAreNumbers DEF Inv, StartedPbft, StartedCoin
  <2>4. Untyped(pbft) \in Processes
    <3>1. CASE StartedPbft
      <4>1. PICK id \in Ids : pbft = IF Readable THEN PbftInit(id, Config) ELSE Uninited
        BY <3>1 DEF StartedPbft
      <4>2. id \in Nat
        BY <2>3, <3>1
      <4> QED
        BY <4>1, <4>2, InitProcesses, PlainProcesses DEF Readable, Config
    <3> QED
      BY <3>1, PlainProcesses DEF Inv
  <2>5. Untyped(coin) \in Processes
    <3>1. CASE StartedCoin
      <4>1. PICK id \in Ids : coin = IF Readable THEN CoinInit(id, Config) ELSE Uninited
        BY <3>1 DEF StartedCoin
      <4>2. id \in Nat
        BY <2>3, <3>1
      <4> QED
        BY <4>1, <4>2, InitProcesses, PlainProcesses DEF Readable, Config
    <3> QED
      BY <3>1, PlainProcesses DEF Inv
  <2>6. Untyped(client) \in Processes
    <3>1. CASE StartedClient /\ Readable
      <4>1. Untyped(client) = Untyped(Uninited)
        BY <3>1 DEF StartedClient, Untyped, Uninited, Process
      <4> QED
        BY <4>1, PlainProcesses
    <3> QED
      BY <3>1, PlainProcesses DEF TypeInv, StartedClient
  <2> QED
    BY <2>1, <2>2, <2>4, <2>5, <2>6 DEF TypeOK, TypeInv, TypedParser, TypedPhase
<1>2. Spec => []TypeInv
  <2>1. Inv /\ TypeInv /\ [StartNext]_vars => TypeInv'
    BY TypeStep
  <2> QED
    BY <2>1, TypeInit, AlwaysInv, PTL DEF Spec
<1> QED
  BY <1>1, <1>2, AlwaysInv, PTL

-----------------------------------------------------------------------------
(***************************************************************************)
(* What the parser makes of a line.  The loop reads whole items; what is   *)
(* left of argv by then are the words, up to the place where the next is   *)
(* put, and behind the argument that is read next there is the rest of     *)
(* them.                                                                   *)
(***************************************************************************)
\* Where the arguments of the items end, and where the words among them do.
Places == CHOOSE P : IsLaidOut(P, Spelled(line), Arguments(line))

Leftover == [k \in DOMAIN line |-> Left(k)]
Kept == CHOOSE P : IsLaidOut(P, Leftover, Words)

Gives(k, o) == line[k].kind # "arg" /\ line[k].opt = o

\* An option is what the last of the items that give it says.
Has(o, given) ==
    /\ given = {} => variable[o.long] = Initially(o.long) /\ count[o.long] = 0
    /\ given # {} => /\ variable[o.long] = Value(o, line[Max(given)].arg.text)
                     /\ count[o.long] \in Nat \ {0}

\* The first j items are read, without a mistake and without an end.
Reading(j) ==
    /\ current = Places[j] + 1
    /\ nextKeep = Kept[j] + 1
    /\ \A i \in 1 .. Kept[j] : argv[i] = Words[i]
    /\ \A k \in 1 .. j : k \in Optional /\ Fault(line[k]) = "none"
    /\ \A o \in Options(program) : Has(o, {k \in 1 .. j : Gives(k, o)})

\* What is to be read is what is missing of the words.
Remaining ==
    /\ \A i \in 1 .. nextKeep - 1 : argv[i] = Words[i]
    /\ Len(Words) = (nextKeep - 1) + (argc - current)
    /\ \A i \in 0 .. (argc - current) - 1 : Arguments(line)[current + i] = Words[nextKeep + i]

\* The inductive invariant.
Parsing ==
    /\ phase = "loop" => \E j \in 0 .. Len(line) : Reading(j)
    /\ phase \in {"defaults", "rest"} => Remaining /\ Mistakes = {}
    /\ phase = "defaults" => \A o \in Options(program) : Has(o, Giving(o))
    /\ phase = "rest" => \A o \in Options(program) : variable[o.long] = Said(o)
    /\ ParsedAsWritten

\* The words are laid out as the arguments are.
LEMMA PlacesAre ==
  ASSUME line \in Lines
  PROVE  /\ IsLaidOut(Places, Spelled(line), Arguments(line))
         /\ IsLaidOut(Kept, Leftover, Words)
<1>1. \E P : IsLaidOut(P, Spelled(line), Arguments(line))
  BY ArgumentsAre
<1>2. /\ Leftover = [k \in DOMAIN line |-> Leftover[k]]
      /\ \A k \in DOMAIN line : Leftover[k] \in {<<>>, Spelling(line[k])}
      /\ Words = FlattenSeq(Leftover)
  BY DEF Leftover, Left, Words
<1>3. \E P : IsLaidOut(P, Leftover, FlattenSeq(Leftover))
  BY <1>2, ArgumentsLaid
<1> QED
  BY <1>1, <1>2, <1>3, Zenon DEF Places, Kept

\* Where an item stands.
LEMMA ItemPlaces ==
  ASSUME line \in Lines
  PROVE  /\ Places[0] = 0 /\ Kept[0] = 0
         /\ Len(Arguments(line)) = Places[Len(line)] /\ Len(Words) = Kept[Len(line)]
         /\ \A k \in 0 .. Len(line) : Places[k] \in Nat /\ Kept[k] \in Nat
         /\ \A k \in 0 .. Len(line) : Places[k] <= Len(Arguments(line)) /\ Kept[k] <= Len(Words)
         /\ \A k \in 1 .. Len(line) : Places[k] = Places[k - 1] + Len(Spelling(line[k]))
         /\ \A k \in 1 .. Len(line) : Kept[k] = Kept[k - 1] + Len(Left(k))
         /\ \A k \in 1 .. Len(line) : \A i \in 1 .. Len(Spelling(line[k])) :
               Arguments(line)[Places[k - 1] + i] = Spelling(line[k])[i]
         /\ \A k \in 1 .. Len(line) : \A i \in 1 .. Len(Left(k)) :
               Words[Kept[k - 1] + i] = Left(k)[i]
         /\ Words = [i \in 1 .. Len(Words) |-> Words[i]]
<1> DEFINE n == Len(line)
           A == Arguments(line)
           s == Spelled(line)
<1>1. n \in Nat /\ DOMAIN line = 1 .. n
  BY LineIs
<1>2. /\ Len(s) = n /\ \A k \in 1 .. n : s[k] = Spelling(line[k])
      /\ Len(Leftover) = n /\ \A k \in 1 .. n : Leftover[k] = Left(k)
  <2>1. s = [k \in 1 .. n |-> Spelling(line[k])]
    BY <1>1 DEF Spelled
  <2>2. Leftover = [k \in 1 .. n |-> Left(k)]
    BY <1>1 DEF Leftover
  <2> HIDE DEF n, s
  <2> QED
    BY <1>1, <2>1, <2>2
<1> HIDE DEF n, A, s
<1>3. /\ Places \in [0 .. n -> Nat] /\ Places[0] = 0 /\ Len(A) = Places[n]
      /\ \A k \in 1 .. n : Places[k] = Places[k - 1] + Len(s[k]) /\ Places[k] <= Places[n]
      /\ \A k \in 1 .. n : \A i \in 1 .. Len(s[k]) : A[Places[k - 1] + i] = s[k][i]
  BY <1>2, PlacesAre DEF IsLaidOut, A, s
<1>4. /\ Kept \in [0 .. n -> Nat] /\ Kept[0] = 0 /\ Len(Words) = Kept[n]
      /\ \A k \in 1 .. n : Kept[k] = Kept[k - 1] + Len(Leftover[k]) /\ Kept[k] <= Kept[n]
      /\ \A k \in 1 .. n : \A i \in 1 .. Len(Leftover[k]) : Words[Kept[k - 1] + i] = Leftover[k][i]
      /\ Words = [i \in 1 .. Len(Words) |-> Words[i]]
  BY <1>2, PlacesAre DEF IsLaidOut
<1>5. \A k \in 0 .. n : k = 0 \/ k \in 1 .. n
  BY <1>1
<1>6. /\ \A k \in 0 .. n : Places[k] \in Nat /\ Kept[k] \in Nat
      /\ \A k \in 0 .. n : Places[k] <= Len(A) /\ Kept[k] <= Len(Words)
  <2>1. \A k \in 0 .. n : Places[k] \in Nat /\ Kept[k] \in Nat
    BY <1>3, <1>4
  <2>2. n \in 0 .. n /\ 0 \in 0 .. n
    BY <1>1
  <2>3. 0 <= Len(A) /\ 0 <= Len(Words)
    BY <1>3, <1>4, <2>1, <2>2
  <2>4. ASSUME NEW k \in 0 .. n PROVE Places[k] <= Len(A) /\ Kept[k] <= Len(Words)
    <3>1. CASE k = 0
      BY <1>3, <1>4, <2>3, <3>1
    <3>2. CASE k \in 1 .. n
      BY <1>3, <1>4, <3>2
    <3> QED
      BY <1>5, <3>1, <3>2
  <2> QED
    BY <2>1, <2>4
<1>7. /\ \A k \in 1 .. n : Places[k] = Places[k - 1] + Len(Spelling(line[k]))
      /\ \A k \in 1 .. n : Kept[k] = Kept[k - 1] + Len(Left(k))
  <2>1. ASSUME NEW k \in 1 .. n PROVE Places[k] = Places[k - 1] + Len(Spelling(line[k]))
    <3>1. Places[k] = Places[k - 1] + Len(s[k])
      BY <1>3
    <3>2. s[k] = Spelling(line[k])
      BY <1>2
    <3> QED
      BY <3>1, <3>2
  <2>2. ASSUME NEW k \in 1 .. n PROVE Kept[k] = Kept[k - 1] + Len(Left(k))
    <3>1. Kept[k] = Kept[k - 1] + Len(Leftover[k])
      BY <1>4
    <3>2. Leftover[k] = Left(k)
      BY <1>2
    <3> QED
      BY <3>1, <3>2
  <2> QED
    BY <2>1, <2>2
<1>8. \A k \in 1 .. n : \A i \in 1 .. Len(Spelling(line[k])) :
         A[Places[k - 1] + i] = Spelling(line[k])[i]
  BY <1>2, <1>3
<1>9. \A k \in 1 .. n : \A i \in 1 .. Len(Left(k)) : Words[Kept[k - 1] + i] = Left(k)[i]
  BY <1>2, <1>4
<1> QED
  BY <1>3, <1>4, <1>6, <1>7, <1>8, <1>9 DEF n, A

\* What the properties make of the line stays while the line does.
LEMMA LineStays ==
  ASSUME UNCHANGED <<program, line>>
  PROVE  /\ Places' = Places /\ Kept' = Kept /\ Words' = Words
         /\ Arguments(line)' = Arguments(line)
         /\ Optional' = Optional /\ Mistakes' = Mistakes
         /\ \A k : Fault(line[k])' = Fault(line[k])
         /\ \A o : Giving(o)' = Giving(o) /\ Said(o)' = Said(o)
         /\ \A k, o : Gives(k, o)' = Gives(k, o)
<1>1. Optional' = Optional
  BY DEF Optional
<1>2. \A k : Fault(line[k])' = Fault(line[k])
  BY DEF Fault, Called
<1>3. Mistakes' = Mistakes
  BY <1>1, <1>2 DEF Mistakes
<1>4. \A o : Giving(o)' = Giving(o)
  BY <1>1 DEF Giving
<1>5. \A o : Said(o)' = Said(o)
  BY <1>4 DEF Said
<1>6. \A k : Left(k)' = Left(k)
  BY <1>1 DEF Left
<1>7. Leftover' = Leftover /\ Words' = Words
  BY <1>6 DEF Leftover, Words
<1>8. Places' = Places /\ Kept' = Kept
  BY <1>7 DEF Places, Kept
<1> QED
  BY <1>1, <1>2, <1>3, <1>4, <1>5, <1>7, <1>8 DEF Gives

\* From an item on of which all arguments are left, the words are the arguments.
LEMMA RestSame ==
  ASSUME line \in Lines, NEW j \in 0 .. Len(line),
         \A k \in j + 1 .. Len(line) : Left(k) = Spelling(line[k])
  PROVE  /\ Len(Words) - Kept[j] = Len(Arguments(line)) - Places[j]
         /\ \A i \in 1 .. Len(Arguments(line)) - Places[j] :
               Words[Kept[j] + i] = Arguments(line)[Places[j] + i]
<1> DEFINE n == Len(line)
           A == Arguments(line)
           Same(k) == /\ Kept[k] - Kept[j] = Places[k] - Places[j]
                      /\ \A i \in 1 .. Places[k] - Places[j] : Words[Kept[j] + i] = A[Places[j] + i]
           E == {k \in 0 .. n : j <= k => Same(k)}
           id == [k \in 0 .. n |-> k]
<1>1. n \in Nat /\ 0 \in 0 .. n /\ n \in 0 .. n /\ j \in 0 .. n
  BY LineIs
<1>2. \A k \in 0 .. n : Places[k] \in Nat /\ Kept[k] \in Nat
  BY ItemPlaces
<1>3. Len(A) = Places[n] /\ Len(Words) = Kept[n]
  BY ItemPlaces
<1>4. Same(j)
  BY <1>2
<1> HIDE DEF Same
<1>5. ASSUME NEW k \in 1 .. n, j <= k - 1, Same(k - 1) PROVE Same(k)
  <2> DEFINE m == Len(Spelling(line[k]))
  <2>1. k - 1 \in 0 .. n /\ k \in 0 .. n /\ k \in j + 1 .. n
    BY <1>1, <1>5
  <2>2. Left(k) = Spelling(line[k])
    BY <2>1
  <2>3. Places[k] = Places[k - 1] + m /\ Kept[k] = Kept[k - 1] + m
    BY <2>2, ItemPlaces
  <2>4. \A i \in 1 .. m : Words[Kept[k - 1] + i] = A[Places[k - 1] + i]
    <3>1. \A i \in 1 .. m : A[Places[k - 1] + i] = Spelling(line[k])[i]
      BY ItemPlaces
    <3>2. \A i \in 1 .. Len(Left(k)) : Words[Kept[k - 1] + i] = Left(k)[i]
      BY ItemPlaces
    <3> QED
      BY <2>2, <3>1, <3>2
  <2>5. m \in Nat
    <3>1. IsItem(line[k])
      BY LineIs
    <3>2. m \in {1, 2}
      BY <3>1, SpellingIs
    <3> QED
      BY <3>2
  <2> HIDE DEF m, n, A
  <2>6. /\ Places[k] \in Nat /\ Places[k - 1] \in Nat /\ Places[j] \in Nat
        /\ Kept[k] \in Nat /\ Kept[k - 1] \in Nat /\ Kept[j] \in Nat
    BY <1>1, <1>2, <2>1
  <2> DEFINE pj == Places[j]
             pm == Places[k - 1]
             pk == Places[k]
             qj == Kept[j]
             qm == Kept[k - 1]
             qk == Kept[k]
  <2>7. qm - qj = pm - pj /\ \A i \in 1 .. pm - pj : Words[qj + i] = A[pj + i]
    BY <1>5 DEF Same
  <2> HIDE DEF pj, pm, pk, qj, qm, qk
  <2>8. /\ pj \in Nat /\ pm \in Nat /\ pk \in Nat /\ qj \in Nat /\ qm \in Nat /\ qk \in Nat
        /\ pk = pm + m /\ qk = qm + m
        /\ \A i \in 1 .. m : Words[qm + i] = A[pm + i]
    BY <2>3, <2>4, <2>6 DEF pj, pm, pk, qj, qm, qk
  <2>9. qk - qj = pk - pj
    <3>1. qm - qj = pm - pj
      BY <2>7
    <3>2. pk = pm + m /\ qk = qm + m
      BY <2>8
    <3>3. m \in Int /\ pj \in Int /\ pm \in Int /\ qj \in Int /\ qm \in Int
      BY <2>5, <2>8
    <3> QED
      BY <3>1, <3>2, <3>3
  <2>10. ASSUME NEW i \in 1 .. pk - pj PROVE Words[qj + i] = A[pj + i]
    <3>1. CASE i <= pm - pj
      BY <2>7, <2>8, <3>1
    <3>2. CASE i > pm - pj
      <4> DEFINE x == i - (pm - pj)
      <4>1. x \in 1 .. m
        BY <2>5, <2>8, <3>2
      <4>2. qm + x = qj + i /\ pm + x = pj + i
        BY <2>7, <2>8
      <4> HIDE DEF x
      <4>3. Words[qm + x] = A[pm + x]
        BY <2>8, <4>1
      <4> QED
        BY <4>2, <4>3
    <3>3. i <= pm - pj \/ i > pm - pj
      BY <2>8
    <3> QED
      BY <3>1, <3>2, <3>3
  <2> QED
    BY <2>9, <2>10 DEF Same, pj, pk, qj, qk
<1>6. id[0] \in E
  BY <1>1, <1>4
<1>7. ASSUME NEW k \in 1 .. n, id[k - 1] \in E PROVE id[k] \in E
  <2>1. k \in 0 .. n /\ k - 1 \in 0 .. n
    BY <1>1
  <2> HIDE DEF Same
  <2>2. j <= k - 1 => Same(k - 1)
    BY <1>7, <2>1
  <2>3. j <= k => j <= k - 1 \/ j = k
    BY <1>1
  <2>4. j <= k => Same(k)
    BY <1>4, <1>5, <2>2, <2>3
  <2> QED
    BY <2>1, <2>4
<1>8. Same(n)
  <2>1. \A k \in 0 .. n : id[k] \in E
    <3> HIDE DEF E, id, n
    <3> QED
      BY <1>1, <1>6, <1>7, Along
  <2>2. n \in E /\ j <= n
    BY <1>1, <2>1
  <2> HIDE DEF Same
  <2> QED
    BY <2>2
<1> QED
  BY <1>3, <1>8 DEF Same

\* The item the loop is at.
LEMMA ItemRead ==
  ASSUME Compacted, phase = "loop", NEW j \in 0 .. Len(line), Reading(j)
  PROVE  /\ argc = Len(Arguments(line)) + 1
         /\ current = argc <=> j = Len(line)
         /\ current < argc =>
               /\ j + 1 \in 1 .. Len(line)
               /\ IsItem(line[j + 1])
               /\ argv[current] = Spelling(line[j + 1])[1]
               /\ Places[j + 1] \in Nat /\ Places[j + 1] + 1 <= argc
               /\ Len(Spelling(line[j + 1])) = 1 => Places[j + 1] + 1 = current + 1
               /\ Len(Spelling(line[j + 1])) = 2 =>
                     /\ Places[j + 1] + 1 = current + 2
                     /\ argv[current + 1] = Spelling(line[j + 1])[2]
               /\ j + 1 = Len(line) => Places[j + 1] + 1 = argc
<1> DEFINE n == Len(line)
           A == Arguments(line)
           N == Len(A)
           item == line[j + 1]
           w == Spelling(item)
<1>1. line \in Lines
  BY DEF Compacted
<1>2. n \in Nat /\ N \in Nat
  BY <1>1, LineIs, ArgumentsAre
<1>3. argc = N + 1 /\ current = Places[j] + 1
  BY DEF Compacted, Reading
<1>4. Places[n] = N /\ Places[j] \in Nat /\ Places[j] <= N
  BY <1>1, ItemPlaces
<1>5. \A k \in 1 .. N : k >= current => argv[k] = A[k]
  BY DEF Compacted
<1>6. ASSUME j # n
      PROVE  /\ j + 1 \in 1 .. n
             /\ IsItem(item)
             /\ Places[j + 1] = Places[j] + Len(w) /\ Len(w) \in {1, 2} /\ Places[j + 1] <= N
             /\ \A i \in 1 .. Len(w) : A[Places[j] + i] = w[i]
  <2>1. j + 1 \in 1 .. n /\ j + 1 \in 0 .. n /\ (j + 1) - 1 = j
    BY <1>2, <1>6
  <2>2. IsItem(item)
    BY <1>1, <2>1, LineIs
  <2>3. Len(w) \in {1, 2}
    BY <2>2, SpellingIs
  <2>4. Places[j + 1] = Places[(j + 1) - 1] + Len(w) /\ Places[j + 1] <= N
    BY <1>1, <2>1, ItemPlaces
  <2>5. \A i \in 1 .. Len(w) : A[Places[(j + 1) - 1] + i] = w[i]
    BY <1>1, <2>1, ItemPlaces
  <2> HIDE DEF w, item, N, A, n
  <2> QED
    BY <2>1, <2>2, <2>3, <2>4, <2>5
<1> HIDE DEF w, item, N, A, n
<1> DEFINE p == Places[j]
           next == Places[j + 1]
           d == Len(w)
<1> HIDE DEF p, next, d
<1>7. j # n => /\ next = p + d /\ d \in {1, 2} /\ next <= N
               /\ \A i \in 1 .. d : A[p + i] = w[i]
  BY <1>6 DEF p, next, d
<1>8. /\ argc = N + 1 /\ current = p + 1 /\ p \in Nat /\ p <= N
      /\ j = n => p = N
      /\ j + 1 = n => next = N
  BY <1>3, <1>4 DEF p, next
<1>9. current = argc <=> j = n
  BY <1>2, <1>7, <1>8
<1>10. ASSUME current < argc
       PROVE  /\ argv[current] = w[1]
              /\ next \in Nat /\ next + 1 <= argc
              /\ d = 1 => next + 1 = current + 1
              /\ d = 2 => next + 1 = current + 2 /\ argv[current + 1] = w[2]
              /\ j + 1 = n => next + 1 = argc
  <2>1. j # n
    BY <1>8, <1>9, <1>10, <1>2
  <2>2. next = p + d /\ d \in {1, 2} /\ next <= N
    BY <1>7, <2>1
  <2>3. 1 \in 1 .. d /\ p + 1 = current /\ current \in 1 .. N
    BY <1>2, <1>8, <2>2
  <2>4. argv[current] = w[1]
    BY <1>2, <1>5, <1>7, <2>1, <2>3
  <2>5. ASSUME d = 2 PROVE argv[current + 1] = w[2]
    <3>1. 2 \in 1 .. d /\ p + 2 = current + 1 /\ current + 1 \in 1 .. N /\ current + 1 >= current
      BY <1>2, <1>8, <2>2, <2>5
    <3> QED
      BY <1>5, <1>7, <2>1, <3>1
  <2>6. next \in Nat /\ next + 1 <= argc
    BY <1>2, <1>8, <2>2
  <2>7. /\ d = 1 => next + 1 = current + 1
        /\ d = 2 => next + 1 = current + 2
    BY <1>8, <2>2
  <2>8. j + 1 = n => next + 1 = argc
    BY <1>8
  <2> QED
    BY <2>4, <2>5, <2>6, <2>7, <2>8
<1>11. current < argc => j # n
  BY <1>2, <1>8, <1>9
<1>12. argc = Len(Arguments(line)) + 1 /\ (current = argc <=> j = Len(line))
  BY <1>3, <1>9 DEF N, A, n
<1>13. current < argc => j + 1 \in 1 .. Len(line) /\ IsItem(line[j + 1])
  BY <1>6, <1>11 DEF n, item
<1>14. ASSUME current < argc
       PROVE  /\ argv[current] = Spelling(line[j + 1])[1]
              /\ Places[j + 1] \in Nat /\ Places[j + 1] + 1 <= argc
              /\ Len(Spelling(line[j + 1])) = 1 => Places[j + 1] + 1 = current + 1
              /\ Len(Spelling(line[j + 1])) = 2 =>
                    /\ Places[j + 1] + 1 = current + 2
                    /\ argv[current + 1] = Spelling(line[j + 1])[2]
              /\ j + 1 = Len(line) => Places[j + 1] + 1 = argc
  BY <1>10, <1>14 DEF next, d, w, item, n
<1> QED
  BY <1>12, <1>13, <1>14
\* The argument an item begins with.
LEMMA FlagIs ==
  ASSUME NEW item, IsItem(item)
  PROVE  /\ item.kind = "arg" => Spelling(item)[1] = item.arg /\ Len(Spelling(item)) = 1
         /\ item.kind # "arg" =>
               /\ Spelling(item)[1].shape \in {"group", "long"}
               /\ Len(Spelling(item)[1].names) = 1
               /\ Head(Spelling(item)[1].names) \in {item.opt.short, item.opt.long}
               /\ Spelling(item)[1].eq =>
                     Len(Spelling(item)) = 1 /\ Spelling(item)[1].value = item.arg.text
               /\ ~ Spelling(item)[1].eq =>
                     Len(Spelling(item)) = 2 /\ Spelling(item)[2] = item.arg
<1> DEFINE w == Spelling(item)
           short == item.opt.short
           long == item.opt.long
<1> HIDE DEF short, long
<1>1. /\ item.kind \in {"arg", "short", "long", "eq"}
      /\ item.kind = "arg" => Len(w) = 1 /\ w[1] = item.arg
      /\ item.kind = "short" => /\ Len(w) = 2 /\ w[2] = item.arg
                                /\ w[1] = Arg("group", <<short>>, FALSE, Word(""), Word("-x"))
      /\ item.kind = "long" => /\ Len(w) = 2 /\ w[2] = item.arg
                               /\ w[1] = Arg("long", <<long>>, FALSE, Word(""), Word("--x"))
      /\ item.kind = "eq" =>
            /\ Len(w) = 1
            /\ w[1] = Arg("long", <<long>>, TRUE, item.arg.text, Word("--x=v"))
  BY SpellingIs DEF short, long
<1> HIDE DEF w
<1>2. CASE item.kind = "arg"
  BY <1>1, <1>2 DEF w
<1>3. CASE item.kind = "short"
  <2> DEFINE a == w[1]
             names == <<short>>
             value == Word("")
             text == Word("-x")
  <2>1. a = Arg("group", names, FALSE, value, text) /\ Len(w) = 2 /\ w[2] = item.arg
    BY <1>1, <1>3
  <2>2. Len(names) = 1 /\ Head(names) = short
    OBVIOUS
  <2> HIDE DEF a, names, value, text
  <2>3. a.shape = "group" /\ a.names = names /\ a.eq = FALSE /\ a.value = value
    BY <2>1 DEF Arg
  <2> QED
    BY <1>3, <2>1, <2>2, <2>3 DEF w, short, a
<1>4. CASE item.kind = "long"
  <2> DEFINE a == w[1]
             names == <<long>>
             value == Word("")
             text == Word("--x")
  <2>1. a = Arg("long", names, FALSE, value, text) /\ Len(w) = 2 /\ w[2] = item.arg
    BY <1>1, <1>4
  <2>2. Len(names) = 1 /\ Head(names) = long
    OBVIOUS
  <2> HIDE DEF a, names, value, text
  <2>3. a.shape = "long" /\ a.names = names /\ a.eq = FALSE /\ a.value = value
    BY <2>1 DEF Arg
  <2> QED
    BY <1>4, <2>1, <2>2, <2>3 DEF w, long, a
<1>5. CASE item.kind = "eq"
  <2> DEFINE a == w[1]
             names == <<long>>
             value == item.arg.text
             text == Word("--x=v")
  <2>1. a = Arg("long", names, TRUE, value, text) /\ Len(w) = 1
    BY <1>1, <1>5
  <2>2. Len(names) = 1 /\ Head(names) = long
    OBVIOUS
  <2> HIDE DEF a, names, value, text
  <2>3. a.shape = "long" /\ a.names = names /\ a.eq = TRUE /\ a.value = value
    BY <2>1 DEF Arg
  <2> QED
    BY <1>5, <2>1, <2>2, <2>3 DEF w, long, a, value
<1> QED
  BY <1>1, <1>2, <1>3, <1>4, <1>5

\* An option is found by its names, in the program that has it.
LEMMA CalledIs ==
  ASSUME NEW o \in NodeOptions \cup ClientOptions, NEW name \in {o.short, o.long}
  PROVE  /\ o \in Options(program) => Called(program, name) = {o}
         /\ o \notin Options(program) => Called(program, name) = {}
<1> DEFINE d == NumeralOf("0", FALSE, 10, <<0>>)
           i == Option("i", "id", "uint32_t", <<>>)
           f == Option("f", "configfile", "string", <<>>)
           m == Option("m", "mode", "int", <<d>>)
<1>1. NodeOptions = {i, f} /\ ClientOptions = {m, f}
  BY DEF NodeOptions, ClientOptions
<1> HIDE DEF d
<1>2. /\ i.short = "i" /\ i.long = "id" /\ f.short = "f" /\ f.long = "configfile"
      /\ m.short = "m" /\ m.long = "mode"
  BY DEF Option
<1> HIDE DEF i, f, m
<1>3. Options(program) = {i, f} \/ Options(program) = {m, f}
  BY <1>1 DEF Options
<1>4. o = i \/ o = f \/ o = m
  BY <1>1
<1>5. i # f /\ m # f /\ i # m
  BY <1>2
<1> QED
  BY <1>2, <1>3, <1>4, <1>5 DEF Called

\* Two options of a program differ in their long names.
LEMMA LongNames ==
  ASSUME NEW o \in Options(program), NEW p \in Options(program), o.long = p.long
  PROVE  o = p
<1>1. o \in NodeOptions \cup ClientOptions /\ p \in NodeOptions \cup ClientOptions
  BY DEF Options
<1>2. Called(program, o.long) = {o} /\ Called(program, p.long) = {p}
  BY <1>1, CalledIs
<1> QED
  BY <1>2

\* An item that is no end may be an option.
LEMMA NextOptional ==
  ASSUME line \in Lines, NEW j \in 0 .. Len(line), Reading(j), j + 1 \in 1 .. Len(line),
         ~ IsEnd(line[j + 1])
  PROVE  j + 1 \in Optional
<1>1. Len(line) \in Nat /\ DOMAIN line = 1 .. Len(line)
  BY LineIs
<1>2. ASSUME NEW k \in 1 .. j PROVE ~ IsEnd(line[k])
  <2>1. k \in Optional
    BY DEF Reading
  <2>2. k \in 1 .. k
    BY <1>1
  <2> QED
    BY <2>1, <2>2 DEF Optional
<1>3. \A k \in 1 .. j + 1 : k \in 1 .. j \/ k = j + 1
  BY <1>1
<1> QED
  BY <1>1, <1>2, <1>3 DEF Optional

\* The parser ends with the exception for the item it is at.
LEMMA Mistaken ==
  ASSUME line \in Lines, NEW j \in 0 .. Len(line), Reading(j), j + 1 \in 1 .. Len(line),
         ~ IsEnd(line[j + 1]), Fault(line[j + 1]) # "none",
         phase' = Fault(line[j + 1]), phase' \notin {"loop", "defaults", "rest", "parsed"},
         UNCHANGED <<program, line>>
  PROVE  Parsing'
<1>1. Len(line) \in Nat /\ DOMAIN line = 1 .. Len(line)
  BY LineIs
<1>2. j + 1 \in Mistakes
  BY NextOptional DEF Mistakes
<1>3. ASSUME NEW k \in Mistakes PROVE j + 1 <= k
  <2>1. k \in 1 .. Len(line) /\ Fault(line[k]) # "none"
    BY <1>1 DEF Mistakes, Optional
  <2>2. k \notin 1 .. j
    BY <2>1 DEF Reading
  <2> QED
    BY <1>1, <2>1, <2>2
<1>4. Mistakes' = Mistakes /\ Fault(line[j + 1])' = Fault(line[j + 1])
  BY LineStays
<1>5. ParsedAsWritten'
  BY <1>2, <1>3, <1>4 DEF ParsedAsWritten
<1> QED
  BY <1>5 DEF Parsing

\* An item that gives an option has been read.
LEMMA OptionHad ==
  ASSUME TypedCounts, TypedVariables, line \in Lines, NEW j \in Nat, NEW p \in Options(program),
         line[j + 1].kind # "arg", line[j + 1].opt = p, NEW t, t = line[j + 1].arg.text,
         \A o \in Options(program) : Has(o, {k \in 1 .. j : Gives(k, o)}),
         variable' = [variable EXCEPT ![p.long] = Value(p, t)],
         count' = [count EXCEPT ![p.long] = @ + 1],
         UNCHANGED <<program, line>>
  PROVE  \A o \in Options(program) : Has(o, {k \in 1 .. j + 1 : Gives(k, o)})'
<1> SUFFICES ASSUME NEW o \in Options(program)
             PROVE  Has(o, {k \in 1 .. j + 1 : Gives(k, o)})'
  OBVIOUS
<1> DEFINE before == {k \in 1 .. j : Gives(k, o)}
           now == {k \in 1 .. j + 1 : Gives(k, o)}
           L == {q.long : q \in Options(program)}
<1>1. \A k : Gives(k, o)' = Gives(k, o)
  BY LineStays
<1>2. now' = now
  BY <1>1
<1>3. /\ variable = [l \in L |-> variable[l]]
      /\ count = [l \in L |-> count[l]]
      /\ \A l \in L : count[l] \in Nat
      /\ o.long \in L /\ p.long \in L
  BY DEF TypedVariables, TypedCounts
<1> HIDE DEF L
<1>4. CASE o = p
  <2>1. j + 1 \in now /\ now \in SUBSET (1 .. j + 1) /\ j + 1 \in Nat
    BY <1>4 DEF Gives
  <2>2. Max(now) \in now /\ \A y \in now : Max(now) >= y
    <3> HIDE DEF now
    <3> QED
      BY <2>1, MaxIs
  <2>3. Max(now) = j + 1
    BY <2>1, <2>2
  <2>4. variable'[o.long] = Value(o, t) /\ count'[o.long] = count[o.long] + 1
    BY <1>3, <1>4
  <2>5. count'[o.long] \in Nat \ {0}
    BY <1>3, <2>4
  <2> HIDE DEF now
  <2>6. /\ now # {} /\ variable'[o.long] = Value(o, line'[Max(now)].arg.text)
        /\ count'[o.long] \in Nat \ {0}
    BY <2>1, <2>3, <2>4, <2>5
  <2>7. Has(o, now)'
    BY <1>2, <2>6 DEF Has
  <2> QED
    BY <2>7 DEF now
<1>5. CASE o # p
  <2>1. o.long # p.long
    BY <1>5, LongNames
  <2>2. variable'[o.long] = variable[o.long] /\ count'[o.long] = count[o.long]
    BY <1>3, <2>1
  <2>3. now = before
    <3>1. ~ Gives(j + 1, o)
      BY <1>5 DEF Gives
    <3>2. \A k \in 1 .. j + 1 : k \in 1 .. j \/ k = j + 1
      OBVIOUS
    <3> QED
      BY <3>1, <3>2
  <2>4. Has(o, before)
    OBVIOUS
  <2> HIDE DEF now, before
  <2>5. Has(o, now)'
    BY <1>2, <2>2, <2>3, <2>4 DEF Has
  <2> QED
    BY <2>5 DEF now
<1> QED
  BY <1>4, <1>5

\* An item that gives no option changes none.
LEMMA NothingHad ==
  ASSUME line \in Lines, NEW j \in Nat, line[j + 1].kind = "arg",
         \A o \in Options(program) : Has(o, {k \in 1 .. j : Gives(k, o)}),
         UNCHANGED <<program, line, variable, count>>
  PROVE  \A o \in Options(program) : Has(o, {k \in 1 .. j + 1 : Gives(k, o)})'
<1> SUFFICES ASSUME NEW o \in Options(program)
             PROVE  Has(o, {k \in 1 .. j + 1 : Gives(k, o)})'
  OBVIOUS
<1> DEFINE before == {k \in 1 .. j : Gives(k, o)}
           now == {k \in 1 .. j + 1 : Gives(k, o)}
<1>1. \A k : Gives(k, o)' = Gives(k, o)
  BY LineStays
<1>2. now' = now
  BY <1>1
<1>3. now = before
  <2>1. ~ Gives(j + 1, o)
    BY DEF Gives
  <2>2. \A k \in 1 .. j + 1 : k \in 1 .. j \/ k = j + 1
    OBVIOUS
  <2> QED
    BY <2>1, <2>2
<1>4. Has(o, before)
  OBVIOUS
<1> HIDE DEF now, before
<1>5. Has(o, now)'
  BY <1>2, <1>3, <1>4 DEF Has
<1> QED
  BY <1>5 DEF now

\* The item the loop is at has been read.
LEMMA ItemDone ==
  ASSUME line \in Lines, NEW j \in 0 .. Len(line), Reading(j), j + 1 \in 1 .. Len(line),
         ~ IsEnd(line[j + 1]), Fault(line[j + 1]) = "none", UNCHANGED <<program, line>>,
         phase' = "loop", current' = Places[j + 1] + 1, nextKeep' = Kept[j + 1] + 1,
         \A i \in 1 .. Kept[j + 1] : argv'[i] = Words[i],
         \A o \in Options(program) : Has(o, {k \in 1 .. j + 1 : Gives(k, o)})'
  PROVE  Parsing'
<1>1. j \in Nat /\ j + 1 \in 0 .. Len(line) /\ (\A k \in 1 .. j + 1 : k \in 1 .. j \/ k = j + 1)
  BY LineIs
<1>2. j + 1 \in Optional
  BY NextOptional
<1>3. \A k \in 1 .. j + 1 : k \in Optional /\ Fault(line[k]) = "none"
  BY <1>1, <1>2 DEF Reading
<1>4. /\ Places' = Places /\ Kept' = Kept /\ Words' = Words /\ Optional' = Optional
      /\ \A k : Fault(line[k])' = Fault(line[k])
  BY LineStays
<1>5. Reading(j + 1)'
  BY <1>3, <1>4 DEF Reading
<1>6. \E i \in 0 .. Len(line') : Reading(i)'
  BY <1>1, <1>5
<1> QED
  BY <1>6 DEF Parsing, ParsedAsWritten

\* An item that gives an option of the program.
LEMMA OptionRead ==
  ASSUME TypedCounts, TypedVariables, line \in Lines, phase = "loop",
         NEW j \in 0 .. Len(line), Reading(j), j + 1 \in 1 .. Len(line),
         line[j + 1].kind # "arg", line[j + 1].opt \in Options(program),
         ParseOption(line[j + 1].opt, line[j + 1].arg.text, Places[j + 1] + 1),
         UNCHANGED <<program, line, argv, argc, nextKeep>>
  PROVE  Parsing'
<1> DEFINE item == line[j + 1]
           p == item.opt
           t == item.arg.text
<1>1. ~ IsEnd(item) /\ j + 1 \in Optional
  BY NextOptional DEF IsEnd
<1>2. CASE ~ Parses(p, t)
  <2>1. Fault(item) = "argument_incorrect_type" /\ phase' = "argument_incorrect_type"
    BY <1>2 DEF Fault, ParseOption
  <2> QED
    BY <1>1, <2>1, Mistaken
<1>3. CASE Parses(p, t)
  <2>1. Fault(item) = "none"
    BY <1>3 DEF Fault
  <2>2. /\ variable' = [variable EXCEPT ![p.long] = Value(p, t)]
        /\ count' = [count EXCEPT ![p.long] = @ + 1]
        /\ current' = Places[j + 1] + 1 /\ phase' = "loop"
    BY <1>3 DEF ParseOption
  <2>3. Kept[j + 1] = Kept[j]
    <3>1. Left(j + 1) = <<>>
      BY <1>1 DEF Left
    <3>2. Kept[j + 1] = Kept[(j + 1) - 1] + Len(Left(j + 1)) /\ Kept[j] \in Nat /\ (j + 1) - 1 = j
      BY ItemPlaces, LineIs
    <3>3. Len(Left(j + 1)) = 0
      BY <3>1
    <3> QED
      BY <3>2, <3>3
  <2>4. j \in Nat /\ \A o \in Options(program) : Has(o, {k \in 1 .. j : Gives(k, o)})
    BY LineIs DEF Reading
  <2>5. \A o \in Options(program) : Has(o, {k \in 1 .. j + 1 : Gives(k, o)})'
    BY <2>2, <2>4, OptionHad
  <2>6. nextKeep' = Kept[j + 1] + 1 /\ \A i \in 1 .. Kept[j + 1] : argv'[i] = Words[i]
    BY <2>3 DEF Reading
  <2> QED
    BY <1>1, <2>1, <2>2, <2>5, <2>6, ItemDone
<1> QED
  BY <1>2, <1>3

\* The steps of the loop that end with an exception.
LEMMA ThrowParses ==
  ASSUME Compacted, program \in {"node", "client"}, Parsing,
         SyntaxError \/ UnknownOption \/ GroupedOption \/ MissingArgument
  PROVE  Parsing'
<1>1. phase = "loop" /\ current < argc /\ UNCHANGED <<program, line>> /\ line \in Lines
  BY DEF SyntaxError, UnknownOption, GroupedOption, MissingArgument, Throw, Single, Flag, At, Compacted
<1>2. PICK j \in 0 .. Len(line) : Reading(j)
  BY <1>1 DEF Parsing
<1> DEFINE item == line[j + 1]
           a == argv[current]
<1>3. /\ argc = Len(Arguments(line)) + 1
      /\ j + 1 \in 1 .. Len(line)
      /\ IsItem(item)
      /\ a = Spelling(item)[1]
      /\ Len(Spelling(item)) = 2 => current + 2 <= argc
  BY <1>1, <1>2, ItemRead
<1>4. /\ item.kind = "arg" => a = item.arg
      /\ item.kind # "arg" => /\ a.shape \in {"group", "long"}
                              /\ Len(a.names) = 1
                              /\ Head(a.names) \in {item.opt.short, item.opt.long}
                              /\ ~ a.eq => Len(Spelling(item)) = 2
  BY <1>3, FlagIs
<1>5. item.kind # "arg" => item.opt \in NodeOptions \cup ClientOptions
  BY <1>3 DEF IsItem
<1>6. ASSUME item.kind # "arg", Called(program, Head(a.names)) = {} PROVE item.opt \notin Options(program)
  BY <1>4, <1>5, <1>6, CalledIs
<1>7. item.kind = "arg" /\ a.shape \in {"group", "long"} => Len(a.names) \in Nat \ {0}
  <2>1. item.kind = "arg" => Len(item.arg.names) \in Nat
    BY <1>3 DEF IsItem
  <2>2. item.kind = "arg" /\ item.arg.shape \in {"group", "long"} => item.arg.names # <<>>
    BY <1>3 DEF IsItem
  <2> QED
    BY <1>4, <2>1, <2>2
<1> HIDE DEF item, a
<1>8. ASSUME ~ IsEnd(item), Fault(item) # "none", phase' = Fault(item),
             phase' \notin {"loop", "defaults", "rest", "parsed"}
      PROVE  Parsing'
  BY <1>1, <1>2, <1>3, <1>8, Mistaken DEF item
<1>9. CASE SyntaxError
  <2>1. a.shape = "bad" /\ phase' = "option_syntax_exception"
    BY <1>9 DEF SyntaxError, At, Throw, a
  <2>2. item.kind = "arg" /\ item.arg.shape = "bad"
    BY <1>4, <2>1
  <2>3. Fault(item) = "option_syntax_exception" /\ ~ IsEnd(item)
    BY <2>2 DEF Fault, IsEnd
  <2> QED
    BY <1>8, <2>1, <2>3
<1>10. CASE UnknownOption
  <2>1. /\ a.shape \in {"group", "long"} /\ phase' = "option_not_exists_exception"
        /\ Called(program, Head(a.names)) = {}
    BY <1>10 DEF UnknownOption, Flag, Name, At, Throw, a
  <2>2. Fault(item) = "option_not_exists_exception"
    BY <1>4, <1>6, <2>1 DEF Fault
  <2>3. ~ IsEnd(item)
    BY <1>4, <2>1 DEF IsEnd
  <2> QED
    BY <1>8, <2>1, <2>2, <2>3
<1>11. CASE GroupedOption
  <2>1. /\ a.shape \in {"group", "long"} /\ phase' = "option_requires_argument_exception"
        /\ Called(program, Head(a.names)) # {} /\ Len(a.names) > 1
    BY <1>11 DEF GroupedOption, Flag, Name, At, Throw, a
  <2>2. item.kind = "arg" /\ a = item.arg
    <3> DEFINE m == Len(a.names)
    <3>1. m > 1 /\ (item.kind # "arg" => m = 1)
      BY <1>4, <2>1
    <3> HIDE DEF m
    <3>2. item.kind = "arg"
      BY <3>1
    <3> QED
      BY <1>4, <3>2
  <2>3. Fault(item) = "option_requires_argument_exception" /\ ~ IsEnd(item)
    BY <2>1, <2>2 DEF Fault, IsEnd
  <2> QED
    BY <1>8, <2>1, <2>3
<1>12. CASE MissingArgument
  <2>1. /\ a.shape \in {"group", "long"} /\ phase' = "missing_argument_exception"
        /\ Called(program, Head(a.names)) # {} /\ Len(a.names) = 1
        /\ ~ a.eq /\ current + 1 >= argc
    BY <1>12 DEF MissingArgument, Single, Flag, Name, At, Throw, a
  <2>2. current \in Nat /\ argc \in Nat
    BY <1>3, ArgumentsAre DEF Compacted
  <2>3. item.kind = "arg" /\ a = item.arg
    BY <1>3, <1>4, <2>1, <2>2
  <2>4. ~ (Len(item.arg.names) > 1)
    <3> DEFINE m == Len(item.arg.names)
    <3>1. m = 1
      BY <2>1, <2>3
    <3> HIDE DEF m
    <3>2. ~ (m > 1)
      BY <3>1
    <3> QED
      BY <3>2 DEF m
  <2>5. Fault(item) = "missing_argument_exception" /\ ~ IsEnd(item)
    BY <2>1, <2>3, <2>4 DEF Fault, IsEnd
  <2> QED
    BY <1>8, <2>1, <2>5
<1> QED
  BY <1>9, <1>10, <1>11, <1>12

\* The steps of the loop that read an option.
LEMMA OptionParses ==
  ASSUME Compacted, TypedParser, Parsing, ReadEquals \/ ReadNext
  PROVE  Parsing'
<1>1. /\ phase = "loop" /\ current < argc /\ line \in Lines
      /\ UNCHANGED <<program, line, argv, argc, nextKeep>>
  BY DEF ReadEquals, ReadNext, Single, Flag, At, Compacted
<1>2. PICK j \in 0 .. Len(line) : Reading(j)
  BY <1>1 DEF Parsing
<1> DEFINE item == line[j + 1]
           a == argv[current]
<1>3. /\ j + 1 \in 1 .. Len(line)
      /\ IsItem(item)
      /\ a = Spelling(item)[1]
      /\ Places[j + 1] + 1 <= argc
      /\ Len(Spelling(item)) = 1 => Places[j + 1] + 1 = current + 1
      /\ Len(Spelling(item)) = 2 =>
            Places[j + 1] + 1 = current + 2 /\ argv[current + 1] = Spelling(item)[2]
      /\ j + 1 = Len(line) => Places[j + 1] + 1 = argc
  BY <1>1, <1>2, ItemRead
<1>4. /\ item.kind = "arg" => a = item.arg /\ Len(Spelling(item)) = 1
      /\ item.kind # "arg" => /\ Head(a.names) \in {item.opt.short, item.opt.long}
                              /\ a.eq => Len(Spelling(item)) = 1 /\ a.value = item.arg.text
                              /\ ~ a.eq => Len(Spelling(item)) = 2 /\ Spelling(item)[2] = item.arg
  BY <1>3, FlagIs
<1>5. item.kind # "arg" => item.opt \in NodeOptions \cup ClientOptions
  BY <1>3 DEF IsItem
<1>6. Single
  BY DEF ReadEquals, ReadNext
<1>7. /\ a.shape \in {"group", "long"} /\ Len(a.names) = 1
      /\ Called(program, Head(a.names)) # {}
  BY <1>6 DEF Single, Flag, Name, At
<1>8. item.kind # "arg"
  <2> SUFFICES ASSUME item.kind = "arg" PROVE FALSE
    OBVIOUS
  <2>1. a = item.arg /\ Places[j + 1] + 1 = current + 1
    BY <1>3, <1>4
  <2>2. program \in {"node", "client"}
    BY DEF TypedParser
  <2>3. Cut(item)
    BY <1>7, <2>1, <2>2 DEF Cut
  <2>4. j + 1 = Len(line) /\ ~ item.arg.eq
    BY <1>1, <1>3, <2>3, LineIs
  <2>5. ~ a.eq /\ current + 1 = argc
    BY <1>3, <2>1, <2>4
  <2>6. current + 1 < argc \/ a.eq
    BY DEF ReadEquals, ReadNext
  <2>7. argc \in Nat
    BY <1>1, ArgumentsAre DEF Compacted
  <2> QED
    BY <2>5, <2>6, <2>7
<1>9. item.opt \in Options(program) /\ Called(program, Head(a.names)) = {item.opt}
  BY <1>4, <1>5, <1>7, <1>8, CalledIs
<1>10. ParseOption(item.opt, item.arg.text, Places[j + 1] + 1)
  <2>1. CASE ReadEquals
    <3>1. a.eq /\ \E o \in Called(program, Head(a.names)) : ParseOption(o, a.value, current + 1)
      BY <2>1 DEF ReadEquals, Name
    <3>2. a.value = item.arg.text /\ Places[j + 1] + 1 = current + 1
      BY <1>3, <1>4, <1>8, <3>1
    <3> QED
      BY <1>9, <3>1, <3>2
  <2>2. CASE ReadNext
    <3>1. /\ ~ a.eq
          /\ \E o \in Called(program, Head(a.names)) :
                ParseOption(o, argv[current + 1].text, current + 2)
      BY <2>2 DEF ReadNext, Name
    <3>2. argv[current + 1] = item.arg /\ Places[j + 1] + 1 = current + 2
      BY <1>3, <1>4, <1>8, <3>1
    <3> QED
      BY <1>9, <3>1, <3>2
  <2> QED
    BY <2>1, <2>2
<1> HIDE DEF a
<1>11. TypedCounts /\ TypedVariables
  BY DEF TypedParser
<1> QED
  BY <1>1, <1>2, <1>3, <1>8, <1>9, <1>10, <1>11, OptionRead

\* A word is kept.
LEMMA WordParses ==
  ASSUME Compacted, Parsing, ReadWord
  PROVE  Parsing'
<1>1. /\ phase = "loop" /\ phase' = "loop" /\ current < argc /\ line \in Lines
      /\ argv[current].shape = "word"
      /\ UNCHANGED <<program, line, argc, variable, count>> /\ Keep
  BY DEF ReadWord, At, Compacted
<1>2. PICK j \in 0 .. Len(line) : Reading(j)
  BY <1>1 DEF Parsing
<1> DEFINE item == line[j + 1]
           a == argv[current]
<1>3. /\ j + 1 \in 1 .. Len(line)
      /\ IsItem(item)
      /\ a = Spelling(item)[1]
      /\ Len(Spelling(item)) = 1 => Places[j + 1] + 1 = current + 1
  BY <1>1, <1>2, ItemRead
<1>4. item.kind = "arg" /\ a = item.arg /\ Len(Spelling(item)) = 1
  BY <1>1, <1>3, FlagIs
<1>5. ~ IsEnd(item) /\ Fault(item) = "none"
  BY <1>1, <1>4 DEF IsEnd, Fault
<1>6. j + 1 \in Optional
  BY <1>1, <1>2, <1>3, <1>5, NextOptional
<1>7. Left(j + 1) = Spelling(item)
  BY <1>4, <1>6 DEF Left
<1>8. Kept[j] \in Nat /\ Kept[j + 1] = Kept[j] + 1 /\ Words[Kept[j] + 1] = a
  <2>1. j + 1 \in 1 .. Len(line) /\ (j + 1) - 1 = j /\ j \in 0 .. Len(line)
    BY <1>1, <1>3, LineIs
  <2>2. Len(Left(j + 1)) = 1 /\ 1 \in 1 .. Len(Left(j + 1))
    <3>1. Len(Left(j + 1)) = 1
      BY <1>4, <1>7
    <3> HIDE DEF item
    <3> QED
      BY <3>1
  <2>3. Kept[j + 1] = Kept[(j + 1) - 1] + Len(Left(j + 1)) /\ Kept[j] \in Nat
    BY <1>1, <2>1, ItemPlaces
  <2>4. Words[Kept[(j + 1) - 1] + 1] = Left(j + 1)[1]
    BY <1>1, <2>1, <2>2, ItemPlaces
  <2> HIDE DEF item, a
  <2> QED
    BY <1>3, <1>7, <2>1, <2>2, <2>3, <2>4
<1> HIDE DEF item, a
<1>9. current' = Places[j + 1] + 1
  BY <1>1, <1>3, <1>4 DEF Keep
<1>10. nextKeep = Kept[j] + 1 /\ \A i \in 1 .. Kept[j] : argv[i] = Words[i]
  BY <1>2 DEF Reading
<1>11. argv' = [argv EXCEPT ![nextKeep] = a] /\ nextKeep' = nextKeep + 1
  BY <1>1 DEF Keep, a
<1>12. nextKeep \in DOMAIN argv
  <2>1. nextKeep \in 1 .. current /\ current \in Nat /\ current <= Len(Arguments(line))
    BY <1>1, ArgumentsAre DEF Compacted
  <2>2. DOMAIN argv = 0 .. Len(Arguments(line)) /\ Len(Arguments(line)) \in Nat
    BY ArgumentsAre DEF Compacted
  <2> QED
    BY <2>1, <2>2
<1>13. nextKeep' = Kept[j + 1] + 1 /\ \A i \in 1 .. Kept[j + 1] : argv'[i] = Words[i]
  BY <1>8, <1>10, <1>11, <1>12
<1>14. j \in Nat /\ \A o \in Options(program) : Has(o, {k \in 1 .. j : Gives(k, o)})
  BY <1>2, LineIs DEF Reading
<1>15. \A o \in Options(program) : Has(o, {k \in 1 .. j + 1 : Gives(k, o)})'
  BY <1>1, <1>4, <1>14, NothingHad DEF item
<1> QED
  BY <1>1, <1>2, <1>3, <1>5, <1>9, <1>13, <1>15, ItemDone DEF item

\* Behind the last option nothing is missing of the words but what is to be read.
LEMMA LoopEnds ==
  ASSUME line \in Lines, NEW j \in 0 .. Len(line), Reading(j), Optional = 1 .. j, NEW m \in 0 .. Len(line),
         Kept[m] = Kept[j], \A k \in m + 1 .. Len(line) : Left(k) = Spelling(line[k]),
         argc = Len(Arguments(line)) + 1, current' = Places[m] + 1, phase' = "defaults",
         UNCHANGED <<program, line, argv, argc, nextKeep, variable, count>>
  PROVE  Parsing'
<1> DEFINE A == Arguments(line)
           N == Len(A)
           p == Places[m]
           q == Kept[m]
<1>1. N \in Nat /\ p \in Nat /\ q \in Nat
  BY ArgumentsAre, ItemPlaces
<1>2. Len(Words) - q = N - p /\ \A i \in 1 .. N - p : Words[q + i] = A[p + i]
  BY RestSame
<1>3. /\ argc' = N + 1 /\ current' = p + 1 /\ nextKeep' = q + 1
      /\ \A i \in 1 .. q : argv'[i] = Words[i]
  BY DEF Reading
<1>4. Len(Words) \in Nat
  <2>1. Len(Words) = Kept[Len(line)] /\ Len(line) \in 0 .. Len(line)
    BY ItemPlaces, LineIs
  <2> QED
    BY <2>1, ItemPlaces
<1>5. Words' = Words /\ Arguments(line)' = A /\ Mistakes' = Mistakes
      /\ \A o : Giving(o)' = Giving(o)
  BY LineStays
<1> HIDE DEF A, N, p, q
<1>6. /\ \A i \in 1 .. nextKeep' - 1 : argv'[i] = Words[i]
      /\ Len(Words) = (nextKeep' - 1) + (argc' - current')
  <2> DEFINE x == Len(Words)
             next == current'
             keep == nextKeep'
             size == argc'
  <2> HIDE DEF x, next, keep, size
  <2>1. size = N + 1 /\ next = p + 1 /\ keep = q + 1 /\ x - q = N - p /\ x \in Nat
    BY <1>2, <1>3, <1>4 DEF x, next, keep, size
  <2>2. x = (keep - 1) + (size - next) /\ keep - 1 = q
    BY <1>1, <2>1
  <2> QED
    BY <1>3, <2>2 DEF x, next, keep, size
<1>7. ASSUME NEW i \in 0 .. (argc' - current') - 1 PROVE A[current' + i] = Words[nextKeep' + i]
  <2>1. /\ i + 1 \in 1 .. N - p
        /\ current' + i = p + (i + 1) /\ nextKeep' + i = q + (i + 1)
    BY <1>1, <1>3
  <2> QED
    BY <1>2, <2>1
<1>8. Remaining'
  BY <1>5, <1>6, <1>7 DEF Remaining
<1>9. Mistakes = {}
  BY DEF Mistakes, Reading
<1>10. ASSUME NEW o \in Options(program) PROVE Has(o, Giving(o))'
  <2>1. Giving(o) = {k \in 1 .. j : Gives(k, o)}
    BY DEF Giving, Gives
  <2>2. Has(o, Giving(o))
    BY <2>1 DEF Reading
  <2>3. Giving(o)' = Giving(o)
    BY <1>5
  <2> QED
    BY <2>2, <2>3 DEF Has
<1> QED
  BY <1>5, <1>8, <1>9, <1>10 DEF Parsing, ParsedAsWritten

\* The loop ends with the line, or behind "--".
LEMMA EndLoopParses ==
  ASSUME Compacted, Parsing, EndLoop
  PROVE  Parsing'
<1>1. /\ phase = "loop" /\ phase' = "defaults" /\ line \in Lines
      /\ UNCHANGED <<program, line, argv, argc, nextKeep, variable, count>>
  BY DEF EndLoop, Compacted
<1>2. PICK j \in 0 .. Len(line) : Reading(j)
  BY <1>1 DEF Parsing
<1>3. Len(line) \in Nat /\ DOMAIN line = 1 .. Len(line) /\ j \in Nat
  BY <1>1, LineIs
<1>4. argc = Len(Arguments(line)) + 1 /\ (current = argc <=> j = Len(line))
  BY <1>1, <1>2, ItemRead
<1>5. 1 .. j \subseteq Optional
  BY <1>2 DEF Reading
<1>6. CASE current = argc
  <2>1. j = Len(line) /\ current' = current /\ current = Places[j] + 1
    BY <1>2, <1>4, <1>6 DEF EndLoop, Reading
  <2>2. Optional = 1 .. j
    BY <1>3, <1>5, <2>1 DEF Optional
  <2>3. \A k \in j + 1 .. Len(line) : Left(k) = Spelling(line[k])
    BY <1>3, <2>1
  <2> QED
    BY <1>1, <1>2, <1>4, <2>1, <2>2, <2>3, LoopEnds
<1>7. CASE current # argc
  <2>1. current < argc /\ argv[current].shape = "--" /\ current' = current + 1
    BY <1>7 DEF EndLoop, At
  <2>2. /\ j + 1 \in 1 .. Len(line)
        /\ IsItem(line[j + 1])
        /\ argv[current] = Spelling(line[j + 1])[1]
        /\ Len(Spelling(line[j + 1])) = 1 => Places[j + 1] + 1 = current + 1
    BY <1>1, <1>2, <2>1, ItemRead
  <2>3. /\ line[j + 1].kind = "arg" /\ line[j + 1].arg.shape = "--"
        /\ Len(Spelling(line[j + 1])) = 1
    BY <2>1, <2>2, FlagIs
  <2>4. IsEnd(line[j + 1])
    BY <2>3 DEF IsEnd
  <2>5. Optional = 1 .. j
    <3>1. ASSUME NEW k \in Optional PROVE k \in 1 .. j
      <4>1. k \in 1 .. Len(line) /\ j + 1 \notin 1 .. k
        BY <1>3, <2>4 DEF Optional
      <4> QED
        BY <1>3, <4>1
    <3> QED
      BY <1>5, <3>1
  <2>6. Left(j + 1) = <<>>
    <3>1. j + 1 \notin Optional /\ (j + 1 = 1 \/ (j + 1) - 1 \in Optional)
      BY <1>3, <2>5
    <3> QED
      BY <3>1 DEF Left
  <2>7. ASSUME NEW k \in (j + 1) + 1 .. Len(line) PROVE Left(k) = Spelling(line[k])
    <3>1. k \notin Optional /\ k # 1 /\ k - 1 \notin Optional
      BY <1>3, <2>5
    <3> QED
      BY <3>1 DEF Left
  <2>8. Kept[j + 1] = Kept[j]
    <3>1. j + 1 \in 1 .. Len(line) /\ (j + 1) - 1 = j /\ j \in 0 .. Len(line)
      BY <1>3, <2>2
    <3>2. Kept[j + 1] = Kept[(j + 1) - 1] + Len(Left(j + 1)) /\ Kept[j] \in Nat
      BY <1>1, <3>1, ItemPlaces
    <3>3. Len(Left(j + 1)) = 0
      BY <2>6
    <3> QED
      BY <3>1, <3>2, <3>3
  <2>9. current' = Places[j + 1] + 1 /\ j + 1 \in 0 .. Len(line)
    BY <1>3, <2>1, <2>2, <2>3
  <2> QED
    BY <1>1, <1>2, <1>4, <2>5, <2>7, <2>8, <2>9, LoopEnds
<1> QED
  BY <1>6, <1>7

\* What was not given gets its default.
LEMMA DefaultsParse ==
  ASSUME Compacted, TypedParser, Parsing, Defaults
  PROVE  Parsing'
<1>1. /\ phase = "defaults" /\ phase' = "rest"
      /\ UNCHANGED <<program, line, argv, argc, current, nextKeep, count>>
      /\ variable' = [l \in DOMAIN variable |->
            IF \E o \in Defaulted : o.long = l
            THEN Value(CHOOSE o \in Defaulted : o.long = l,
                       (CHOOSE o \in Defaulted : o.long = l).default[1])
            ELSE variable[l]]
  BY Zenon DEF Defaults
<1>2. Remaining /\ Mistakes = {} /\ \A o \in Options(program) : Has(o, Giving(o))
  BY <1>1 DEF Parsing
<1>3. /\ Words' = Words /\ Arguments(line)' = Arguments(line) /\ Mistakes' = Mistakes
      /\ \A o : Said(o)' = Said(o)
  BY <1>1, LineStays
<1>4. Remaining'
  BY <1>1, <1>2, <1>3 DEF Remaining
<1>5. ASSUME NEW o \in Options(program) PROVE variable'[o.long] = Said(o)
  <2>1. o.long \in DOMAIN variable
    BY DEF TypedParser, TypedVariables
  <2>2. Has(o, Giving(o))
    BY <1>2
  <2>3. \A d \in Defaulted : d.long = o.long => d = o
    BY LongNames DEF Defaulted
  <2>4. CASE o \in Defaulted
    <3> DEFINE d == CHOOSE d \in Defaulted : d.long = o.long
    <3>1. d \in Defaulted /\ d.long = o.long
      BY <2>4
    <3>2. variable'[o.long] = Value(d, d.default[1])
      BY <1>1, <2>1, <2>4
    <3> HIDE DEF d
    <3>3. d = o
      BY <2>3, <3>1
    <3>4. o.default # <<>> /\ count[o.long] = 0
      BY <2>4 DEF Defaulted
    <3>5. Giving(o) = {}
      BY <2>2, <3>4 DEF Has
    <3> QED
      BY <3>2, <3>3, <3>4, <3>5 DEF Said
  <2>5. CASE o \notin Defaulted
    <3>1. variable'[o.long] = variable[o.long]
      BY <1>1, <2>1, <2>3, <2>5
    <3>2. Giving(o) = {} => o.default = <<>>
      BY <2>2, <2>5 DEF Has, Defaulted
    <3> QED
      BY <2>2, <3>1, <3>2 DEF Has, Said
  <2> QED
    BY <2>4, <2>5
<1> QED
  BY <1>1, <1>2, <1>3, <1>4, <1>5 DEF Parsing, ParsedAsWritten

\* The rest of the arguments is kept.
LEMMA RestParses ==
  ASSUME Compacted, Parsing, KeepRest
  PROVE  Parsing'
<1> DEFINE N == Len(Arguments(line))
<1>1. /\ phase = "rest" /\ phase' = "rest" /\ current < argc /\ line \in Lines
      /\ UNCHANGED <<program, line, argc, variable, count>>
      /\ argv' = [argv EXCEPT ![nextKeep] = argv[current]]
      /\ nextKeep' = nextKeep + 1
      /\ current' = current + 1
  BY DEF KeepRest, Keep, Compacted
<1>2. Remaining /\ Mistakes = {} /\ \A o \in Options(program) : variable[o.long] = Said(o)
  BY <1>1 DEF Parsing
<1>3. /\ Words' = Words /\ Arguments(line)' = Arguments(line) /\ Mistakes' = Mistakes
      /\ \A o : Said(o)' = Said(o)
  BY <1>1, LineStays
<1>4. /\ N \in Nat /\ argc = N + 1 /\ current \in 1 .. N /\ nextKeep \in 1 .. current
      /\ DOMAIN argv = 0 .. N
      /\ argv[current] = Arguments(line)[current]
  <2>1. N \in Nat /\ argc = N + 1 /\ current \in Nat /\ nextKeep \in 1 .. current
    BY <1>1, ArgumentsAre DEF Compacted
  <2>2. argv = [k \in 0 .. N |-> argv[k]] /\ \A k \in 1 .. N : k >= current => argv[k] = Arguments(line)[k]
    BY DEF Compacted
  <2> HIDE DEF N
  <2>3. current \in 1 .. N /\ current >= current
    BY <1>1, <2>1
  <2> QED
    BY <2>1, <2>2, <2>3
<1> HIDE DEF N
<1>5. /\ \A i \in 1 .. nextKeep - 1 : argv[i] = Words[i]
      /\ Len(Words) = (nextKeep - 1) + (argc - current)
      /\ \A i \in 0 .. (argc - current) - 1 : Arguments(line)[current + i] = Words[nextKeep + i]
  BY <1>2 DEF Remaining
<1>6. argv[current] = Words[nextKeep]
  <2>1. 0 \in 0 .. (argc - current) - 1 /\ current + 0 = current /\ nextKeep + 0 = nextKeep
    BY <1>4
  <2> QED
    BY <1>4, <1>5, <2>1
<1>7. ASSUME NEW i \in 1 .. nextKeep' - 1 PROVE argv'[i] = Words[i]
  <2>1. nextKeep \in DOMAIN argv /\ nextKeep \in Nat
    BY <1>4
  <2>2. CASE i = nextKeep
    BY <1>1, <1>6, <2>1, <2>2
  <2>3. CASE i # nextKeep
    <3>1. i \in 1 .. nextKeep - 1
      BY <1>1, <2>1, <2>3
    <3>2. argv'[i] = argv[i]
      BY <1>1, <1>4, <2>1, <2>3, <3>1
    <3> QED
      BY <1>5, <3>1, <3>2
  <2> QED
    BY <2>2, <2>3
<1>8. Len(Words) = (nextKeep' - 1) + (argc' - current')
  BY <1>1, <1>4, <1>5
<1>9. ASSUME NEW i \in 0 .. (argc' - current') - 1
      PROVE  Arguments(line)[current' + i] = Words[nextKeep' + i]
  <2>1. /\ i + 1 \in 0 .. (argc - current) - 1
        /\ (current + 1) + i = current + (i + 1) /\ (nextKeep + 1) + i = nextKeep + (i + 1)
    <3>1. i \in 0 .. (argc - (current + 1)) - 1
      BY <1>1
    <3>2. argc \in Nat /\ current \in Nat /\ nextKeep \in Nat
      BY <1>4
    <3> QED
      BY <3>1, <3>2
  <2>2. Arguments(line)[current + (i + 1)] = Words[nextKeep + (i + 1)]
    BY <1>5, <2>1
  <2> QED
    BY <1>1, <2>1, <2>2
<1>10. Remaining'
  BY <1>3, <1>7, <1>8, <1>9 DEF Remaining
<1> QED
  BY <1>1, <1>2, <1>3, <1>10 DEF Parsing, ParsedAsWritten

\* When nothing is left to be read, the arguments are the words.
LEMMA EndParses ==
  ASSUME Compacted, Parsing, EndParse
  PROVE  Parsing'
<1>1. /\ phase = "rest" /\ phase' = "parsed" /\ current = argc /\ argc' = nextKeep /\ line \in Lines
      /\ UNCHANGED <<program, line, argv, current, nextKeep, variable, count>>
  BY DEF EndParse, Compacted
<1>2. Remaining /\ Mistakes = {} /\ \A o \in Options(program) : variable[o.long] = Said(o)
  BY <1>1 DEF Parsing
<1>3. Words' = Words /\ Mistakes' = Mistakes /\ \A o : Said(o)' = Said(o)
  BY <1>1, LineStays
<1>4. nextKeep \in Nat /\ argc \in Nat
  BY <1>1, ArgumentsAre DEF Compacted
<1>5. Len(Words) = nextKeep - 1 /\ \A i \in 1 .. nextKeep - 1 : argv[i] = Words[i]
  BY <1>1, <1>2, <1>4 DEF Remaining
<1>6. Words = [i \in 1 .. Len(Words) |-> Words[i]]
  BY <1>1, ItemPlaces
<1>7. [k \in 1 .. (argc' - 1) |-> argv'[k]] = Words
  BY <1>1, <1>5, <1>6
<1> QED
  BY <1>1, <1>2, <1>3, <1>7 DEF Parsing, ParsedAsWritten

\* Init establishes it.
LEMMA ParsingInit == StartInit => Parsing
<1> SUFFICES ASSUME StartInit PROVE Parsing
  OBVIOUS
<1>1. /\ line \in Lines /\ phase = "loop" /\ current = 1 /\ nextKeep = 1
      /\ variable = [l \in {o.long : o \in Options(program)} |-> Initially(l)]
      /\ count = [l \in {o.long : o \in Options(program)} |-> 0]
  BY DEF StartInit, ParserInit
<1>2. Places[0] = 0 /\ Kept[0] = 0 /\ 0 \in 0 .. Len(line)
  BY <1>1, ItemPlaces, LineIs
<1>3. ASSUME NEW o \in Options(program) PROVE Has(o, {k \in 1 .. 0 : Gives(k, o)})
  <2>1. {k \in 1 .. 0 : Gives(k, o)} = {}
    OBVIOUS
  <2>2. variable[o.long] = Initially(o.long) /\ count[o.long] = 0
    BY <1>1
  <2> QED
    BY <2>1, <2>2 DEF Has
<1>4. Reading(0)
  BY <1>1, <1>2, <1>3 DEF Reading
<1> QED
  BY <1>1, <1>2, <1>4 DEF Parsing, ParsedAsWritten

\* Every step keeps it.
LEMMA ParsingStep == Inv /\ TypeInv /\ Parsing /\ [StartNext]_vars => Parsing'
<1> SUFFICES ASSUME Inv, TypeInv, Parsing, [StartNext]_vars PROVE Parsing'
  OBVIOUS
<1>1. Compacted /\ TypedParser /\ program \in {"node", "client"}
  BY DEF Inv, TypeInv, TypedParser
<1>2. CASE ParserNext
  BY <1>1, <1>2, ThrowParses, OptionParses, WordParses, EndLoopParses, DefaultsParse, RestParses, EndParses
     DEF ParserNext
<1>3. CASE UNCHANGED parserVars
  <2>1. UNCHANGED <<program, line, argv, argc, current, nextKeep, phase, variable, count>>
    BY <1>3 DEF parserVars
  <2>2. /\ Places' = Places /\ Kept' = Kept /\ Words' = Words /\ Arguments(line)' = Arguments(line)
        /\ Optional' = Optional /\ Mistakes' = Mistakes
        /\ \A k : Fault(line[k])' = Fault(line[k])
        /\ \A o : Giving(o)' = Giving(o) /\ Said(o)' = Said(o)
        /\ \A k, o : Gives(k, o)' = Gives(k, o)
    BY <2>1, LineStays
  <2>3. \A o, given : Has(o, given)' <=> Has(o, given)
    BY <2>1 DEF Has
  <2>4. \A j : Reading(j) => Reading(j)'
    BY <2>1, <2>2, <2>3 DEF Reading
  <2>5. Remaining => Remaining'
    BY <2>1, <2>2 DEF Remaining
  <2>6. ParsedAsWritten => ParsedAsWritten'
    BY <2>1, <2>2 DEF ParsedAsWritten
  <2> QED
    BY <2>1, <2>2, <2>3, <2>4, <2>5, <2>6 DEF Parsing
<1> QED
  BY <1>2, <1>3 DEF StartNext, StartPbft, StartCoin, StartClient, vars

(***************************************************************************)
(* ParseResult::parse makes of every line what the line says, for lines of *)
(* any length and in any order and spelling: the last value of an option,  *)
(* the default or nothing; the arguments no option takes, in their order;  *)
(* and the exception of the first mistake: ParsedAsWritten.                *)
(***************************************************************************)
THEOREM LinesAreParsed == Spec => []ParsedAsWritten
<1>1. Parsing => ParsedAsWritten
  BY DEF Parsing
<1>2. Spec => [](Inv /\ TypeInv /\ Parsing)
  <2>1. StartInit => Inv /\ TypeInv /\ Parsing
    BY InvInit, TypeInit, ParsingInit
  <2>2. Inv /\ TypeInv /\ Parsing /\ [StartNext]_vars => (Inv /\ TypeInv /\ Parsing)'
    BY InvStep, TypeStep, ParsingStep
  <2> QED
    BY <2>1, <2>2, PTL DEF Spec
<1> QED
  BY <1>1, <1>2, PTL
==================================================================================
