------------------------------ MODULE CommandLine ------------------------------
(***************************************************************************)
(* How the three programs read their command line: the parser of cxxopts.h *)
(* with the option tables of bft_main.cc, coin_main.cc and client_main.cc. *)
(*                                                                         *)
(* What the programs do not use is left out: options with an implicit      *)
(* value or without any, positional arguments, unrecognised options that   *)
(* are tolerated, help texts.                                              *)
(***************************************************************************)
EXTENDS Integers, Sequences, SequencesExt

CONSTANTS
    Lines,      \* the lines a user may write, as sequences of items (Spelling)
    Half,       \* an int is from -Half to Half - 1: 2 ^ 31 in the code
    Undefined   \* what a variable without initializer holds

ASSUME CommandLineAssumption == Half \in Nat \ {0}

\* There are as many unsigned integers as signed ones.
Modulus == 2 * Half

(***************************************************************************)
(* A text has the groups integer_pattern finds in it: a sign, a base, and  *)
(* its digits, 0 .. 35 for 0-9 and a-z; none, when the pattern fails.      *)
(***************************************************************************)
NumeralOf(word, neg, base, digits) ==
    [word |-> word, neg |-> neg, base |-> base, digits |-> digits]

Word(word) == NumeralOf(word, FALSE, 10, <<>>)

(***************************************************************************)
(* An argument as option_matcher sees it: "--", a "long" option, a "group" *)
(* of one-letter options behind a dash, a "word", or a dash with something *)
(* else behind it ("bad").  names are the names in it, value is what stands *)
(* behind "=" (eq says if anything does), and text is all of it, as it is  *)
(* read when an option before it takes it for its value.                   *)
(***************************************************************************)
Arg(shape, names, eq, value, text) ==
    [shape |-> shape, names |-> names, eq |-> eq, value |-> value, text |-> text]

Plain(text) == Arg("word", <<>>, FALSE, Word(""), text)

\* add_options: an entry has a short and a long name, the type of the variable
\* it is stored to, and a default value if there is one.
Option(short, long, type, default) ==
    [short |-> short, long |-> long, type |-> type, default |-> default]

NodeOptions == {Option("i", "id", "uint32_t", <<>>),
                Option("f", "configfile", "string", <<>>)}

ClientOptions == {Option("m", "mode", "int", <<NumeralOf("0", FALSE, 10, <<0>>)>>),
                  Option("f", "configfile", "string", <<>>)}

Options(p) == IF p = "client" THEN ClientOptions ELSE NodeOptions

\* OptionAdder and add_option: an entry is found under both its names.
Called(p, name) == {o \in Options(p) : name \in {o.short, o.long}}

VARIABLES
    program,    \* "node" (bft_main and coin_main have one table) or "client"
    line,       \* what the user wrote, for the properties
    argv,       \* the arguments, argv[0] being the program's name
    argc,
    current,    \* the argument that is read next
    nextKeep,   \* where the next argument that no option takes is put
    phase,      \* where ParseResult::parse is, or how it ended
    variable,   \* what the program's variables hold, by the option's long name
    count       \* how often an option was given, by its long name

parserVars == <<program, line, argv, argc, current, nextKeep, phase, variable, count>>

-----------------------------------------------------------------------------
\* integer_parser of a type T, signed or not.
Bad == -1

\* Faulty: the overflow is looked for after the loop.
Magnitude_NoOverflow(t) ==
    FoldLeft(LAMBDA r, d : IF r = Bad \/ d >= t.base THEN Bad
                           ELSE (r * t.base + d) % Modulus,
             0, t.digits)

(***************************************************************************)
(* A digit more in the unsigned type.  A result that gets smaller by it    *)
(* has overflowed; one that overflows and gets larger is not noticed.      *)
(***************************************************************************)
ReadDigit(base, r, d) ==
    LET next == (r * base + d) % Modulus
    IN  IF r = Bad \/ d >= base \/ r > next THEN Bad ELSE next

Magnitude(t) == FoldLeft(LAMBDA r, d : ReadDigit(t.base, r, d), 0, t.digits)

\* The values of the type.
InRange(type, n) ==
    IF type = "int" THEN n \in (-Half) .. (Half - 1)
                    ELSE n \in 0 .. (Modulus - 1)

\* Faulty: the range of a signed type is not checked.
IntegerParses_AnyRange(type, t) ==
    /\ t.digits # <<>>
    /\ Magnitude(t) # Bad
    /\ ~ t.neg \/ type = "int"

\* check_signed_range and checked_negate: no negative number has an unsigned
\* type, not even -0.
IntegerParses(type, t) ==
    /\ t.digits # <<>>
    /\ Magnitude(t) # Bad
    /\ IF t.neg THEN type = "int" /\ InRange(type, -Magnitude(t))
                ELSE InRange(type, Magnitude(t))

IntegerValue(t) == IF t.neg THEN -Magnitude(t) ELSE Magnitude(t)

\* parse_value, by the type of the variable.
Parses(o, t) == o.type = "string" \/ IntegerParses(o.type, t)

Value(o, t) == IF o.type = "string" THEN t.word ELSE IntegerValue(t)

(***************************************************************************)
(* OptionValue::parse and abstract_value::parse: the value goes straight   *)
(* to the variable of the program that value<T>(variable) was given; next  *)
(* is the argument parse goes on with.                                     *)
(***************************************************************************)
ParseOption(o, t, next) ==
    /\ count' = [count EXCEPT ![o.long] = @ + 1]
    /\ IF Parses(o, t)
       THEN /\ variable' = [variable EXCEPT ![o.long] = Value(o, t)]
            /\ current' = next
            /\ UNCHANGED phase
       ELSE phase' = "argument_incorrect_type" /\ UNCHANGED <<variable, current>>

-----------------------------------------------------------------------------
\* The arguments a user writes for an item of a line.
Spelling(item) ==
    CASE item.kind = "arg" -> <<item.arg>>
      [] item.kind = "short" ->
            <<Arg("group", <<item.opt.short>>, FALSE, Word(""), Word("-x")), item.arg>>
      [] item.kind = "long" ->
            <<Arg("long", <<item.opt.long>>, FALSE, Word(""), Word("--x")), item.arg>>
      [] item.kind = "eq" ->
            <<Arg("long", <<item.opt.long>>, TRUE, item.arg.text, Word("--x=v"))>>

Arguments(l) == FlattenSeq([k \in DOMAIN l |-> Spelling(l[k])])

\* The groups integer_pattern has.
Matched(t) == t.neg \in BOOLEAN /\ t.base \in {10, 16} /\ t.digits \in Seq(0 .. 35)

(***************************************************************************)
(* What a user may write: an option of some program with a value, or an    *)
(* argument that belongs to none.  An argument that could take the next    *)
(* one for its value is cut: there is no next one.                         *)
(***************************************************************************)
IsItem(item) ==
    \/ /\ item.kind \in {"short", "long", "eq"}
       /\ item.opt \in NodeOptions \cup ClientOptions
       /\ Matched(item.arg.text)
    \/ /\ item.kind = "arg"
       /\ item.arg.shape \in {"--", "long", "group", "word", "bad"}
       /\ Len(item.arg.names) \in Nat
       /\ item.arg.shape \in {"long", "group"} => item.arg.names # <<>>

Cut(item) ==
    /\ item.kind = "arg"
    /\ item.arg.shape \in {"long", "group"}
    /\ Len(item.arg.names) = 1
    /\ \E p \in {"node", "client"} : Called(p, Head(item.arg.names)) # {}

ASSUME LinesAssumption ==
    \A l \in Lines :
        /\ l \in Seq({l[k] : k \in DOMAIN l})
        /\ \A k \in DOMAIN l : IsItem(l[k]) /\ (Cut(l[k]) => k = Len(l) /\ ~ l[k].arg.eq)

Initially(l) == IF l = "configfile" THEN "" ELSE Undefined

ParserInit ==
    /\ program \in {"node", "client"}
    /\ line \in Lines
    /\ argc = Len(Arguments(line)) + 1
    /\ argv = [k \in 0 .. (argc - 1) |->
                  IF k = 0 THEN Plain(Word("program")) ELSE Arguments(line)[k]]
    /\ current = 1
    /\ nextKeep = 1
    /\ phase = "loop"
    /\ variable = [l \in {o.long : o \in Options(program)} |-> Initially(l)]
    /\ count = [l \in {o.long : o \in Options(program)} |-> 0]

\* The loop of ParseResult::parse is at an argument of this shape.
At(shapes) == phase = "loop" /\ current < argc /\ argv[current].shape \in shapes

Throw(exception) ==
    /\ phase' = exception
    /\ UNCHANGED <<program, line, argv, argc, current, nextKeep, variable, count>>

\* Faulty: the place is moved on for every argument.
Keep_Early ==
    /\ argv' = [argv EXCEPT ![nextKeep + 1] = argv[current]]
    /\ nextKeep' = nextKeep + 1
    /\ current' = current + 1

\* An argument nobody takes moves down to the others of its kind.
Keep ==
    /\ argv' = [argv EXCEPT ![nextKeep] = argv[current]]
    /\ nextKeep' = nextKeep + 1
    /\ current' = current + 1

\* consume_positional takes nothing: the programs name no positional arguments.
ReadWord ==
    /\ At({"word"})
    /\ Keep
    /\ UNCHANGED <<program, line, argc, phase, variable, count>>

SyntaxError == At({"bad"}) /\ Throw("option_syntax_exception")

Flag == At({"group", "long"})
Name == Head(argv[current].names)

UnknownOption == Flag /\ Called(program, Name) = {} /\ Throw("option_not_exists_exception")

\* Only the last letter of a group can take the argument it needs.
GroupedOption ==
    /\ Flag
    /\ Called(program, Name) # {}
    /\ Len(argv[current].names) > 1
    /\ Throw("option_requires_argument_exception")

Single == Flag /\ Called(program, Name) # {} /\ Len(argv[current].names) = 1

\* checked_parse_arg at the end of the line.
MissingArgument ==
    /\ Single
    /\ ~ argv[current].eq
    /\ current + 1 >= argc
    /\ Throw("missing_argument_exception")

\* --name=value
ReadEquals ==
    /\ Single
    /\ argv[current].eq
    /\ \E o \in Called(program, Name) : ParseOption(o, argv[current].value, current + 1)
    /\ UNCHANGED <<program, line, argv, argc, nextKeep>>

\* checked_parse_arg: the next argument is the value, whatever it looks like.
ReadNext ==
    /\ Single
    /\ ~ argv[current].eq
    /\ current + 1 < argc
    /\ \E o \in Called(program, Name) : ParseOption(o, argv[current + 1].text, current + 2)
    /\ UNCHANGED <<program, line, argv, argc, nextKeep>>

\* Behind "--" nothing is an option.  (When there is none, current = argc, and
\* the loop that keeps the rest has nothing to do.)
EndLoop ==
    /\ phase = "loop"
    /\ current = argc \/ At({"--"})
    /\ current' = IF current = argc THEN current ELSE current + 1
    /\ phase' = "defaults"
    /\ UNCHANGED <<program, line, argv, argc, nextKeep, variable, count>>

Defaulted == {o \in Options(program) : o.default # <<>> /\ count[o.long] = 0}

\* Faulty: the default values are put over those that were given.
Defaults_Always ==
    /\ phase = "defaults"
    /\ variable' = [l \in DOMAIN variable |->
          IF \E o \in Options(program) : o.long = l /\ o.default # <<>>
          THEN 0 ELSE variable[l]]
    /\ phase' = "rest"
    /\ UNCHANGED <<program, line, argv, argc, current, nextKeep, count>>

\* parse_default of every option that has a default and was not given.
Defaults ==
    /\ phase = "defaults"
    /\ variable' = [l \in DOMAIN variable |->
          IF \E o \in Defaulted : o.long = l
          THEN LET o == CHOOSE o \in Defaulted : o.long = l IN Value(o, o.default[1])
          ELSE variable[l]]
    /\ phase' = "rest"
    /\ UNCHANGED <<program, line, argv, argc, current, nextKeep, count>>

KeepRest ==
    /\ phase = "rest"
    /\ current < argc
    /\ Keep
    /\ UNCHANGED <<program, line, argc, phase, variable, count>>

EndParse ==
    /\ phase = "rest"
    /\ current = argc
    /\ argc' = nextKeep
    /\ phase' = "parsed"
    /\ UNCHANGED <<program, line, argv, current, nextKeep, variable, count>>

ParserNext ==
    \/ ReadWord \/ SyntaxError \/ UnknownOption \/ GroupedOption
    \/ MissingArgument \/ ReadEquals \/ ReadNext
    \/ EndLoop \/ Defaults \/ KeepRest \/ EndParse

-----------------------------------------------------------------------------
(***************************************************************************)
(* Properties.                                                             *)
(***************************************************************************)
\* The item ends the options: it is "--" and not the value of an option.
IsEnd(item) == item.kind = "arg" /\ item.arg.shape = "--"

\* The items that may still be options, by their places in the line.
Optional == {k \in DOMAIN line : \A j \in 1 .. k : ~ IsEnd(line[j])}

\* What is wrong with an item, which is the last of the options if it is cut.
Fault(item) ==
    CASE item.kind # "arg" ->
            IF item.opt \notin Options(program) THEN "option_not_exists_exception"
            ELSE IF ~ Parses(item.opt, item.arg.text) THEN "argument_incorrect_type"
            ELSE "none"
      [] item.kind = "arg" /\ item.arg.shape = "bad" -> "option_syntax_exception"
      [] item.kind = "arg" /\ item.arg.shape \in {"group", "long"} ->
            IF Called(program, Head(item.arg.names)) = {} THEN "option_not_exists_exception"
            ELSE IF Len(item.arg.names) > 1 THEN "option_requires_argument_exception"
            ELSE "missing_argument_exception"
      [] OTHER -> "none"

Mistakes == {k \in Optional : Fault(line[k]) # "none"}

Giving(o) == {k \in Optional : line[k].kind # "arg" /\ line[k].opt = o}

\* What the line says an option is, last, or what it is without the line.
Said(o) ==
    IF Giving(o) # {} THEN Value(o, line[Max(Giving(o))].arg.text)
    ELSE IF o.default # <<>> THEN Value(o, o.default[1])
    ELSE Initially(o.long)

\* The arguments of an item that no option takes, if there is no mistake: it is
\* no option, and not the first "--".
Left(k) ==
    CASE k \in Optional -> IF line[k].kind = "arg" THEN Spelling(line[k]) ELSE <<>>
      [] k \notin Optional /\ (k = 1 \/ k - 1 \in Optional) -> <<>>
      [] OTHER -> Spelling(line[k])

\* The words before "--" and all arguments behind it.
Words == FlattenSeq([k \in DOMAIN line |-> Left(k)])

(***************************************************************************)
(* However a line is spelled and in whichever order, and whatever a value  *)
(* looks like, the variables get what the line says last, or the default,  *)
(* or nothing; what is left in argv is what no option took, in order; and  *)
(* a line that is wrong ends with the exception of its first mistake.      *)
(***************************************************************************)
ParsedAsWritten ==
    /\ phase = "parsed" =>
          /\ Mistakes = {}
          /\ \A o \in Options(program) : variable[o.long] = Said(o)
          /\ [k \in 1 .. (argc - 1) |-> argv[k]] = Words
    /\ phase \notin {"loop", "defaults", "rest", "parsed"} =>
          \E k \in Mistakes : phase = Fault(line[k]) /\ \A j \in Mistakes : k <= j

(***************************************************************************)
(* argv is compacted in place: an argument is never overwritten before it  *)
(* has been read, and nothing is read or written outside of argv.          *)
(***************************************************************************)
UnreadKept ==
    /\ nextKeep \in 1 .. current
    /\ phase # "parsed" => current <= argc /\ DOMAIN argv = 0 .. (argc - 1)
    /\ argv[0].shape = "word"
    /\ \A k \in DOMAIN argv : k >= current =>
          argv[k] = Arguments(line)[k]

\* The number a text stands for.
Absolute(t) == FoldLeft(LAMBDA n, d : n * t.base + d, 0, t.digits)
Number(t) == IF t.neg THEN -Absolute(t) ELSE Absolute(t)

(***************************************************************************)
(* integer_parser: every number of the type is read as itself, unless it   *)
(* is a zero with a sign; what is read is the number up to a multiple of   *)
(* 2^w; and the first numbers beyond the type are refused.  (Not all: in   *)
(* 8 bits 300 is read as 44, as 5000000000 is read as 705032704 in 32.)    *)
(***************************************************************************)
ReadExactly(type, t) ==
    LET isNumeral == t.digits # <<>> /\ \A j \in DOMAIN t.digits : t.digits[j] < t.base
    IN  /\ IntegerParses(type, t) => isNumeral /\ (IntegerValue(t) - Number(t)) % Modulus = 0
        /\ isNumeral /\ InRange(type, Number(t)) /\ ~ (t.neg /\ type # "int")
              => IntegerParses(type, t) /\ IntegerValue(t) = Number(t)
        /\ isNumeral /\ ~ InRange(type, Number(t))
              /\ Absolute(t) < Modulus + (Modulus \div t.base)
              => ~ IntegerParses(type, t)

IntegerExact ==
    \A k \in DOMAIN line : line[k].kind # "arg" /\ line[k].opt.type # "string" =>
        ReadExactly(line[k].opt.type, line[k].arg.text)
=============================================================================
