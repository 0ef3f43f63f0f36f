------------------------------ MODULE MCStartup ------------------------------
(***************************************************************************)
(* An instance of Startup for TLC: lines of up to three items, in 8 bits.  *)
(***************************************************************************)
EXTENDS Startup, TLC

Numeral(digits) == NumeralOf("numeral", FALSE, 10, digits)

\* The numbers around 2 ^ 7 and 2 ^ 8, an overflow that is noticed and one that
\* is not, signs, hexadecimal numbers, and what is no number.
Numerals ==
    {NumeralOf("numeral", neg, 10, ds) : neg \in BOOLEAN,
        ds \in {<<0>>, <<1>>, <<7>>, <<0, 2>>, <<1, 2, 7>>, <<1, 2, 8>>, <<1, 2, 9>>,
                <<2, 5, 5>>, <<2, 5, 6>>, <<2, 8, 0>>, <<3, 0, 0>>, <<1, 35>>}}
    \cup {NumeralOf("numeral", FALSE, 16, ds) : ds \in
             {<<1, 0>>, <<15, 15>>, <<1, 0, 0>>, <<1, 0, 15>>, <<1, 1, 1>>, <<16>>}}

File == Plain(Word("config.json"))
One == Plain(Numeral(<<1>>))
Two == Arg("group", <<"2">>, FALSE, Word(""), NumeralOf("-2", TRUE, 10, <<2>>))
DashDash == Arg("--", <<>>, FALSE, Word(""), Word("--"))
Id == Option("i", "id", "uint32_t", <<>>)
Conf == Option("f", "configfile", "string", <<>>)
Mode == CHOOSE o \in ClientOptions : o.long = "mode"

Give(how, opt, arg) == [kind |-> how, opt |-> opt, arg |-> arg]
Stray(arg) == [kind |-> "arg", arg |-> arg]

Hows == {"short", "long", "eq"}

Items ==
    {Give(h, Id, One) : h \in Hows} \cup {Give(h, Conf, File) : h \in Hows}
    \cup {Give("short", Mode, One), Give("long", Mode, Two), Give("short", Id, Plain(Numeral(<<7>>))),
          Give("short", Conf, DashDash), Give("long", Conf, Plain(Word("nowhere"))),
          Give("eq", Conf, Plain(Word("partial.json"))),
          Stray(Plain(Word("word"))), Stray(DashDash),
          Stray(Arg("bad", <<>>, FALSE, Word(""), Word("--x!"))),
          Stray(Arg("group", <<"i", "f">>, FALSE, Word(""), Word("-if"))),
          Stray(Arg("group", <<"x">>, FALSE, Word(""), Word("-x")))}

\* An option at the end of the line, without its value.
Cuts == {Stray(Arg("group", <<"f">>, FALSE, Word(""), Word("-f"))),
         Stray(Arg("long", <<"id">>, FALSE, Word(""), Word("--id")))}

MCLines ==
    UNION {[1 .. n -> Items] : n \in 0 .. 3}
    \cup {<<a, b, c>> : a \in Items, b \in Items, c \in Cuts}
    \cup {<<Give(h, o, Plain(t))>> : h \in Hows, o \in {Id, Mode}, t \in Numerals}
    \cup {<<Give("short", Id, Plain(t)), Give("short", Conf, File)>> : t \in Numerals}

\* Three nodes, two of which have one port on two hosts and so share an entry,
\* and a configuration that lacks the entry of a node.
MCConfigs ==
    [f \in {"config.json", "partial.json"} |->
        [node_addr |-> <<[host |-> "h1", port |-> 80], [host |-> "h1", port |-> 81],
                         [host |-> "h2", port |-> 80]>>,
         keys |-> IF f = "config.json" THEN 80 :> GenAddr(5) @@ 81 :> GenAddr(300) ELSE 80 :> GenAddr(5),
         pbft_primary |-> 0]]

MCNoKey == [priv |-> <<>>, addr |-> <<>>]
MCNonce == <<3, 200>>

\* Of a text five symbols are signed.  Two digests differ in the last symbol only,
\* and 1 with <<2, 1, 1>> reads like 12 with <<1, 1, 2>> up to there.
MCDigests == {<<1, 1, 2>>, <<1, 1, 3>>, <<2, 1, 1>>}
=============================================================================
