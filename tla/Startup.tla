-------------------------------- MODULE Startup --------------------------------
(***************************************************************************)
(* From a command line to a process that serves: main of bft_main.cc,      *)
(* coin_main.cc and client_main.cc, and what the Init functions read from  *)
(* the configuration.  run_node.sh and run_single_node.sh start a PBFT     *)
(* process and a coin node on one machine with the same arguments.         *)
(*                                                                         *)
(* Block files, balances and key files are read by Init too: see CoinNode  *)
(* and Client.                                                             *)
(***************************************************************************)
EXTENDS CommandLine, Signing

CONSTANTS
    Configs,   \* the configuration files there are, by name
    NoKey,     \* what an entry without strings holds
    Numbers,   \* bound: the sequence numbers of the messages looked at
    Digests,   \* bound: their digests, all of one length
    Nonce      \* the random part of a signature

(***************************************************************************)
(* A configuration has the list node_addr of hosts and ports, an entry     *)
(* with a pair of keys (GenAddr) for each port that somebody filled in,    *)
(* and pbft_primary.                                                       *)
(***************************************************************************)
Size(c) == Len(c.node_addr)

ASSUME ConfigsAssumption ==
    \A f \in DOMAIN Configs :
        /\ Size(Configs[f]) \in Nat
        /\ \A i \in 1 .. Size(Configs[f]) : Configs[f].node_addr[i].port \in Nat
        /\ \A p \in DOMAIN Configs[f].keys : \E k \in Keys : Configs[f].keys[p] = GenAddr(k)
        /\ Configs[f].pbft_primary \in Nat

ASSUME MessagesAssumption ==
    /\ \A n \in Numbers : n \in Nat /\ Len(Decimal(n)) + 2 <= Width
    /\ Digests \subseteq Seq(Nat)
    /\ \A d, e \in Digests : Len(d) = Len(e)
    /\ Nonce \in Seq(Bytes)

\* ParseAddr of the id-th entry of node_addr.
Host(c, id) == c.node_addr[id + 1].host
Port(c, id) == c.node_addr[id + 1].port

VARIABLES
    pbft,     \* the PBFT process of the machine
    coin,     \* the coin node of the machine
    client    \* the client

vars == <<parserVars, pbft, coin, client>>

(***************************************************************************)
(* A process is not started ("off"), serves, or has ended.  port is where  *)
(* it serves, 0 (any free port) if Init did not set it; peer is where it   *)
(* looks for the other process of its machine; replicas are the addresses  *)
(* and keys of nodes_ of a PBFT process, or the coin nodes a client sends  *)
(* transactions to.                                                        *)
(***************************************************************************)
Process(state, port, peer, key, primary, replicas) ==
    [state |-> state, port |-> port, peer |-> peer, key |-> key,
     primary |-> primary, replicas |-> replicas]

Off == Process("off", 0, 0, NoKey, 0, <<>>)
Ended == Process("ended", 0, 0, NoKey, 0, <<>>)

\* Init could not open its file, says so and returns.
Uninited == Process("serving", 0, 0, NoKey, 0, <<>>)

StartInit ==
    /\ ParserInit
    /\ pbft = Off
    /\ coin = Off
    /\ client = Off

\* Faulty: the port of the first node is taken for everybody's.
PbftInit_FirstPort(id, c) ==
    IF \E i \in 0 .. (Size(c) - 1) : Port(c, i) \notin DOMAIN c.keys
    THEN Ended
    ELSE LET mine == id < Size(c)
         IN  Process("serving",
                     IF mine THEN Port(c, 0) + 1000 ELSE 0,
                     IF mine THEN Port(c, id) ELSE 0,
                     IF mine THEN c.keys[Port(c, id)] ELSE NoKey,
                     c.pbft_primary,
                     [i \in 1 .. Size(c) |-> [host |-> Host(c, i - 1),
                                              port |-> Port(c, i - 1) + 1000,
                                              key |-> c.keys[Port(c, i - 1)]]])

(***************************************************************************)
(* PBFTHandler::Init.  A node without entry in the configuration makes the *)
(* conversion to a string throw.  An id beyond the list is not noticed:    *)
(* GetPort then reads a new entry of nodes_, which has port 0.             *)
(***************************************************************************)
PbftInit(id, c) ==
    IF \E i \in 0 .. (Size(c) - 1) : Port(c, i) \notin DOMAIN c.keys
    THEN Ended
    ELSE LET mine == id < Size(c)
         IN  Process("serving",
                     IF mine THEN Port(c, id) + 1000 ELSE 0,
                     IF mine THEN Port(c, id) ELSE 0,
                     IF mine THEN c.keys[Port(c, id)] ELSE NoKey,
                     c.pbft_primary,
                     [i \in 1 .. Size(c) |-> [host |-> Host(c, i - 1),
                                              port |-> Port(c, i - 1) + 1000,
                                              key |-> c.keys[Port(c, i - 1)]]])

\* Faulty: the key of the primary is taken for the node's.
CoinInit_PrimaryKey(id, c) ==
    IF id >= Size(c) \/ (id < Size(c) /\ Port(c, id) \notin DOMAIN c.keys)
    THEN Ended
    ELSE Process("serving", Port(c, id), Port(c, id) + 1000,
                 c.keys[Port(c, c.pbft_primary)], c.pbft_primary, <<>>)

(***************************************************************************)
(* CoinNode::Init.  An id beyond the list extends it with nulls, which are *)
(* no strings: the conversion throws.                                      *)
(***************************************************************************)
CoinInit(id, c) ==
    IF id >= Size(c) \/ (id < Size(c) /\ Port(c, id) \notin DOMAIN c.keys)
    THEN Ended
    ELSE Process("serving", Port(c, id), Port(c, id) + 1000,
                 c.keys[Port(c, id)], c.pbft_primary, <<>>)

\* id has no initializer: without -i a process gets whatever is there, and
\* the two processes of a machine need not get the same.
Ids == IF variable["id"] = Undefined THEN 0 .. (Modulus - 1) ELSE {variable["id"]}

Parsed(p) == phase = "parsed" /\ program = p
Readable == variable["configfile"] \in DOMAIN Configs
Config == Configs[variable["configfile"]]

\* main of bft_main.cc
StartPbft ==
    /\ Parsed("node")
    /\ pbft = Off
    /\ \E id \in Ids : pbft' = IF Readable THEN PbftInit(id, Config) ELSE Uninited
    /\ UNCHANGED <<parserVars, coin, client>>

\* main of coin_main.cc
StartCoin ==
    /\ Parsed("node")
    /\ coin = Off
    /\ \E id \in Ids : coin' = IF Readable THEN CoinInit(id, Config) ELSE Uninited
    /\ UNCHANGED <<parserVars, pbft, client>>

\* main of client_main.cc.  json::parse of a file that is not open throws.
StartClient ==
    /\ Parsed("client")
    /\ client = Off
    /\ client' = IF Readable
                 THEN Process("serving", 0, 0, NoKey, 0, Config.node_addr)
                 ELSE Ended
    /\ UNCHANGED <<parserVars, pbft, coin>>

StartNext ==
    \/ ParserNext /\ UNCHANGED <<pbft, coin, client>>
    \/ StartPbft
    \/ StartCoin
    \/ StartClient

Spec == StartInit /\ [][StartNext]_vars

-----------------------------------------------------------------------------
(***************************************************************************)
(* Properties.                                                             *)
(***************************************************************************)
Processes ==
    [state : {"off", "serving", "ended"}, port : Nat, peer : Nat,
     key : {NoKey} \cup UNION {{c.keys[p] : p \in DOMAIN c.keys} : c \in {Configs[f] : f \in DOMAIN Configs}},
     primary : Nat]

Untyped(p) ==
    [state |-> p.state, port |-> p.port, peer |-> p.peer, key |-> p.key, primary |-> p.primary]

\* The type invariant.
TypeOK ==
    /\ phase \in {"loop", "defaults", "rest", "parsed", "argument_incorrect_type",
                  "missing_argument_exception", "option_not_exists_exception",
                  "option_requires_argument_exception", "option_syntax_exception"}
    /\ \A l \in DOMAIN variable :
          \/ l = "configfile"
          \/ variable[l] = Undefined
          \/ l = "id" /\ variable[l] \in 0 .. (Modulus - 1)
          \/ l = "mode" /\ variable[l] \in (-Half) .. (Half - 1)
    /\ \A l \in DOMAIN count : count[l] \in 0 .. current
    /\ \A p \in {pbft, coin, client} : Untyped(p) \in Processes

(***************************************************************************)
(* The two processes of a machine that were told an id find each other,    *)
(* sign with one key and agree on who the primary is, although each works  *)
(* its ports out from the configuration by code of its own.  (Without -i   *)
(* they may find other nodes' processes.)                                  *)
(***************************************************************************)
Paired ==
    /\ program = "node" /\ variable["id"] # Undefined /\ Readable
    /\ pbft.state = "serving"
    /\ coin.state = "serving"
    => /\ pbft.peer = coin.port
       /\ coin.peer = pbft.port
       /\ pbft.key = coin.key
       /\ pbft.primary = coin.primary

(***************************************************************************)
(* A process that got a wrong id or cannot read its configuration goes on  *)
(* all the same, but never at an address the others take for a replica's:  *)
(* who serves there has the key that every replica has for it.             *)
(***************************************************************************)
ServesAsItself ==
    /\ \A k \in DOMAIN pbft.replicas :
          pbft.port = pbft.replicas[k].port => pbft.key = pbft.replicas[k].key
    /\ pbft.port # 0 => \E k \in DOMAIN pbft.replicas : pbft.replicas[k].port = pbft.port
    /\ coin.port # 0 => coin.key = Config.keys[coin.port]

\* The messages a PBFT process may sign; the view is always 0.
Messages(p) ==
    {[mtype |-> t, view_id |-> 0, seq |-> n, digest |-> d, pub_key |-> p.key.addr] :
        t \in {"Preprepare", "Prepare", "Commit"}, n \in Numbers, d \in Digests}

Signed(m, signature) ==
    [mtype |-> m.mtype, view_id |-> m.view_id, seq |-> m.seq, digest |-> m.digest,
     pub_key |-> m.pub_key, signature |-> signature]

\* A digest has the same beginning as another one, as far as it is signed: the
\* type, the view and the number come before it.
SameBeginning(d, e, n) ==
    \A i \in 1 .. Len(d) : 2 + Len(Decimal(n)) + i <= Width => e[i] = d[i]

(***************************************************************************)
(* The signature that a PBFT process which has found its keys makes for a  *)
(* message verifies with the address it names, never for a message of      *)
(* another type, and, of the messages whose numbers are as long, just for  *)
(* those with its number and a digest that begins like its own.  (ECDSA    *)
(* uses 32 bytes of the text, so the end of a digest is not signed; and as *)
(* there is nothing between number and digest, 1 and a digest that begins  *)
(* with 2 read like 12.  Preprepare asserts that it verifies at all.)      *)
(***************************************************************************)
MessagesVerify ==
    pbft.state = "serving" /\ pbft.port # 0 =>
        \A m, other \in Messages(pbft) :
            LET verifies == CheckSignature(Signed(other, Signate(m, pbft.key.priv, Nonce)))
            IN  /\ verifies => other.mtype = m.mtype
                /\ Len(Decimal(other.seq)) = Len(Decimal(m.seq)) =>
                      (verifies <=> /\ other.mtype = m.mtype
                                    /\ other.seq = m.seq
                                    /\ SameBeginning(m.digest, other.digest, m.seq))
=============================================================================
