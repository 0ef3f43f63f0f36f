-------------------------------- MODULE Client --------------------------------
(***************************************************************************)
(* The client (client.cc): it makes users, whose keys it keeps in a        *)
(* database and whose balances it writes to a file that coin nodes read    *)
(* when they start, and sends signed transactions to the coin nodes, one   *)
(* node after the other.                                                   *)
(*                                                                         *)
(* The environment is the user, who may kill the program, and the coin     *)
(* nodes, which stop, start, or hang.  Of a node only the accounts it      *)
(* knows (ReadUserData) and its AddTransx are here; the rest is in Ruccoin. *)
(***************************************************************************)
EXTENDS Signing

CONSTANTS
    NodeAddr,    \* node_addr of the configuration: a sequence of coin nodes
    NodeKey,     \* their private keys in the configuration
    RewardKey,   \* the key of reward_user
    Users,       \* how many users GenUser makes, 20 in the code
    Recipients,  \* what the user types for the address of the recipient
    Nonces,      \* the random parts of signatures
    MaxGens,     \* bound: how often the user types "gen"
    MaxSends,    \* bound: how many transactions are sent
    MaxFaults    \* bound: how often something is killed, stopped or hangs

Nodes == {NodeAddr[i] : i \in DOMAIN NodeAddr}

ASSUME ClientAssumption ==
    /\ NodeAddr \in Seq(Nodes) \ {<<>>}
    /\ \A i, j \in DOMAIN NodeAddr : NodeAddr[i] = NodeAddr[j] => i = j
    /\ NodeKey \in [Nodes -> Keys]
    /\ RewardKey \in Keys
    /\ Nonces \subseteq Seq(Bytes)
    /\ {Users, MaxGens, MaxSends, MaxFaults} \subseteq Nat

VARIABLES
    at,         \* where the client is: "ended", "read" (a line), "put" or "line"
                \*   (of GenUser), or "send"
    step,       \* the user GenUser is at, or the node SendTransx is at
    todo,       \* the keys of the users this GenUser makes, in order
    key,        \* addr2priv_: for an address the text of its private key
    file,       \* user_init_file, a line a record
    gens,       \* how often GenUser was started
    made,       \* made[g]: the addresses whose keys the g-th run of GenUser has put
    unwritten,  \* those whose key was put when the program was killed, and no line
    sent,       \* the transactions signed so far
    status,     \* status[n]: coin node n is "up", "down" or "hung"
    known,      \* known[n]: the addresses in the balance database of n
    readGens,   \* readGens[n]: the runs whose file n has read after they ended or were killed
    received,   \* received[n]: transactions n got, by number, and its answer
    steady,     \* the nodes that have been up since the first transaction
    cut,        \* the transactions that were being sent when the program was killed
    faults

vars == <<at, step, todo, key, file, gens, made, unwritten, sent, status, known, readGens,
          received, steady, cut, faults>>

clientVars == <<at, step, todo, key, gens, made, unwritten, sent, cut>>
nodeVars == <<status, known, readGens, received, steady>>

AddressOf(k) == GenAddr(k).addr

Init ==
    /\ at = "read"
    /\ step = 1
    /\ todo = <<>>
    /\ key = [a \in {} |-> <<>>]
    /\ file = <<>>
    /\ gens = 0
    /\ made = [g \in 1 .. MaxGens |-> {}]
    /\ unwritten = {}
    /\ sent = <<>>
    /\ status = [n \in Nodes |-> "down"]
    /\ known = [n \in Nodes |-> {}]
    /\ readGens = [n \in Nodes |-> {}]
    /\ received = [n \in Nodes |-> <<>>]
    /\ steady = Nodes
    /\ cut = {}
    /\ faults = 0

-----------------------------------------------------------------------------
(***************************************************************************)
(* "gen": GenUser empties the file; the coin nodes' own accounts come      *)
(* first, then the source of rewards, then the new users.                  *)
(***************************************************************************)
Used == {NodeKey[n] : n \in Nodes} \cup {RewardKey}

NewKeys == {ks \in [1 .. Users -> {k \in Keys \ Used : AddressOf(k) \notin DOMAIN key}] :
                \A i, j \in 1 .. Users : ks[i] = ks[j] => i = j}

GenUser ==
    /\ at = "read"
    /\ gens < MaxGens
    /\ \E ks \in NewKeys :
          todo' = [i \in DOMAIN NodeAddr |-> NodeKey[NodeAddr[i]]] \o <<RewardKey>> \o ks
    /\ file' = <<>>
    /\ gens' = gens + 1
    /\ step' = 1
    /\ at' = "put"
    /\ UNCHANGED <<key, made, unwritten, sent, nodeVars, cut, faults>>

Pair == GenAddr(todo[step])

\* Faulty: the keys are collected and put into the database at the end.
PutKey_Batched ==
    /\ at = "put"
    /\ key' = IF step < Len(todo) THEN key
              ELSE [a \in DOMAIN key \cup {AddressOf(k) : k \in ToSet(todo)} |->
                      IF \E k \in ToSet(todo) : AddressOf(k) = a
                      THEN PrivateHex(CHOOSE k \in ToSet(todo) : AddressOf(k) = a)
                      ELSE key[a]]
    /\ made' = [made EXCEPT ![gens] = @ \cup {Pair.addr}]
    /\ at' = "line"
    /\ UNCHANGED <<step, todo, file, gens, unwritten, sent, nodeVars, cut, faults>>

\* The key goes to the database, and then the line to the file: the program
\* may be killed between the two.
PutKey ==
    /\ at = "put"
    /\ key' = [a \in DOMAIN key \cup {Pair.addr} |-> IF a = Pair.addr THEN Pair.priv ELSE key[a]]
    /\ made' = [made EXCEPT ![gens] = @ \cup {Pair.addr}]
    /\ at' = "line"
    /\ UNCHANGED <<step, todo, file, gens, unwritten, sent, nodeVars, cut, faults>>

\* Faulty: the loop goes one user too far.
WriteLine_OneMore ==
    /\ at = "line"
    /\ file' = Append(file, [priv |-> Pair.priv, addr |-> Pair.addr])
    /\ IF step <= Len(todo) THEN at' = "put" /\ step' = step + 1
                           ELSE at' = "read" /\ step' = 1
    /\ UNCHANGED <<todo, key, gens, made, unwritten, sent, nodeVars, cut, faults>>

WriteLine ==
    /\ at = "line"
    /\ file' = Append(file, [priv |-> Pair.priv, addr |-> Pair.addr])
    /\ IF step < Len(todo) THEN at' = "put" /\ step' = step + 1
                           ELSE at' = "read" /\ step' = 1
    /\ UNCHANGED <<todo, key, gens, made, unwritten, sent, nodeVars, cut, faults>>

-----------------------------------------------------------------------------
\* The text of the key of an address, or nothing.
GetPrivateKey(addr) == IF addr \in DOMAIN key THEN key[addr] ELSE <<>>

\* client::Signate
SignateTx(tx, r) ==
    [time_stamp |-> tx.time_stamp, from |-> tx.from, to |-> tx.to, value |-> tx.value,
     signature |-> CalSignature(tx, GetPrivateKey(tx.from), r)]

(***************************************************************************)
(* A line with a transaction: the sender's key is looked up (a line whose  *)
(* sender has none is refused, as one of another form is), and the         *)
(* transaction is signed and sent.  Its number stands for the time stamp.  *)
(***************************************************************************)
Submit(from, to) ==
    /\ at = "read"
    /\ Len(sent) < MaxSends
    /\ GetPrivateKey(from) # <<>>
    /\ \E r \in Nonces :
          sent' = Append(sent, SignateTx([time_stamp |-> Len(sent) + 1, from |-> from,
                                          to |-> to, value |-> 1], r))
    /\ steady' = IF sent = <<>> THEN {n \in Nodes : status[n] = "up"} ELSE steady
    /\ at' = "send"
    /\ step' = 1
    /\ UNCHANGED <<todo, key, file, gens, made, unwritten, status, known, readGens, received,
                   cut, faults>>

\* The loop of SendTransx goes to the next node; CloseAllNodes when it is over.
NextNode ==
    /\ IF step < Len(NodeAddr) THEN step' = step + 1 /\ UNCHANGED at
                               ELSE step' = 1 /\ at' = "read"
    /\ UNCHANGED <<todo, key, file, gens, made, unwritten, sent, status, known, readGens,
                   steady, cut, faults>>

(***************************************************************************)
(* A call: the node's AddTransx checks the signature and answers.  A node  *)
(* that is down makes the call throw, and the next node's turn comes; one  *)
(* that hangs keeps the client.                                            *)
(***************************************************************************)
SendTransx ==
    LET n == NodeAddr[step]
    IN  /\ at = "send"
        /\ status[n] = "up"
        /\ received' = [received EXCEPT ![n] =
              Append(@, [no |-> Len(sent), ok |-> ValidateSignature(Last(sent))])]
        /\ NextNode

\* Faulty: the try block is around the whole loop.
SendFails_Stops ==
    /\ at = "send"
    /\ status[NodeAddr[step]] = "down"
    /\ step' = 1
    /\ at' = "read"
    /\ UNCHANGED <<todo, key, file, gens, made, unwritten, sent, nodeVars, cut, faults>>

SendFails ==
    /\ at = "send"
    /\ status[NodeAddr[step]] = "down"
    /\ NextNode
    /\ UNCHANGED received

-----------------------------------------------------------------------------
\* "quit", or the user kills the program, anywhere; and it is started again.
Quit ==
    /\ at # "ended"
    /\ faults < MaxFaults
    /\ faults' = faults + 1
    /\ at' = "ended"
    /\ cut' = IF at = "send" THEN cut \cup {Len(sent)} ELSE cut
    /\ unwritten' = IF at = "line" THEN unwritten \cup {Pair.addr} ELSE unwritten
    /\ UNCHANGED <<step, todo, key, file, gens, made, sent, nodeVars>>

Start ==
    /\ at = "ended"
    /\ at' = "read"
    /\ step' = 1
    /\ UNCHANGED <<todo, key, file, gens, made, unwritten, sent, nodeVars, cut, faults>>

\* The run whose file is there and will not become longer.
Closed == IF gens = 0 \/ at \in {"put", "line"} THEN {} ELSE {gens}

\* Faulty: the first line of the file is taken for a heading.
StartNode_SkipsLine(n) ==
    /\ status[n] = "down"
    /\ status' = [status EXCEPT ![n] = "up"]
    /\ known' = [known EXCEPT ![n] = @ \cup {file[i].addr : i \in DOMAIN file \ {1}}]
    /\ readGens' = [readGens EXCEPT ![n] = @ \cup Closed]
    /\ UNCHANGED <<clientVars, file, received, steady, faults>>

\* A coin node starts: ReadUserData puts a balance for every line of the file.
StartNode(n) ==
    /\ status[n] = "down"
    /\ status' = [status EXCEPT ![n] = "up"]
    /\ known' = [known EXCEPT ![n] = @ \cup {file[i].addr : i \in DOMAIN file}]
    /\ readGens' = [readGens EXCEPT ![n] = @ \cup Closed]
    /\ UNCHANGED <<clientVars, file, received, steady, faults>>

\* A coin node stops, or hangs.
FailNode(n, s) ==
    /\ status[n] = "up"
    /\ faults < MaxFaults
    /\ faults' = faults + 1
    /\ status' = [status EXCEPT ![n] = s]
    /\ steady' = steady \ {n}
    /\ UNCHANGED <<clientVars, file, known, readGens, received>>

Working == PutKey \/ WriteLine \/ SendTransx \/ SendFails

Next ==
    \/ GenUser
    \/ Working
    \/ \E from \in DOMAIN key, to \in Recipients : Submit(from, to)
    \/ Quit
    \/ Start
    \/ \E n \in Nodes :
          \/ StartNode(n)
          \/ FailNode(n, "down")
          \/ FailNode(n, "hung")

Spec == Init /\ [][Next]_vars

\* The program goes on unless a node keeps it.
FairSpec == Spec /\ WF_vars(Working)

-----------------------------------------------------------------------------
(***************************************************************************)
(* Properties.                                                             *)
(***************************************************************************)
\* The type invariant.
TypeOK ==
    /\ at \in {"ended", "read", "put", "line", "send"}
    /\ at \in {"put", "line"} => step \in DOMAIN todo
    /\ at = "send" => step \in DOMAIN NodeAddr /\ sent # <<>>
    /\ \A i \in DOMAIN todo : todo[i] \in Keys
    /\ gens \in 0 .. MaxGens
    /\ DOMAIN made = 1 .. MaxGens
    /\ status \in [Nodes -> {"up", "down", "hung"}]
    /\ \A n \in Nodes : readGens[n] \subseteq 1 .. gens
    /\ \A n \in Nodes : \A i \in DOMAIN received[n] : received[n][i].no \in 1 .. Len(sent)
    /\ faults \in 0 .. MaxFaults

(***************************************************************************)
(* Every account in the file or in a coin node's database is one the       *)
(* client can sign for, with the key that belongs to the address, even if  *)
(* the program was killed while it made users.                             *)
(***************************************************************************)
KeysKept ==
    \A a \in {file[i].addr : i \in DOMAIN file} \cup UNION {known[n] : n \in Nodes} :
        a \in DOMAIN key /\ Unhex(a) = Point(HexToPrivate(key[a]))

\* Every transaction that reaches a coin node passes its check: keys, address
\* and signature have come through their hexadecimal texts unchanged.
SentVerifies ==
    \A n \in Nodes : \A i \in DOMAIN received[n] : received[n][i].ok

(***************************************************************************)
(* A coin node gets transactions in the order in which they were typed,    *)
(* none twice; and one that has been up all the time lacks at most the     *)
(* last one, while the client is sending it, and those whose sending was   *)
(* cut short, whatever happened to the other nodes.                        *)
(***************************************************************************)
NobodyMissed ==
    \A n \in Nodes :
        /\ \A i, j \in DOMAIN received[n] : i < j => received[n][i].no < received[n][j].no
        /\ n \in steady =>
              \A t \in 1 .. Len(sent) :
                  \/ \E i \in DOMAIN received[n] : received[n][i].no = t
                  \/ t = Len(sent) /\ at = "send"
                  \/ t \in cut

(***************************************************************************)
(* A sender whose transactions the client signs is unknown to a coin node  *)
(* only if the node was not started between the end, or the kill, of a     *)
(* "gen" that made this account and the next "gen", or if the program was  *)
(* killed just between the account's key and its line, which loses this    *)
(* one account and no other.  (So "gen" while nodes run, or twice before   *)
(* they start, makes users some node does not know; it refuses a block     *)
(* with a transaction of theirs for good.)                                 *)
(***************************************************************************)
SendersKnown ==
    \A n \in Nodes : \A a \in DOMAIN key \ known[n] :
        /\ \E g \in 1 .. gens : a \in made[g]
        /\ a \in unwritten \/ \A g \in readGens[n] : a \notin made[g]

(***************************************************************************)
(* A transaction that is being sent reaches every node that stays up,      *)
(* unless the program is killed or a node hangs.                           *)
(***************************************************************************)
EveryoneGetsIt ==
    \A n \in Nodes, t \in 1 .. MaxSends :
        (Len(sent) = t /\ at = "send" /\ n \in steady) ~>
            \/ \E i \in DOMAIN received[n] : received[n][i].no = t
            \/ n \notin steady
            \/ at = "ended"
            \/ \E m \in Nodes : status[m] = "hung"
=============================================================================
