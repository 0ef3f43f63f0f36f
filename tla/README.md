# ruccoin in TLA+

ruccoin is a small blockchain: clients sign transactions, *coin nodes* collect
them in a pool, pack them into blocks, check and execute the blocks, and a *PBFT
process* beside every coin node gets the nodes to execute the same blocks. This
directory holds TLA+ models of that system, the TLC runs that check them on small
instances, and machine-checked proofs of all the safety properties those runs confirm, for
every instance: the PBFT processes and their
threads, the deployment of coin nodes on top of them, the start of the processes, and the
client. Paths and line numbers are those of the repository; `bft_node.cc` is
`src/ruccoin/src/pbft/bft_node.cc`, and other files without a path are in
`src/ruccoin/src/`.

## The system

| part | state | operations | talks to |
|---|---|---|---|
| PBFT process (`pbft/bft_node.*`, one per replica) | `proposals_` (body, vote vectors, `prepared`, `committed`), `next_proposal_seq_`; nothing on disk | `GetRequest` (blocks its caller until the proposal is committed), `Prepare`, `Commit`, `Reply` | the other PBFT processes, by asynchronous calls nobody waits for or repeats; its own coin node, by blocking calls (`CheckProposal`, `CommitProposal`) |
| server threads of a PBFT process (`bft_main.cc:21`: eight) | `proposals_mutex`, `ins_mutex_` and `committed_cv` of every proposal | the four handlers above, at once | each other, through `proposals_` |
| coin node (`coin_node.*`) | `tx_pool_`, balances (LevelDB), `block_chain_hash_`, the packed block | `AddTransx`, the publishing loop `Run` (`TryPublishCond`, `PackBlock`, `BlockProposal`), `CheckProposal`, `CommitProposal` | the PBFT process of the same machine, clients |
| block files of a coin node | one JSON file per block | `WriteBlock`, `ReadBlock`, `ReadBlockChainHash` at start, `ReadUserData` (balances are set anew at every start) | |
| mining mode (compile-time) | the block being mined, the chain | `Mining`, `SendBlock`, `ReceiveBlock`, the worker's `DoMining` | the other coin nodes, a worker |
| client (`client.cc`) | keys (LevelDB), the file of users | `GenUser` makes users and writes their file; a line with a transaction is signed and sent, `SendTransx`, to every coin node in turn, once | the coin nodes, which read the file of users when they start |
| start (`*_main.cc`, `cxxopts.h`, the `Init` functions) | `argv`, the variables options are stored to, ports and keys | parsing the command line, reading the configuration | the PBFT process and the coin node of a machine find each other by it |
| utilities (`utils.*`, `Message` in `bft_node.cc`) | | keys, addresses and signatures as hexadecimal text; hashing | OpenSSL |

A handler of the PBFT process is named after the phase it *starts*: `Prepare`
receives a pre-prepare, `Commit` receives a prepare, `Reply` receives a commit. The
models keep these names.

One block takes this way. The primary's coin node packs it and calls `GetRequest`,
which numbers it, stores its body and broadcasts it (pre-prepare); a replica that
receives it stores the body, asks its coin node, and on a yes broadcasts a prepare;
2f + 1 prepares make it broadcast a commit; 2f + 1 commits make it call
`CommitProposal` of its coin node, which executes the block, appends it and takes
its transactions out of the pool. At the primary this also ends `GetRequest`, and
the coin node packs the next block.

What is hard here, and what correctness means:

- *PBFT processes.* Messages come in any order or not at all, and a restarted process
  has forgotten everything. Commits carry the digest of the empty string, so nothing
  in the commit phase says *which* body is committed. Still no two replicas may execute
  different blocks under a number, none may execute one twice, and none that a quorum
  of coin nodes has not accepted; and `GetRequest` has to return.
- *Server threads.* The handlers share proposals partly under `proposals_mutex`, partly
  under `ins_mutex_`, partly under nothing. A proposal must be committed once, after
  enough votes, with its body; `GetRequest` must not return before the coin node has
  executed the block; nobody may wait for ever for a lock or a wake-up.
- *Coin nodes.* A node checks a block against its *own* chain and balances, and these
  are right only if it has executed every block before. The primary's chain must be
  one chain, no account overdrawn, no transaction executed twice or lost, and the
  nodes that have executed the same blocks must have the same balances. A node that is
  restarted has its chain back and the balances of the beginning.
- *Client.* It may be killed between the database and the file, and coin nodes may be down or
  hang while it goes through them. No account may be left without its key, no running node
  left out, and nothing signed that does not verify.
- *Start.* The parser compacts `argv` while it reads it. The two processes of a machine work their
  ports, keys and addresses out separately, and a wrong id or a missing configuration goes unnoticed.

`PROJECT.json` lists each hazard at its line with the properties about it.

## The modules

| module | what it models |
|---|---|
| `RequestOrder` | abstract: what the PBFT processes promise. `Issue` numbers requests one at a time, the next when the primary has executed the last; `Execute` lets a replica execute an issued request, once, in any order |
| `PbftCluster` | all PBFT processes, one step per handler |
| `PbftClusterProofs` | the theorems about `PbftCluster`, among them that it implements `RequestOrder` |
| `PbftReplica` | one PBFT process, thread by thread; the other replicas are its environment |
| `PbftReplicaProofs` | the theorems about `PbftReplica` |
| `Ledger` | the computations of a coin node: pool, packing, check and execution of a block |
| `FoldProofs` | lemmas about folds: induction, sequences put together, numbers and their digits |
| `LedgerProofs` | lemmas about `Ledger`: what a block does to balances, what packing takes, when executions commute |
| `Ruccoin` | the deployment: coin nodes on top of `RequestOrder`, and their restarts |
| `RuccoinProofs` | the theorems about `Ruccoin` |
| `CoinNode` | one coin node, thread by thread, with its block files and its restarts |
| `CoinNodeProofs` | the theorems about `CoinNode` |
| `CommandLine` | the parser of `cxxopts.h` with the option tables of the three programs |
| `Signing` | keys, addresses, signatures and their texts |
| `Startup` | from a command line to a process that serves; uses `CommandLine` and `Signing` |
| `StartupProofs` | the theorems about `CommandLine` and `Startup` |
| `Client` | the client, and of the coin nodes what it meets; uses `Signing` |
| `ClientProofs` | the theorems about `Client` |
| `MCPbftCluster`, `MCPbftReplica`, `MCRuccoin`, `MCCoinNode`, `MCStartup`, `MCClient` | instances for TLC |

A definition with a suffix, such as `PutKey_Batched`, is a faulty variant of the one after it:
it serves to see that a property depends on the code being as it is.

`PbftCluster` implements `RequestOrder` (run `cluster_order`, theorem `Refinement`), and `Ruccoin`
uses `RequestOrder` through `INSTANCE` where the system has the PBFT processes. Its
`Publish` is `Issue` of a block, its `CommitProposal` an `Execute`.

### PbftCluster

`GetRequest` is the code's `GetRequest` up to the wait together with `Preprepare`;
`GetRequestReturn` is the wake-up. `Prepare`, `Commit` and `Reply` are the handlers,
whole. `body`, `prepared` and `committed` are the fields of `proposals_[s]` at a
replica; `votes` holds the messages counted, from which the vectors of
`prepare_votes` and `commit_votes` follow (their length is the number of messages
with that digest). `log[n]` is what `CommitAction` told the coin node of `n`.

A broadcast adds a message to `sent`; a replica handles a message at most once, and
only over a link in `Link`: a missing link is a connection that cannot be opened
(the exception at `bft_node.cc:190`, logged and forgotten), and a message that is
never handled is one lost or still under way. A restart (`Forget`) empties everything
`Init` does not read from the configuration. `inc` tells a broadcast repeated after a
restart from the first.

Signatures are left out: they are made with the sender's key and checked with the
public key in the message, so between replicas of one configuration the check
succeeds. That a replica could lie is not modelled: the models are about the code
as written running everywhere.

### PbftReplica

A call that has been received is at a label `pc[m]`; a step is what its thread does
between two places where another thread can matter. `PrepareFind` takes
`proposals_mutex` and `PrepareAdd` or `PrepareFill` releases it; `Insert`,
`UpdateLoad` and `UpdateStore` are the unlocked beginning of `Commit` and `Reply`
(`push_back` on a shared vector, which two threads can overlap: one of the two
elements is then lost); `CheckVotes`, `CommitAct` and `ReplyAct` lock `ins_mutex_`, which
`ReplyAct` keeps during the call to the coin node. The call ends in one of two ways. After
`ReplyCommitted` the flag is set; this is also what happens when the coin node's handler reports an error,
which `CommitAction` catches and forgets (`rpc_error`, `bft_node.cc:329`). After `ReplyThrows`, any other
exception (the coin node is down), the mutex is free again and the flag is not set. Where that exception ends
is up to the RPC library: the model has the thread go on to other calls. `Start` gives a queued call to a
free thread; a thread that waits in `GetRequest` is not free.

The overlapping `push_back` is a data race, hence undefined; the model takes the
outcomes in which the vector stays a vector, with or without the other thread's vote, in every run. The same
goes for the unlocked insertions in the `std::map` of proposals.

### Ledger and Ruccoin

A transaction is a record with the time stamp in seconds, the two addresses and the
value. A balance is kept in the database as the text `std::to_string` makes of a double, with six decimals, so
balances are integers, in micro-coins; a value may be finer, and counts parts of a micro-coin, `Scale` of them.
`CheckBlock` compares amounts as they are (`coin_node.cc:355-376`), while `UpdateBlance` rounds each of its results
to the nearest micro-coin (`Written`, `coin_node.cc:402,404`), of two that are equally near to the even one. So values
can be taken from an account as more or as less than they are. The sums in between are exact here. A double is exact
up to about 10^-10 for balances below a million coins, which matters only where amounts that are compared are equal or
an amount lies half-way between two texts; and it loses whole micro-coins where a balance has some 10^10
coins and more, which the models leave out.

`SameKey` is the equivalence of `TX::operator<`, which compares time and
sender only: `std::set` holds one of two transactions with the same key, and removes by
key, so that a pool is a finite set without two of one key (`IsPool`). `Ordered` is the order in
which such a set is gone through; `PackTxs` takes the first `max_tx_per_block + 1` of it, `CheckBlock`
adds up what each sender spends in the block, `UpdateBlance` stops at the first address
without a balance, where the code has an assertion. A transaction to its own sender is credited
with the balance read before the debit, as at `coin_node.cc:404`. The reward of the packing node
(`coin_node.cc:194-206`) is compiled in with `PUBLISH_REWARD` only and left out: the option is off in
`ruccoin/CMakeLists.txt:12`, and `add_definitions` there passes the name without `-D`.

`Ruccoin` has one step per operation of a coin node; `CoinNode` is about its threads. One consequence of the threads
is in both: `AddTransx` inserts without `pool_mutex_` (`coin_node.cc:124`), so the insertion may be lost to
another one or to a removal while the answer is true (`lost`).
Hashes are injections: block `s` has the hash `s`. The pools of the coin nodes other
than the primary's are left out, as no operation reads them; `asked` and `approved`
record what `CheckProposal` answered. `Restart` is for every node but the primary's: the chain
is what can be linked from the block files, the balances are those of `user_init_file`, and its
PBFT process executes nothing again (`PbftCluster!ExecutedOnce`).

### CoinNode

Whether the node is the primary's is chosen at the start. `check[s]` and `commit[s]` are the
threads that run `CheckProposal` and `CommitProposal` for block `s`: `CheckPrev` and `CheckTx`
are `CheckBlock`, which reads a balance when it comes to a sender's first transaction; `GetFrom`,
`GetTo`, `PutFrom` and `PutTo` are the four database operations `UpdateBlance` makes for a
transaction; then come the append, the removal from the pool, and `WriteBlock` in two steps, since a
file exists before it has its content. `RunTest`, `PackBlock` and `BlockProposalReturn` are the
loop of `Run`. The append to the vector and the insertion in the pool are made without a lock; an
overlap with another change may lose them. (That the pool or the vector could be damaged in another way is not
modelled.)

`Restart` ends all threads and is `Init` again: the chain is what `ReadBlockChainHash` can link from the
files, the balances are what `ReadUserData` puts back, and an empty file stops the
node for good (`json::parse` throws). Only a node that is not the primary's restarts here.

The environment proposes blocks as `RequestOrder` says and has the node commit, once and at any
time, those that a quorum could accept.

### CommandLine and Startup

An argument is what `option_matcher` makes of it: `--`, a long option, a group of letters behind a dash, a word,
or a dash with something else; a number is its sign, base and digits. A step of the parser is one turn of the
loop of `ParseResult::parse`: `ReadWord` keeps an argument no option takes, in place; `ReadEquals` and
`ReadNext` store a value; `SyntaxError`, `UnknownOption`, `GroupedOption` and `MissingArgument` throw; then
`Defaults` and `KeepRest`. `Magnitude` and `IntegerParses` are `integer_parser` with its overflow check, in a
unsigned type of `2 * Half` numbers, 2^32 in the code. What the three programs do not use is left out (implicit values, positional
and unrecognised arguments, containers, help).

`Startup` adds the three `main` functions and what `PBFTHandler::Init` and `CoinNode::Init` make of the
configuration. A variable without initializer (`coin_main.cc:16`) has any value of its type, and not
the same in two processes. An id beyond the list makes the coin node throw and the PBFT process serve at a port
nobody knows.

### Signing

`Hex`, `Unhex`, `PrivateHex` and `HexToPrivate` are the conversions of `utils.cc`, with `HexBase` in the place of 16;
`BN_bn2hex` leaves leading zero bytes out, `%02x` does not. `SignedText` is what `Message::Signate` signs. OpenSSL
is external: a signature verifies with the point of the key that made it and for the digest it was made for, of which
ECDSA uses the leftmost 32 bytes (`Width`, as many as the order of secp256k1 has). A transaction is hashed, and its
digest is the hash in hexadecimal, so 128 bits of it count (`GetHash`, which stands for an injection). A message is not: what
`bft_node.cc:357` and `bft_node.cc:419` hand over is its text, type, view, number and 64 digits in one, and all but the first 29 or
fewer digits are not signed.

### Client

`GenUser` takes the keys; `PutKey` and `WriteLine` are the two effects of a turn of its loop, between which the
program may be killed (`Quit`, anywhere). `Submit` is a line with a transaction, `SendTransx` and `SendFails` a
turn of the loop over the nodes. A coin node is up, down (the call throws) or hangs (the call does not return), and
reads the file of users when it starts (`StartNode`), whatever is in it by then. `made`, `unwritten` and `readGens`
record for `SendersKnown` which run of `GenUser` made an account, which account was left without a line by a kill, and
which runs' files a node has read after they ended.

## What is checked

Every run below is exhaustive. "Violation" runs check one statement of the
repository's comments that the code does not keep.

| run | properties | instance |
|---|---|---|
| `cluster_order` | `ImplementsOrder`, `QuorumApproved` | four replicas, one down, two requests |
| `cluster_pair` | `TypeOK`, `Inv`, `Agreement`, `ExecutedOnce` | two replicas, the primary does not hear the other, two requests, one restart |
| `cluster_live` | `RequestReturns`, `ReplicaCommits` | four replicas, one down, one request |
| `cluster_late` | violation of `ReadyIsCommitted` | four replicas, one mute |
| `replica_safety` | `TypeOK`, `CommitOnce`, `VotesBacked` | a replica of four, two threads, all vote, overlapping votes, failing coin node calls |
| `replica_primary` | `ReturnedIsExecuted`, `RequestReturns` | the primary of four, three running, three threads, two requests, overlapping votes, failing coin node calls |
| `ruccoin_ledger` | `TypeOK`, `PrimaryChainLinked`, `NoOverdraft`, `SameBalances`, `CoinsKept`, `RefusedIsLast`, `ExecutedOnce`, `AcceptedIsKept` | four coin nodes, four transactions in quarters of a micro-coin, one of them to its own sender, two blocks, one node restarted |
| `ruccoin_live` | `Progress` | four coin nodes, two transactions, two blocks |
| `coin_node` | `TypeOK`, `PrimaryBalances`, `CheckExact`, `ReadyToPack`, `RestartReadsChain` | a coin node in either role, three transactions, two blocks, two restarts |
| `coin_race` | violation of `BalancesExecuted` | the same without restarts |
| `startup` | `TypeOK`, `ParsedAsWritten`, `UnreadKept`, `IntegerExact`, `Paired`, `ServesAsItself`, `MessagesVerify` | command lines of up to three items in every spelling, 8 bits, three nodes, a good and a partial configuration, messages of which five symbols are signed |
| `client` | `TypeOK`, `KeysKept`, `SentVerifies`, `NobodyMissed`, `SendersKnown`, `EveryoneGetsIt` | two coin nodes, two runs of `GenUser`, two transactions, one fault |

What they show:

- *Agreement, ExecutedOnce, QuorumApproved.* Whatever is lost, late or reordered and
  whichever replicas but the primary restart, the replicas execute what the primary issued under that
  number, once, with a quorum's approval. This rests on the primary never
  numbering two requests alike, so a restarted primary is excluded (see the end).
- *Late body.* `Prepare` fills in the body when commits came first (the comment at
  `bft_node.cc:221`), but only `Reply` looks at the commits. A replica that handled the
  last commit before the body has everything and never commits (`cluster_late`). When no commit
  overtakes the body it does commit (`ReplicaCommits`): prepares may come first.
- *CommitOnce, VotesBacked.* With two threads and votes overwritten by overlapping
  updates, there is still one `CommitAction` per proposal, with its body, after the votes of 2f + 1
  different replicas. When the call to the coin node fails and `committed` stays unset, the next commit message
  makes another one; so a proposal may be executed twice at a coin node whose answer was lost, and no more can be said
  than that there is no second call before the first has failed.
- *The primary's call.* With handlers that are atomic, `GetRequest` returns unless coin nodes refuse the block
  (`cluster_live`). Thread by thread, with one of them blocked in the call, there are two more ways for it to wait for
  ever (`replica_primary`): an overlapping `push_back` has lost a vote and the others are no quorum, and with just
  2f + 1 replicas running one lost vote is enough; or the call to the coin node has failed and nobody calls it again. No lock and no
  wake-up of the condition variable is ever the cause. And when it returns, the coin node has executed the
  block (`ReturnedIsExecuted`), or has reported an error that was swallowed. Two threads, one blocked, would do too; three
  let handlers overlap.
- *The ledger.* A replica that lags appends blocks in the wrong order and may check a block against
  balances that are not those of the chain so far: `CheckBlock` compares the block with the hash appended
  last, so that a replica that has skipped a block and executed the next accepts what follows that one. A
  restarted node checks against the balances of the beginning and approves what was spent already. Both
  (`Misled`) are outvoted as long as they are fewer than a quorum, and then nobody is overdrawn, if no
  transaction was accepted with a negative value, which `CheckBlock` does not look at, or with a value that is written
  as more than it is: a balance of 0.000002 and three transactions of 0.0000006 pass `CheckBlock`, and their execution
  takes 0.000003. That is what `NoOverdraft` says.
  (With a quorum of restarted nodes an account is overdrawn.) Two blocks are not enough for one
  that was skipped to mislead anybody about a later one: for that case there is the theorem. The
  primary's chain is one whatever the others do. If no value lies half-way between two micro-coins, equal sets of blocks give
  equal balances, and coins only move, except that
  a transaction to its own sender creates as many as it transfers, as written (`CoinsKept`); nothing in the code refuses one. (Half
  a micro-coin may be written up where it is taken and down where it is put, and differently after another block.) An accepted
  transaction is kept until it is executed unless its insertion was lost or the pool has one of the same sender and second
  (`AcceptedIsKept`). A block that too many replicas have refused,
  as happens when `PackBlock` packs a transaction that cannot be paid, is executed nowhere and is the last one, whatever
  the replicas learn later (`RefusedIsLast`).
- *Threads of a coin node.* At the primary, blocks are committed one at a time, and so its
  operations may be taken for single steps as in `Ruccoin`: the balances are those of the blocks
  (`PrimaryBalances`), its verdicts are those of one look at the ledger (`CheckExact`), and when it packs,
  the pool is as large as was tested, the last file can be read and the new block goes on top of
  everything executed (`ReadyToPack`). A node that lags may commit two blocks at once,
  and then `UpdateBlance` of one overwrites what the other has put (`coin_race`): its balances are
  those of no order of the blocks from then on. A check at such a node may also see a commit half done; `CheckExact` is
  about the primary. `SameBalances` and `CoinsKept` are therefore about nodes whose commits do not overlap.
- *Restart of a coin node.* What is read back is always a chain, even if blocks were appended in another
  order. When they were not, only blocks that were being committed are missing, and those on top
  of them (`RestartReadsChain`).
- *Command line.* However options are spelled and ordered, the variables get what the line says last or the
  default, the rest of `argv` is what no option took, and a wrong line ends with the exception of its first
  mistake (`ParsedAsWritten`). Integers are read as themselves over their whole range, the first numbers beyond
  it are refused, and some larger ones are not (`IntegerExact`: 5000000000 is read as 705032704).
- *Processes.* Told an id, the two processes of a machine find each other and use one key (`Paired`).
  A process that was started wrong may serve, but never at a replica's address with another's key
  (`ServesAsItself`). A message's signature verifies, and verifies for no message of another type (`MessagesVerify`). It is not bound to
  the whole message: the text is not hashed, so a digest with another end verifies as well, and its fields are signed with
  nothing between them, so number 1 with a digest that begins with 2 reads like number 12. Between numbers with as
  many digits it is bound to the number and to the beginning of the digest; this needs that the view is always 0.
- *Client.* Keys and files survive a kill between the two (`KeysKept`); texts of keys and signatures come back as
  they were (`SentVerifies`); a node that stays up lacks only what was cut short (`NobodyMissed`) and gets the
  transaction being sent unless another node hangs (`EveryoneGetsIt`). A node that does not know a
  sender was not started while the file of the `GenUser` that made the account was there and finished, by its
  end or by a kill; or the kill came between the key of this account and its line (`SendersKnown`). So a `gen` while
  nodes run, or two of them before a node starts, makes users the node does not know, and so does one that is cut short, but only one.

Met on the way, and not given runs of their own:

- `PackBlock` does not drop transactions that
  cannot be paid, as `coin_node.h:45` says, so such a block is refused by all, the primary's own
  coin node included, and `GetRequest` waits for ever (`Progress` takes senders that can pay).
- A block has up to
  `max_tx_per_block + 1` transactions (`coin_node.cc:188`, against `coin_node.h:47`).
- `AddTransx` answers true for a transaction the pool drops, and for one whose insertion is lost to another thread
  (`coin_node.cc:124`, against `coin_node.h:40`; `AcceptedIsKept` says what does hold).
- A recipient without balance
  fails the assertion at `coin_node.cc:400` on every node that executes the block
  (`Progress` lets the primary stop this way, and `ruccoin_live` has such a
  transaction).
- A crash inside `WriteBlock` leaves a file the node cannot start with.
- `block_chain_hash_` of a replica that lags is not a chain.
- `Commit` and `Reply` insert proposals without `proposals_mutex`. One of them between
  `Prepare`'s lookup and its insertion makes that insertion do nothing, and the
  proposal has no body for ever (`PbftReplica` has these steps; the proposal is never executed there).
- The client's `Run` goes round for ever when its input ends without `quit`.

### Bounds, and why they are enough

- *Replicas.* Four (f = 1, quorum 3) is the smallest number with a fault tolerance, and
  the number in `config_json/config.json`. With one down the other three are exactly a
  quorum, so every vote matters; any behaviour of fewer links is one of more links in
  which calls stay under way, so the configurations with few links lose only
  the interleavings with votes beyond the quorum, which `cluster_late` and `replica_safety`
  have. Two replicas (f = 0, quorum 1) is the extreme in which a single vote decides,
  and small enough for two requests and a restart together.
- *Requests, `MaxSeq`.* `CoinNode::Run` has one call under way, so two requests show what one can
  do to the next. Proposals of different numbers share no state but `next_proposal_seq_`.
- *`MaxRestarts`.* In `cluster_pair` one: a second restart forgets what the first forgot. `cluster_order` has
  none: there a replica that votes again after a restart is covered by the theorems only. In
  `ruccoin_ledger` it counts nodes: with one restarted and another that lags, two of the four are misled, fewer than a quorum. The
  theorems hold for any number.
- *Threads.* Two run every pair of handlers at once; the primary has a third, because one is
  blocked. The code has eight, and the theorems hold for any number.
- *Ledger.* Four transactions move coins between three accounts, so that one sender can
  pay only after an earlier block, one account is a sender three times, two senders share a
  second, and two transactions have the same key. Values are in quarters of a micro-coin, one of them written as less than it is
  and one as more, none half-way: what the premise of `SameBalances` and `CoinsKept` excludes does not occur in the run, and the
  theorems have it. Blocks have up to two transactions
  (`MaxTxPerBlock` = 1), and two of them can be executed in either order.
- *CoinNode.* Two blocks overlap in every way that two commits can; a second restart sees the
  files of blocks the first did not link. Two of the three transactions fit in one block, and two
  of one sender do not.
- *Startup.* Three items give an option, its value and what is before or behind them, and any two
  mistakes; `argv` moves down by one or more. Eight bits have the same boundaries as 32, an overflow that
  is noticed and one that is not. The nodes of the configuration share a port on two hosts. Of a message five symbols are
  signed: two of the digest behind a number of one digit, one behind a number of two, so that digests can differ in and behind what is signed.
- *Client.* Two runs of `GenUser` and one fault anywhere: the first is cut short at any point and the next succeeds, or the first
  succeeds and nodes start before, during or after it. There are keys for one user, so the second run starts only if the first has not got as
  far as that user; two complete runs with different users are in the theorem, not in the run (with a key more it takes too long). Keys have one byte and two, with leading zero digits; two nodes are one before and one after the
  faulty one.

TLC identifies replicas that differ neither in role nor in links, and requests (`Symmetry`,
`RequestSymmetry`), except in runs with liveness properties. `CHECK_DEADLOCK` is off everywhere: the models end when
the requests, lines or transactions are used up, and the real system may wait for ever, which the
liveness properties are about.

### Fairness

`PbftCluster!FairSpec`: a replica that has calls over open links handles them in the end
(TCP delivers, the thread pool takes every call), and a thread whose condition holds
wakes up. `PbftReplica!FairSpec`: each thread goes on when it can, each queued call is
started when there is always a thread, peers send what they may, and a call to the coin node ends. Nothing is
assumed of the answer, which may be a refusal or an exception, or of the interleaving of vector updates. `Ruccoin!FairSpec`: the primary's loop
goes round every two seconds, and PBFT processes make their calls. `Client!FairSpec`: the program
goes on with what it does (`Working`), which a node that hangs prevents. No fairness is assumed of
users, of restarts, or of a particular order of handling.

## What is proved

| module | theorems |
|---|---|
| `PbftClusterProofs` | `TypeCorrect`, `Invariance`, `AgreementHolds`, `ExecutedOnceHolds`, `QuorumApprovedHolds`, `Refinement` (`Spec => ImplementsOrder`) |
| `PbftReplicaProofs` | `TypeCorrect`, `CommitsOnce`, `VotesAreBacked`, `ReturnsAfterExecution` |
| `RuccoinProofs` | `ChainIsLinked`, `ExecutedAtMostOnce`, `AcceptedNotLost`, `Types`, `LedgersAgree` (`SameBalances`), `NothingOverdrawn` (`NoOverdraft`), `CoinsAreKept` (`CoinsKept`), `RefusedStaysLast` (`RefusedIsLast`) |
| `CoinNodeProofs` | `Invariant`, `Types`, `PrimaryExecutes` (`PrimaryBalances`), `ChecksAreExact`, `PackIsReady`, `RestartKeepsChain` |
| `StartupProofs` | `TypeCorrect`, `UnreadIsKept`, `IntegersAreExact` (`IntegerExact`), `LinesAreParsed` (`ParsedAsWritten`), `TheyArePaired`, `EveryoneServesAsItself`, `EveryMessageVerifies` (`MessagesVerify`) |
| `ClientProofs` | `TypeCorrect`, `NobodyIsMissed`, `SendersAreKnown`, `KeysAreKept` (`KeysKept`), `EverythingVerifies` (`SentVerifies`) |

They hold for every value of the constants that the named assumptions admit.

*PbftCluster*: every finite set of replicas,
every set of requests and of links, any `MaxSeq` and `MaxRestarts`, from `ClusterAssumption` alone.
`Spec` has restarts of every replica but the primary. The argument is that of `Inv`, whose
conjuncts say, in order:

1. `Numbered`: a number has one pre-prepare, the primary's, and it is below `nextSeq`.
2. `Issuance`: a message of any phase is about a request that was issued.
3. `VotedOnce`: a replica sends one prepare per number, after it was sent the pre-prepare.
   A pre-prepare is handled once, which survives the restart.
4. `CommitApproved`: a commit was sent only for what 2f + 1 replicas had approved. The
   sender counted 2f + 1 prepare *messages* with one digest; by `VotedOnce` they come
   from as many replicas, so the map from messages to senders is an injection.
5. `LogIssued`, `BodyIssued`: what is executed or stored came in a pre-prepare of
   that number.
6. `NotAgain`: a replica that has executed a number either still knows that it is committed
   or has been restarted since. In the second case the only pre-prepare was
   handled before the restart, so the body never comes back and `Reply` never acts. This is why no replica
   executes twice although it forgets.

Agreement follows from `LogIssued` and `Numbered`; `QuorumApproved` from `CommitApproved`, as
`Reply` acts on at least one commit message and every commit is for the one request of the number.
None of the properties is inductive alone: `ExecutedOnce` needs `NotAgain`, which needs `Numbered`
and `BodyIssued`.

*Refinement.* `OrderInv` adds to `Inv` where the primary stands: every number given out has a pre-prepare
(`Given`); a number is still waited for or committed at the primary (`Returned`); and what is committed there
is in its log (`CommittedLogged`). So `GetRequest`, whose guard is that nobody waits, is an `Issue` of the next
request; a `Reply` that commits is an `Execute` by `ExecutedOnce` and `LogIssued`; every other step leaves
the abstract state alone.

*PbftReplica*: any number of threads and replicas, from `ReplicaAssumption`. Beside the types and
which handler is where (`InHandler`), the invariant says that this process sends each of its messages
once (`SentInTurn`), that handlers of votes have inserted the proposal (`Inserted`), that `ins_mutex_` is held
exactly while the coin node is called and `committed` follows unless the call failed (`Locked`: a call to the coin node is
under way with the mutex held, or has ended with the flag set, or has failed, and the flag is not set without a call that has ended;
which gives `CommitOnce` and `ReturnedIsExecuted`), that vectors and
what an overlapping `push_back` has read of them hold votes that came (`Counted`), and that whoever acts
has had a quorum (`Backed`).

*Folds.* What a fold gives is an induction over data. `FoldProofs` avoids induction rules with an operator
parameter: a property of the numbers up to n is a set of numbers, and a set with 0 and with k when it has k - 1 has them
all (`NatInd`, `Along`); a fold is the last of the values on the way (`ComesTo`, `Unrolled`). So
texts that were put together from pairs of digits are read back as what they were made of (`PairsFlattened`, `BytesRead`),
and digits as their number (`NumberFold`, `DigitsRead`), in every base.

*Ledger.* With that, about blocks of any length: a block adds to an account what its transactions move, whatever the balance
was, provided no value lies half-way between two micro-coins: then the nearest micro-coin of balance and value together is
the balance and the nearest one of the value (`Written`). So two such blocks may be executed in either order, and every set
of them has one ledger (`AreSums`). A block that passes `CheckBlock` leaves no account negative that was not, provided no value is
negative or written as more than it is; a finite
set of transactions without two of one key can be ordered, so `PackTxs` takes an injective sequence of the pool.

*Ruccoin*, from `RuccoinAssumption` and `TxsAssumption` (stamps, senders and values are numbers): one block at a time
is proposed (`OneByOne`), its transactions are in the pool until it is executed and in no other block (`Proposed`), and
it follows the last of the primary's chain (`Chained`). The other nodes may lag and be restarted as they like.
`LedgerInv` adds the balances, as long as no accepted value lies half-way. There is one ledger for every set of blocks, and every node that was not
restarted has the one of what it has executed (`BalancesAre`), which gives `SameBalances`. Nodes that have
executed everything in order have a chain that shows it (`ChainsInOrder`), so an approval by one of them was a check against the
ledger before the block (`Approvals`). A block is executed only with a quorum of approvals; if fewer than a
quorum are misled, one of the approvals is of that kind, and no block takes the primary's ledger below
zero (`Covered`). `Misled` only grows, and so does the set of accepted transactions: the premises of `NoOverdraft`, `SameBalances` and `CoinsKept`
can be lost and not come back, which is why `Covered` can be kept for all blocks at once. `CoinsKept` is about sums over all accounts, of
which there are finitely many: a transfer adds to the balances what is zero but for two accounts, or for one if the sender is
the recipient (`TotalAdds`, `TotalOfOne`, `CoinsTransfer`), and a block what its transactions add up to, as far as they are executed
(`CoinsOfBlock`). With the types of what was executed (`CoinsInv`) it is inductive. `RefusedIsLast` follows from `OneByOne` and from the votes of what has
been executed anywhere, which are not taken back (`VotesInv`): those who refused and those who voted are different replicas.

*CoinNode*, from `CoinNodeAssumption` and `TxsAssumption` (numbers, and addresses that have a balance; otherwise the
node stops at its assertion): any number of blocks, transactions and crashes. The invariant has four parts:

1. `Typed`: what the threads hold is about blocks that were proposed, and an index stays within its block. A block was packed from the
   pool and follows the block with the number before.
2. `PrimarySteps`: at the primary at most one block is not over, the one `BlockProposal` waits for, so at most one
   thread is in `UpdateBlance`; the balances are the ledger of the blocks before it, of its first transactions,
   or one `Put` further, as its label says (`Underway`), and the chain and the files are those of the blocks that are done.
   `PrimaryBalances` and `ReadyToPack` follow. The pool only grows while the loop packs, so what was tested holds.
3. `CheckSteps`: a thread of `CheckProposal` for a block that is not being committed has seen only the
   ledger before the block. What it has noted of a sender is that balance less what the transactions looked at
   so far took (`CheckOf`). `CheckExact` follows at the end of the block.
4. `ChainHasFiles`: a block in the chain has its file or a thread that will write it; with the lemma that
   `ReadBlockChainHash` gives the blocks up to the first one without a file, `RestartReadsChain` follows.

Only the first and last are about nodes that are not the primary's, whose commits may overlap.

*Startup*, from `CommandLineAssumption`, `LinesAssumption`, `SigningAssumption`, `ConfigsAssumption` and
`MessagesAssumption`, for every set of lines, width and configuration whose keys were made by `GenAddr`:

- unread arguments are where they were (`Compacted`), an id is a number or was not given (`IdIsNumber`), and a started
  process is what its `Init` makes of the configuration;
- for the types, an option that was counted has moved the parser on or ended it, and the default of the mode is read
  as 0;
- `IntegerExact`: as long as the number is less than 2^w, what has been read of it is its value so far (`ReadItself`), and
  whatever the overflows, it stays the same up to a multiple of 2^w (`ReadRemainder`). The first numbers beyond the type, up
  to 2^w / base of them, must overflow in their last digit, and come out smaller than what was there before (`FirstRefused`);
- `ParsedAsWritten`: the parser reads whole items, for a line of any length. The spellings of the items lie one after the other in
  `argv`, and what no option takes lies so in `Words` (`Places`, `Kept`; that such places exist for every concatenation is
  `FlattenLays`). In the loop some j items have been read (`Reading`): the parser stands behind the j-th, the arguments
  it kept are the first of `Words`, none of the items was a mistake or the end of the options, and every
  variable is what the last of them says that gives it. After the loop what is still to be read is what is missing of
  `Words` (`Remaining`). An exception comes at the item after the j-th, which is therefore the first mistake. `LinesAssumption`
  says what an item is. It excludes no command line: an argument that could take the next one for its value
  is the option of an item, whatever the next one looks like, and stands alone at the end of the line only;
- `MessagesVerify`: a signature is good for the messages whose texts have the same leftmost symbols (`LeftmostSame`,
  `SameSigned`). The type is the first symbol. `MessagesAssumption` says that type, view and number fit into what is signed; if two
  numbers have as many digits, these are all among the leftmost, and equal digits are an equal number (`DecimalsDiffer`);
  and the symbols left are of the digests (`TextsAgree`, `MessagesAgree`).

*Client*, from `ClientAssumption` (a coin node is listed once) and `SigningAssumption` (two digits of the base make a byte, keys
have one byte or two): that what the last `GenUser` has made is in the file but
for accounts lost to a kill (`Written`), so that a node that reads the file of a run which is over knows its accounts but for those
(`Known`), the order of what was received (`Ordered`), and
that a node that stays up has all but what is still to come in this turn of the loop or was cut short (`Complete`).
`KeyInv` adds that every address in the database, in the file and with the nodes is a pair with its key (`Kept`), and that
what a node got is a transaction signed with it (`Verified`). A pair is of `GenAddr`, so what is read of its texts is the key
and its point (`KeyRead`, `PointRead`).

Only model-checked: all liveness (`RequestReturns`, `ReplicaCommits`, `Progress`, `EveryoneGetsIt`), which is beyond the
prover.

## What is not modelled

- Mining mode. It cannot run: `block_chain_` is empty at the start, the first `block_chain_.back()`
  (`coin_node.cc:152`) is then undefined, and `CMakeLists.txt` passes the macro without `-D`.
  `ReadBlockChain` and `WriteBlockChain` (one file of all blocks) belong to it or are not called.
- A restart of the primary. Its numbers start at 0 again (`bft_node.cc:139`), so that `seq` does not identify a
  proposal as `bft_node.h:58` says: replicas that still hold a number keep the old body while
  they vote for the new digest (`bft_node.cc:235`), and nothing can be said of numbers.
- OpenSSL, the clock, random numbers, JSON, LevelDB: taken for what they are meant to be.
- Of `cxxopts.h` what no program uses; of `client.cc` `TestRun` and `ConnectAllNodes`, of `utils.cc`
  `createKeyFromPrivateHex` and `readPrivateKeyFromFile`, which nothing calls.
- Failing coin nodes, outside `PbftReplica`. There any answer and any exception is possible: an error the coin node's handler
  reports counts as approval (`bft_node.cc:318`) or as committed (`bft_node.cc:329`), other exceptions end the handler. In
  `PbftCluster` and `Ruccoin` the coin nodes answer, and a proposal is committed when its call was made; handlers are atomic there,
  so that no vote is lost to another thread. What follows from these properties for a deployment holds as far as that does.
- Sums in doubles that are not exact, see Ledger; and the reward of the packing node, which the build leaves out.
- What a data race can do beyond losing an update: a vector, set or map that is damaged.
- Examples, test programs, build files and scripts, except
  that `run_single_node.sh` is why a process may be restarted alone.
- Replicas that do not run this code (Byzantine behaviour), view changes and checkpoints: the
  code has none of the latter two.
