------------------------------- MODULE Ruccoin -------------------------------
(***************************************************************************)
(* A ruccoin deployment: a coin node per replica on top of the PBFT        *)
(* processes, for which RequestOrder stands (PbftCluster implements it).   *)
(* A client sends transactions to the coin nodes; the primary's coin node  *)
(* packs what is in its pool into a block and proposes it; the PBFT        *)
(* process of every replica asks its own coin node about the block and,    *)
(* when a quorum of them has accepted it, tells it to commit the block.    *)
(*                                                                         *)
(* Each operation of a coin node is one step; its threads are the subject  *)
(* of module CoinNode.  Only the primary's pool is kept: no operation of   *)
(* another coin node depends on its own.                                   *)
(***************************************************************************)
EXTENDS Ledger

CONSTANTS
    Nodes,          \* the replicas
    Primary,        \* pbft_primary of the configuration
    Txs,            \* the transactions clients sign and send
    InitBalance,    \* the balances of user_init_file
    MinTxPerBlock,  \* min_tx_per_block of the configuration
    MaxSeq,         \* bound: blocks are numbered 0 .. MaxSeq - 1
    MaxRestarts     \* bound: how many of the replicas are ever restarted

ASSUME RuccoinAssumption ==
    /\ IsFiniteSet(Nodes)
    /\ Primary \in Nodes
    /\ IsFiniteSet(Accounts)
    /\ InitBalance \in [Accounts -> Nat]
    /\ Genesis \notin Nat
    /\ MinTxPerBlock \in Nat \ {0}
    /\ MaxTxPerBlock \in Nat
    /\ MaxSeq \in Nat
    /\ MaxRestarts \in Nat

ASSUME TxsAssumption ==
    \A tx \in Txs : tx.stamp \in Nat /\ tx.from \in Nat /\ tx.value \in Int

Seqs == 0 .. (MaxSeq - 1)

F == (Cardinality(Nodes) - 1) \div 3

Quorum == 2 * F + 1

VARIABLES
    issued,     \* the blocks proposed so far, block s at s + 1
    executed,   \* executed[n]: the blocks the PBFT process of n had committed
    pool,       \* tx_pool_ of the primary's coin node
    accepted,   \* the transactions AddTransx returned true for
    lost,       \* of these, the ones that did not get into tx_pool_
    balance,    \* balance[n]: the balance database of n
    chain,      \* chain[n]: block_chain_hash_ of n; block s has the hash s
    asked,      \* asked[s]: the replicas whose coin node has checked block s
    approved,   \* approved[s]: those that accepted it
    aborted,    \* the replicas whose coin node an assertion has stopped
    restarted   \* the replicas whose processes have been restarted

coinvars == <<pool, accepted, lost, balance, chain, asked, approved, aborted, restarted>>

vars == <<issued, executed, coinvars>>

\* The PBFT processes; the request issued under a number is a block.
Pbft == INSTANCE RequestOrder WITH Requests <- {}

Init ==
    /\ Pbft!OInit
    /\ pool = {}
    /\ accepted = {}
    /\ lost = {}
    /\ balance = [n \in Nodes |-> InitBalance]
    /\ chain = [n \in Nodes |-> <<Genesis>>]
    /\ asked = [s \in Seqs |-> {}]
    /\ approved = [s \in Seqs |-> {}]
    /\ aborted = {}
    /\ restarted = {}

-----------------------------------------------------------------------------
\* Faulty variants of definitions, here and below, are used to see that a
\* property depends on the code being as it is.  This one returns false.
AddTransx_Denied(tx) ==
    /\ tx \notin accepted
    /\ Primary \notin aborted
    /\ pool' = PoolInsert(pool, tx)
    /\ UNCHANGED <<issued, executed, accepted, lost, balance, chain, asked, approved, aborted, restarted>>

(***************************************************************************)
(* AddTransx at the primary's coin node, which the client calls once for   *)
(* every transaction.  What insert returned is ignored.  It inserts with   *)
(* no lock, on one of eight threads: while another thread inserts or       *)
(* removes, the insertion may be lost, and the answer is true all the same.*)
(***************************************************************************)
AddTransx(tx) ==
    /\ tx \notin accepted
    /\ Primary \notin aborted
    /\ accepted' = accepted \cup {tx}
    /\ \/ pool' = PoolInsert(pool, tx) /\ UNCHANGED lost
       \/ lost' = lost \cup {tx} /\ UNCHANGED pool
    /\ UNCHANGED <<issued, executed, balance, chain, asked, approved, aborted, restarted>>

\* TryPublishCond
TryPublishCond == Cardinality(pool) >= MinTxPerBlock

\* Faulty: every block follows the genesis block.
PackBlock_OnGenesis == [prev |-> Head(chain[Primary]), txs |-> PackTxs(pool)]

\* PackBlock: the block follows the last block of the node's own chain.
PackBlock == [prev |-> Last(chain[Primary]), txs |-> PackTxs(pool)]

\* Run: PackBlock and BlockProposal, when the last proposal's call is over.
Publish ==
    /\ Primary \notin aborted
    /\ TryPublishCond
    /\ Pbft!Issue(PackBlock)
    /\ UNCHANGED coinvars

(***************************************************************************)
(* CheckProposal: the answer is a vote of the replica.  When the coin node *)
(* is gone the call fails, and the PBFT process sends no prepare.          *)
(***************************************************************************)
CheckProposal(n, s) ==
    /\ s < Len(issued)
    /\ n \notin asked[s] \cup aborted
    /\ asked' = [asked EXCEPT ![s] = @ \cup {n}]
    /\ approved' = [approved EXCEPT ![s] =
          IF CheckBlock(balance[n], chain[n], issued[s + 1]) THEN @ \cup {n} ELSE @]
    /\ UNCHANGED <<issued, executed, pool, accepted, lost, balance, chain, aborted, restarted>>

\* Faulty: a refusal is counted as a vote.
Voted_Either(s) == Cardinality(asked[s]) >= Quorum

\* CheckVotes: a quorum of replicas has voted for the block.
Voted(s) == Cardinality(approved[s]) >= Quorum

(***************************************************************************)
(* CommitProposal: the transactions are executed, the block is appended,   *)
(* its transactions leave the pool and the block is written to a file.     *)
(***************************************************************************)
CommitProposal(n, s) ==
    /\ n \notin aborted
    /\ Voted(s)
    /\ Pbft!Execute(n, s)
    /\ LET txs == issued[s + 1].txs
       IN  /\ balance' = [balance EXCEPT ![n] = UpdateBlance(@, txs)]
           /\ IF \A i \in 1 .. Len(txs) : Executable(txs[i])
              THEN /\ chain' = [chain EXCEPT ![n] = Append(@, s)]
                   /\ pool' = IF n = Primary THEN PoolRemove(pool, txs) ELSE pool
                   /\ UNCHANGED aborted
              ELSE /\ aborted' = aborted \cup {n}
                   /\ UNCHANGED <<chain, pool>>
    /\ UNCHANGED <<accepted, lost, asked, approved, restarted>>

\* The blocks of n that have a file.
Files(n) ==
    {s \in Pbft!Done(n) : \A i \in 1 .. Len(issued[s + 1].txs) : Executable(issued[s + 1].txs[i])}

(***************************************************************************)
(* ReadBlockChainHash: from the genesis block on, a file whose block       *)
(* follows the last one is appended, until there is none.                  *)
(***************************************************************************)
ReadBlockChainHash(n) ==
    LET next(c) == {s \in Files(n) : issued[s + 1].prev = Last(c)}
        chains[k \in 0 .. MaxSeq] ==
            IF k = 0 THEN <<Genesis>>
            ELSE LET c == chains[k - 1]
                 IN  IF next(c) = {} THEN c
                     ELSE Append(c, CHOOSE s \in next(c) : TRUE)
    IN  chains[MaxSeq]

(***************************************************************************)
(* The processes of replica n stop and are started again: the chain is     *)
(* read back from the files, and ReadUserData puts the initial balances.   *)
(* (The primary would number blocks anew: see PbftCluster.)                *)
(***************************************************************************)
Restart(n) ==
    /\ n # Primary
    /\ Cardinality(restarted \cup {n}) <= MaxRestarts
    /\ restarted' = restarted \cup {n}
    /\ balance' = [balance EXCEPT ![n] = InitBalance]
    /\ chain' = [chain EXCEPT ![n] = ReadBlockChainHash(n)]
    /\ aborted' = aborted \ {n}
    /\ UNCHANGED <<issued, executed, pool, accepted, lost, asked, approved>>

-----------------------------------------------------------------------------
Next ==
    \/ \E tx \in Txs : AddTransx(tx)
    \/ Publish
    \/ \E n \in Nodes, s \in Seqs : CheckProposal(n, s) \/ CommitProposal(n, s)
    \/ \E n \in Nodes : Restart(n)

Spec == Init /\ [][Next]_vars

(***************************************************************************)
(* Fairness: the primary's loop goes round every two seconds, and the PBFT *)
(* processes call their coin nodes.                                        *)
(***************************************************************************)
FairSpec ==
    /\ Spec
    /\ WF_vars(Publish)
    /\ \A n \in Nodes, s \in Seqs :
          WF_vars(CheckProposal(n, s)) /\ WF_vars(CommitProposal(n, s))

-----------------------------------------------------------------------------
(***************************************************************************)
(* Properties.                                                             *)
(***************************************************************************)

\* The type invariant.
TypeOK ==
    /\ \A i \in 1 .. Len(issued) : issued[i].txs \in Seq(Txs)
    /\ pool \subseteq accepted
    /\ accepted \subseteq Txs
    /\ lost \subseteq accepted
    /\ balance \in [Nodes -> [Accounts -> Int]]
    /\ chain \in [Nodes -> Seq(Seqs \cup {Genesis})]
    /\ \A s \in Seqs : approved[s] \subseteq asked[s] /\ asked[s] \subseteq Nodes
    /\ aborted \subseteq Nodes
    /\ restarted \subseteq Nodes \ {Primary}

\* Every block of this chain follows the one before it.
Linked(c) ==
    /\ c[1] = Genesis
    /\ \A i \in 2 .. Len(c) : issued[c[i] + 1].prev = c[i - 1]

(***************************************************************************)
(* The primary's chain is one: PackBlock may take the last block of it for *)
(* the predecessor of the next, because BlockProposal has returned by then *)
(* and the coin node has appended its block before that.                   *)
(***************************************************************************)
PrimaryChainLinked == Linked(chain[Primary])

\* Replica n has executed the first blocks, each after the one before it.
InOrder(n) == \A i \in 1 .. Len(executed[n]) : executed[n][i].seq = i - 1

\* Those that may check a block against other balances than the primary's.
Misled == {n \in Nodes : n \in restarted \/ ~ InOrder(n)}

(***************************************************************************)
(* No account of the primary's ledger is overdrawn.  A replica checks a    *)
(* block against its own balances, which are those of the chain up to that *)
(* block only if it has executed every block before it.  A replica that    *)
(* has skipped one accepts later blocks all the same, because CheckBlock   *)
(* compares no more than the last hash, and a restarted one has its chain  *)
(* back and not its balances: they are outvoted until they are as many as  *)
(* a quorum.  Nor does CheckBlock ask whether a value is negative.         *)
(*                                                                         *)
(* CheckBlock compares the values as they are, while the balances take     *)
(* them as written, one by one: values that are written as more than they  *)
(* are, like three of 0.0000006 on a balance of 0.000002, overdraw an      *)
(* account that CheckBlock has found sufficient.                           *)
(***************************************************************************)
NoOverdraft ==
    /\ Cardinality(Misled) < Quorum
    /\ \A tx \in accepted : tx.value >= 0 /\ 2 * (tx.value % Scale) < Scale
    => \A a \in Accounts : balance[Primary][a] >= 0

\* No accepted transaction has a value half-way between two that can be written.
NoHalves == \A tx \in accepted : ~ Halfway(tx.value)

(***************************************************************************)
(* Two coin nodes that have executed the same blocks have the same         *)
(* balances, although a replica that lags may have executed them in        *)
(* another order.  (One that was restarted has lost its balances.)  Half a *)
(* micro-coin may be written as 0 or 1, depending on the balance it is     *)
(* taken from, and then the order matters.                                 *)
(***************************************************************************)
SameBalances ==
    NoHalves => \A n1, n2 \in Nodes \ restarted :
        Pbft!Done(n1) = Pbft!Done(n2) => balance[n1] = balance[n2]

\* The coins each of the blocks has created that n has executed.
CreatedAt(n) == [i \in DOMAIN executed[n] |-> Created(executed[n][i].req.txs)]

(***************************************************************************)
(* Executing blocks moves coins from account to account, of those there    *)
(* were at the start.  Only a transaction to its own sender, for which     *)
(* UpdateBlance reads the balance twice before it writes either, creates   *)
(* coins, as many as it transfers as written; the two balances of another  *)
(* one change by the same amount, except where a value half-way between    *)
(* two is written up at one of them and down at the other.  So it is at    *)
(* every node that was not restarted, also if it executes blocks out of    *)
(* order or was stopped by the assertion in the middle of one.             *)
(***************************************************************************)
CoinsKept ==
    NoHalves => \A n \in Nodes \ restarted :
        Coins(balance[n]) = Coins(InitBalance) + Total(CreatedAt(n))

\* The numbers of the blocks of the primary that contain a transaction.
BlocksOf(tx) ==
    {s \in Pbft!Done(Primary) :
        \E i \in 1 .. Len(issued[s + 1].txs) : issued[s + 1].txs[i] = tx}

(***************************************************************************)
(* A transaction is executed at most once: it stays in the pool while its  *)
(* block is proposed, and leaves it before the next block is packed.       *)
(***************************************************************************)
ExecutedOnce == \A tx \in Txs : Cardinality(BlocksOf(tx)) <= 1

(***************************************************************************)
(* coin_node.h:40 says that AddTransx returns true for a transaction that  *)
(* was added.  The insertion may have been lost, and the pool drops a      *)
(* transaction whose sender has another of the same second in it; what     *)
(* holds is that any other transaction that was accepted is in the pool or *)
(* executed, or one of the same sender and second is, and that committing  *)
(* a block takes none out of the pool with it.                             *)
(***************************************************************************)
AcceptedIsKept ==
    \A tx \in accepted \ lost : \E t \in accepted :
        SameKey(t, tx) /\ (t \in pool \/ BlocksOf(t) # {})

(***************************************************************************)
(* A replica is asked about a block once, and there is no view change: a   *)
(* block that so many have refused that the others are no quorum, as one   *)
(* with a transaction that cannot be paid, is executed nowhere, even if    *)
(* those that refused it could accept it now, and as BlockProposal waits   *)
(* for it, it is the last.                                                 *)
(***************************************************************************)
RefusedIsLast ==
    \A s \in Seqs :
        Cardinality(asked[s] \ approved[s]) > Cardinality(Nodes) - Quorum
            => s = Len(issued) - 1 /\ \A n \in Nodes : s \notin Pbft!Done(n)

\* No replica is asked about a block before it has executed those before it.
InStep ==
    \A s \in Seqs : \A n \in asked[s] : 0 .. s - 1 \subseteq Pbft!Done(n)

(***************************************************************************)
(* When every sender can pay, an accepted transaction is executed, unless  *)
(* too few are left to fill a block or the primary's coin node is stopped  *)
(* by a recipient without balance.  This takes replicas that keep in step: *)
(* one that has not executed the last block when it is asked about the     *)
(* next refuses it for good, the refused block is never given up, and the  *)
(* primary waits for it for ever.                                          *)
(***************************************************************************)
Progress ==
    []InStep => \A tx \in Txs :
        tx \in pool ~> tx \notin pool \/ ~ TryPublishCond \/ Primary \in aborted
=============================================================================
