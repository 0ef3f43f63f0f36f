------------------------------- MODULE CoinNode -------------------------------
(***************************************************************************)
(* One coin node (coin_node.cc), thread by thread, with its block files    *)
(* and its restarts.  Eight threads of the RPC server run AddTransx,       *)
(* CheckProposal and CommitProposal at once, and the main thread runs Run. *)
(* Only the pool has a mutex; balances are read and written one at a time  *)
(* in a LevelDB database, whose single operations are atomic.              *)
(*                                                                         *)
(* The environment is the node's PBFT process and, when the node is not    *)
(* the primary's, the primary: blocks are proposed one after the other,    *)
(* each when the primary has executed the last, and this node is told to   *)
(* commit each of them at most once, at any time (RequestOrder), if a      *)
(* quorum could pay for it (Ruccoin).  Every address has a balance.        *)
(***************************************************************************)
EXTENDS Ledger

CONSTANTS
    Txs,            \* the transactions clients send
    InitBalance,    \* the balances of user_init_file
    MinTxPerBlock,  \* min_tx_per_block of the configuration
    MaxSeq,         \* bound: blocks are numbered 0 .. MaxSeq - 1
    MaxCrashes      \* bound: how often the node stops and is started again

ASSUME CoinNodeAssumption ==
    /\ InitBalance \in [Accounts -> Nat]
    /\ Genesis \notin Nat
    /\ MinTxPerBlock \in Nat \ {0}
    /\ MaxTxPerBlock \in Nat
    /\ MaxSeq \in Nat
    /\ MaxCrashes \in Nat

ASSUME TxsAssumption ==
    \A tx \in Txs :
        /\ tx.stamp \in Nat /\ tx.from \in Nat /\ tx.value \in Int
        /\ Executable(tx)

Seqs == 0 .. (MaxSeq - 1)

VARIABLES
    primary,   \* id_ = bft_primary_id_
    issued,    \* the blocks proposed so far, block s at s + 1
    accepted,  \* the transactions AddTransx has returned true for
    pool,      \* tx_pool_, of the primary; no operation of another node reads it
    run,       \* the thread of Run: "sleep", "pack", or "call" (in GetRequest)
    check,     \* check[s]: the thread of CheckProposal of block s
    commit,    \* commit[s]: the thread of CommitProposal of block s
    balance,   \* the balance database
    chain,     \* block_chain_hash_; block s has the hash s
    files,     \* the blocks with a complete file
    torn,      \* the blocks whose file is open and still empty
    up,        \* FALSE when Init could not read the block files
    crashes

vars == <<primary, issued, accepted, pool, run, check, commit, balance, chain,
          files, torn, up, crashes>>

\* A thread is at a label; it has the locals it needs there.
NoCheck == [at |-> "none", tx |-> 1, temp |-> <<>>]
NoCommit == [at |-> "none", tx |-> 1, from |-> 0, to |-> 0]

\* The transaction the thread of t is at in block s.
Current(t, s) == issued[s + 1].txs[t[s].tx]

\* The ledger after these blocks, executed one after the other.
Executed(blocks) ==
    FoldLeft(LAMBDA b, block : UpdateBlance(b, block.txs), InitBalance, blocks)

(***************************************************************************)
(* The ledger after the first k blocks, the hash block s follows, and      *)
(* whether the nodes that have this ledger accept the block.               *)
(***************************************************************************)
After(k) == Executed(SubSeq(issued, 1, k))

PrevHash(s) == IF s = 0 THEN Genesis ELSE s - 1

Payable(s) == CheckBlock(After(s), <<PrevHash(s)>>, issued[s + 1])

-----------------------------------------------------------------------------
\* Faulty variants of definitions, here and below, are used to see that a
\* property depends on the code being as it is.  This one goes through the
\* files once, in the order of their numbers.
ReadBlockChainHash_OnePass(found) ==
    LET step(c, s) == IF s \in found /\ issued[s + 1].prev = Last(c) THEN Append(c, s) ELSE c
    IN  FoldLeft(step, <<Genesis>>, [i \in 1 .. MaxSeq |-> MaxSeq - i])

(***************************************************************************)
(* ReadBlockChainHash: from the genesis block on, a file whose block       *)
(* follows the last one is appended, until there is none.  No two blocks   *)
(* that were proposed follow the same one, so the order of the directory   *)
(* does not matter.                                                        *)
(***************************************************************************)
ReadBlockChainHash(found) ==
    LET next(c) == {s \in found : issued[s + 1].prev = Last(c)}
        chains[k \in 0 .. MaxSeq] ==
            IF k = 0 THEN <<Genesis>>
            ELSE LET c == chains[k - 1]
                 IN  IF next(c) = {} THEN c
                     ELSE Append(c, CHOOSE s \in next(c) : TRUE)
    IN  chains[MaxSeq]

Init ==
    /\ primary \in BOOLEAN
    /\ issued = <<>>
    /\ accepted = {}
    /\ pool = {}
    /\ run = "sleep"
    /\ check = [s \in Seqs |-> NoCheck]
    /\ commit = [s \in Seqs |-> NoCommit]
    /\ balance = InitBalance
    /\ chain = <<Genesis>>
    /\ files = {}
    /\ torn = {}
    /\ up = TRUE
    /\ crashes = 0

(***************************************************************************)
(* The node stops, and Init runs again: the chain is read from the files,  *)
(* an empty file ends the program, and ReadUserData puts the balances of   *)
(* the file back.  What its threads were doing is not done again, as the   *)
(* PBFT process is started with the coin node and has forgotten the block. *)
(* (With a restarted primary blocks are not proposed as RequestOrder says; *)
(* see PbftCluster.)                                                       *)
(***************************************************************************)
Restart ==
    /\ up
    /\ ~ primary
    /\ crashes < MaxCrashes
    /\ crashes' = crashes + 1
    /\ up' = (torn = {})
    /\ chain' = ReadBlockChainHash(files)
    /\ balance' = InitBalance
    /\ check' = [s \in Seqs |-> IF check[s].at = "none" THEN NoCheck
                                ELSE [NoCheck EXCEPT !.at = "over"]]
    /\ commit' = [s \in Seqs |-> IF commit[s].at = "none" THEN NoCommit
                                 ELSE [NoCommit EXCEPT !.at = "over"]]
    /\ UNCHANGED <<primary, issued, accepted, pool, run, files, torn>>

-----------------------------------------------------------------------------
(***************************************************************************)
(* The pool and Run.  AddTransx inserts without pool_mutex_: an insertion  *)
(* while another thread inserts or removes may be lost.                    *)
(***************************************************************************)
AddTransx(tx) ==
    /\ primary
    /\ tx \notin accepted
    /\ accepted' = accepted \cup {tx}
    /\ \/ pool' = PoolInsert(pool, tx)
       \/ UNCHANGED pool
    /\ UNCHANGED <<primary, issued, run, check, commit, balance, chain, files,
                   torn, up, crashes>>

TryPublishCond == Cardinality(pool) >= MinTxPerBlock

RunTest ==
    /\ primary
    /\ run = "sleep"
    /\ TryPublishCond
    /\ Len(issued) < MaxSeq
    /\ run' = "pack"
    /\ UNCHANGED <<primary, issued, accepted, pool, check, commit, balance,
                   chain, files, torn, up, crashes>>

(***************************************************************************)
(* PackBlock and BlockProposal.  When the file of the last block cannot be *)
(* read, PackBlock returns and the block packed before is proposed again.  *)
(***************************************************************************)
PackBlock ==
    /\ run = "pack"
    /\ run' = "call"
    /\ issued' = Append(issued, IF Last(chain) \in files \cup {Genesis}
                                THEN [prev |-> Last(chain), txs |-> PackTxs(pool)]
                                ELSE Last(issued))
    /\ UNCHANGED <<primary, accepted, pool, check, commit, balance, chain, files,
                   torn, up, crashes>>

\* Faulty: BlockProposal does not wait for the answer.
BlockProposalReturn_AtOnce ==
    /\ run = "call"
    /\ run' = "sleep"
    /\ UNCHANGED <<primary, issued, accepted, pool, check, commit, balance,
                   chain, files, torn, up, crashes>>

\* GetRequest returns when CommitProposal has.
BlockProposalReturn ==
    /\ run = "call"
    /\ commit[Len(issued) - 1].at = "over"
    /\ run' = "sleep"
    /\ UNCHANGED <<primary, issued, accepted, pool, check, commit, balance,
                   chain, files, torn, up, crashes>>

\* Another node is the primary and proposes a block of the pool S.
PeerPublish(S) ==
    LET n == Len(issued)
    IN  /\ ~ primary
        /\ S # {} /\ IsPool(S)
        /\ n < MaxSeq
        /\ n > 0 => Payable(n - 1)
        /\ issued' = Append(issued, [prev |-> PrevHash(n), txs |-> PackTxs(S)])
        /\ accepted' = accepted \cup S
        /\ UNCHANGED <<primary, pool, run, check, commit, balance, chain, files,
                       torn, up, crashes>>

-----------------------------------------------------------------------------
(***************************************************************************)
(* CheckProposal: the last hash of the chain is compared first, then the   *)
(* balance of a sender is read when its first transaction is reached.      *)
(***************************************************************************)
CheckPrev(s) ==
    /\ up
    /\ s < Len(issued)
    /\ check[s].at = "none"
    /\ check' = [check EXCEPT ![s].at =
                    IF issued[s + 1].prev = Last(chain) THEN "txs" ELSE "no"]
    /\ UNCHANGED <<primary, issued, accepted, pool, run, commit, balance, chain,
                   files, torn, up, crashes>>

\* Faulty: reads every balance anew.
Left_Anew(c, a) == Scale * balance[a]

\* What the thread of check c knows the sender to have left.
Left(c, a) == IF a \in DOMAIN c.temp THEN c.temp[a] ELSE Scale * balance[a]

\* temp_balance[a] = left
Note(temp, a, left) ==
    [b \in DOMAIN temp \cup {a} |-> IF b = a THEN left ELSE temp[b]]

Verdict(s, v) == check' = [check EXCEPT ![s] = [NoCheck EXCEPT !.at = v]]

CheckTx(s) ==
    /\ check[s].at = "txs"
    /\ LET tx == Current(check, s)
           left == Left(check[s], tx.from) - tx.value
       IN  \/ left < 0 /\ Verdict(s, "no")
           \/ left >= 0 /\ check[s].tx = Len(issued[s + 1].txs) /\ Verdict(s, "yes")
           \/ /\ left >= 0
              /\ check[s].tx < Len(issued[s + 1].txs)
              /\ check' = [check EXCEPT ![s] = [at |-> "txs", tx |-> @.tx + 1,
                                                 temp |-> Note(@.temp, tx.from, left)]]
    /\ UNCHANGED <<primary, issued, accepted, pool, run, commit, balance, chain,
                   files, torn, up, crashes>>

-----------------------------------------------------------------------------
(***************************************************************************)
(* CommitProposal.  UpdateBlance: two reads and two writes a transaction.  *)
(***************************************************************************)
\* The thread of block s goes on to a label, with these balances in its locals.
Goes(s, label, from, to) ==
    commit' = [commit EXCEPT ![s] = [at |-> label, tx |-> @.tx, from |-> from, to |-> to]]

CommitStart(s) ==
    /\ up
    /\ s < Len(issued)
    /\ commit[s].at = "none"
    /\ Payable(s)
    /\ commit' = [commit EXCEPT ![s].at = "from"]
    /\ UNCHANGED <<primary, issued, accepted, pool, run, check, balance, chain,
                   files, torn, up, crashes>>

GetFrom(s) ==
    /\ commit[s].at = "from"
    /\ Goes(s, "to", balance[Current(commit, s).from], commit[s].to)
    /\ UNCHANGED <<primary, issued, accepted, pool, run, check, balance, chain,
                   files, torn, up, crashes>>

GetTo(s) ==
    /\ commit[s].at = "to"
    /\ Goes(s, "debit", commit[s].from, balance[Current(commit, s).to])
    /\ UNCHANGED <<primary, issued, accepted, pool, run, check, balance, chain,
                   files, torn, up, crashes>>

PutFrom(s) ==
    /\ commit[s].at = "debit"
    /\ balance' = [balance EXCEPT ![Current(commit, s).from] =
                      Written(Scale * commit[s].from - Current(commit, s).value)]
    /\ Goes(s, "credit", 0, commit[s].to)
    /\ UNCHANGED <<primary, issued, accepted, pool, run, check, chain, files,
                   torn, up, crashes>>

\* Faulty: the loop ends one transaction early.
PutTo_SkipsLast(s) ==
    /\ commit[s].at = "credit"
    /\ balance' = [balance EXCEPT ![Current(commit, s).to] =
                      Written(Scale * commit[s].to + Current(commit, s).value)]
    /\ commit' = [commit EXCEPT ![s] =
          IF @.tx < Len(issued[s + 1].txs) - 1
          THEN [at |-> "from", tx |-> @.tx + 1, from |-> 0, to |-> 0]
          ELSE [at |-> "append", tx |-> 1, from |-> 0, to |-> 0]]
    /\ UNCHANGED <<primary, issued, accepted, pool, run, check, chain, files,
                   torn, up, crashes>>

\* Faulty: the loop ends one transaction late.
PutTo_OneMore(s) ==
    /\ commit[s].at = "credit"
    /\ balance' = [balance EXCEPT ![Current(commit, s).to] =
                      Written(Scale * commit[s].to + Current(commit, s).value)]
    /\ commit' = [commit EXCEPT ![s] =
          IF @.tx <= Len(issued[s + 1].txs)
          THEN [at |-> "from", tx |-> @.tx + 1, from |-> 0, to |-> 0]
          ELSE [at |-> "append", tx |-> 1, from |-> 0, to |-> 0]]
    /\ UNCHANGED <<primary, issued, accepted, pool, run, check, chain, files,
                   torn, up, crashes>>

PutTo(s) ==
    /\ commit[s].at = "credit"
    /\ balance' = [balance EXCEPT ![Current(commit, s).to] =
                      Written(Scale * commit[s].to + Current(commit, s).value)]
    /\ commit' = [commit EXCEPT ![s] =
          IF @.tx < Len(issued[s + 1].txs)
          THEN [at |-> "from", tx |-> @.tx + 1, from |-> 0, to |-> 0]
          ELSE [at |-> "append", tx |-> 1, from |-> 0, to |-> 0]]
    /\ UNCHANGED <<primary, issued, accepted, pool, run, check, chain, files,
                   torn, up, crashes>>

(***************************************************************************)
(* The hash is appended, with no lock held: while another thread appends   *)
(* too, it may be lost.                                                    *)
(***************************************************************************)
AppendHash(s) ==
    /\ commit[s].at = "append"
    /\ \/ chain' = Append(chain, s)
       \/ (\E r \in Seqs \ {s} : commit[r].at = "append") /\ UNCHANGED chain
    /\ commit' = [commit EXCEPT ![s].at = "remove"]
    /\ UNCHANGED <<primary, issued, accepted, pool, run, check, balance, files,
                   torn, up, crashes>>

RemoveTxFromPool(s) ==
    /\ commit[s].at = "remove"
    /\ pool' = PoolRemove(pool, issued[s + 1].txs)
    /\ commit' = [commit EXCEPT ![s].at = "open"]
    /\ UNCHANGED <<primary, issued, accepted, run, check, balance, chain, files,
                   torn, up, crashes>>

\* WriteBlock: the file is created, and has its content when it is closed.
OpenFile(s) ==
    /\ commit[s].at = "open"
    /\ torn' = torn \cup {s}
    /\ commit' = [commit EXCEPT ![s].at = "close"]
    /\ UNCHANGED <<primary, issued, accepted, pool, run, check, balance, chain,
                   files, up, crashes>>

CloseFile(s) ==
    /\ commit[s].at = "close"
    /\ torn' = torn \ {s}
    /\ files' = files \cup {s}
    /\ commit' = [commit EXCEPT ![s].at = "over"]
    /\ UNCHANGED <<primary, issued, accepted, pool, run, check, balance, chain,
                   up, crashes>>

-----------------------------------------------------------------------------
UpdateBlanceStep(s) == GetFrom(s) \/ GetTo(s) \/ PutFrom(s) \/ PutTo(s)

WriteBlock(s) == OpenFile(s) \/ CloseFile(s)

Next ==
    \/ \E tx \in Txs : AddTransx(tx)
    \/ RunTest \/ PackBlock \/ BlockProposalReturn
    \/ \E S \in SUBSET (Txs \ accepted) : PeerPublish(S)
    \/ \E s \in Seqs :
          \/ CheckPrev(s) \/ CheckTx(s)
          \/ CommitStart(s) \/ UpdateBlanceStep(s) \/ AppendHash(s)
          \/ RemoveTxFromPool(s) \/ WriteBlock(s)
    \/ Restart

Spec == Init /\ [][Next]_vars

-----------------------------------------------------------------------------
(***************************************************************************)
(* Properties.                                                             *)
(***************************************************************************)
Labels == {"none", "from", "to", "debit", "credit", "append", "remove", "open",
           "close", "over"}

\* The type invariant.
TypeOK ==
    /\ primary \in BOOLEAN
    /\ Len(issued) \in 0 .. MaxSeq
    /\ \A i \in 1 .. Len(issued) : issued[i].txs \in Seq(accepted)
    /\ pool \subseteq accepted
    /\ accepted \subseteq Txs
    /\ run \in {"sleep", "pack", "call"}
    /\ \A s \in Seqs :
          /\ check[s].at \in {"none", "txs", "yes", "no", "over"}
          /\ check[s].at = "txs" => check[s].tx \in 1 .. Len(issued[s + 1].txs)
          /\ commit[s].at \in Labels
          /\ commit[s].at \in {"from", "to", "debit", "credit"}
                => commit[s].tx \in 1 .. Len(issued[s + 1].txs)
    /\ balance \in [Accounts -> Int]
    /\ chain \in Seq(Seqs \cup {Genesis})
    /\ files \subseteq Seqs
    /\ torn \subseteq Seqs
    /\ up \in BOOLEAN
    /\ crashes \in 0 .. MaxCrashes

\* The commits that have begun, and that none of them is in UpdateBlance.
Started == {s \in Seqs : commit[s].at # "none"}

Quiet == \A s \in Seqs : commit[s].at \notin {"from", "to", "debit", "credit"}

(***************************************************************************)
(* coin_node.h:79 says that CommitProposal executes the transactions of a  *)
(* block in order: when no thread is at it, the balances are those of the  *)
(* blocks it was called with, executed one after the other in some order.  *)
(***************************************************************************)
BalancesExecuted ==
    Quiet /\ crashes = 0 =>
        \E order \in SetToSeqs(Started) :
            balance = Executed([i \in 1 .. Len(order) |-> issued[order[i] + 1]])

(***************************************************************************)
(* At the primary they are, in the order of the blocks, whatever its       *)
(* threads do, because no two blocks are under way there at once.  This    *)
(* and the next two properties are why Ruccoin may take an operation of    *)
(* the primary's coin node for one step.                                   *)
(***************************************************************************)
PrimaryBalances ==
    primary /\ Quiet =>
        LET k == Cardinality(Started)
        IN  Started = 0 .. (k - 1) /\ balance = After(k)

(***************************************************************************)
(* The primary's coin node judges its own block as one look at the ledger  *)
(* would, although CheckProposal reads one balance at a time with no lock, *)
(* as long as the block is not being committed.                            *)
(***************************************************************************)
CheckExact ==
    primary => \A s \in Seqs :
        check[s].at \in {"yes", "no"} /\ commit[s].at = "none"
            => (check[s].at = "yes" <=> Payable(s))

(***************************************************************************)
(* When Run packs a block, what it has tested outside the lock still holds *)
(* (PackBlock asserts it), the file of the last block can be read, so that *)
(* no old block is proposed again, and the new one goes on top of all the  *)
(* blocks before it, executed.                                             *)
(***************************************************************************)
ReadyToPack ==
    run = "pack" =>
        /\ TryPublishCond
        /\ Last(chain) \in files \cup {Genesis}
        /\ Last(chain) = PrevHash(Len(issued))
        /\ balance = After(Len(issued))

Linked(c) ==
    /\ c[1] = Genesis
    /\ \A i \in 2 .. Len(c) : issued[c[i] + 1].prev = c[i - 1]

\* The blocks of the chain up to i have been committed to the end.
CommittedUpTo(i) == \A j \in 2 .. i : commit[chain[j]].at = "over"

(***************************************************************************)
(* The chain that is read back at a restart is one, even if the blocks had *)
(* been appended in another order.  When they had not, nothing is lost but *)
(* blocks that were still being committed, and those on top of them.       *)
(***************************************************************************)
RestartReadsChain ==
    [][ crashes' # crashes =>
          /\ Linked(chain')
          /\ Linked(chain) =>
                \A i \in 1 .. Len(chain) : CommittedUpTo(i) =>
                    i <= Len(chain') /\ chain'[i] = chain[i] ]_vars
=============================================================================
