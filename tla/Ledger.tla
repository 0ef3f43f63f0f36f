-------------------------------- MODULE Ledger --------------------------------
(***************************************************************************)
(* What a coin node computes: its transaction pool, the block it packs, the *)
(* check of a block and its execution (coin_node.cc, structure.h).         *)
(*                                                                         *)
(* Addresses are numbers, which gives them the order that std::string      *)
(* comparison gives the source's.  A signature of a client of the system   *)
(* always verifies and is left out.                                        *)
(*                                                                         *)
(* A balance is kept as the text std::to_string makes of a double, with    *)
(* six decimals: balances are integers, in micro-coins.  The value of a    *)
(* transaction may be finer; values count parts of a micro-coin.  What the *)
(* code works out in doubles is exact here: below some 10^9 coins, where a *)
(* double has digits to spare, that makes no difference except where exact *)
(* amounts are equal, or lie half-way between two texts, and a double is a *)
(* little off.                                                             *)
(***************************************************************************)
EXTENDS Integers, Sequences, FiniteSets, SequencesExt

CONSTANTS
    Accounts,       \* the addresses of user_init_file, which have a balance
    MaxTxPerBlock,  \* max_tx_per_block
    Genesis,        \* genesis_block of the configuration
    Scale           \* the parts of a micro-coin that values are counted in

ASSUME ScaleAssumption == Scale \in Nat \ {0}

\* struct TX: operator< compares the time stamp, then the sender.
Before(t1, t2) ==
    \/ t1.stamp < t2.stamp
    \/ t1.stamp = t2.stamp /\ t1.from < t2.from

\* Two transactions std::set takes for one.
SameKey(t1, t2) == ~ Before(t1, t2) /\ ~ Before(t2, t1)

\* What a std::set of transactions may be.
IsPool(pool) ==
    /\ IsFiniteSet(pool)
    /\ \A t1, t2 \in pool : SameKey(t1, t2) => t1 = t2

\* tx_pool_.insert(tx)
PoolInsert(pool, tx) ==
    IF \E t \in pool : SameKey(t, tx) THEN pool ELSE pool \cup {tx}

\* Faulty variants of definitions, here and below, are used to see that a
\* property depends on the code being as it is.  This one removes nothing.
PoolRemove_Nothing(pool, txs) == pool

\* Faulty: removes every transaction of the same second.
PoolRemove_SameSecond(pool, txs) ==
    {t \in pool : ~ \E i \in 1 .. Len(txs) : t.stamp = txs[i].stamp}

\* RemoveTxFromPool
PoolRemove(pool, txs) ==
    {t \in pool : ~ \E i \in 1 .. Len(txs) : SameKey(t, txs[i])}

\* The pool in the order of std::set.
Ordered(pool) ==
    CHOOSE q \in [1 .. Cardinality(pool) -> pool] :
        \A i, j \in DOMAIN q : i < j => Before(q[i], q[j])

\* PackBlock: the loop stops when ntx > max_tx_per_block, ntx counting from 0.
PackTxs(pool) ==
    SubSeq(Ordered(pool), 1, IF Cardinality(pool) <= MaxTxPerBlock + 1
                             THEN Cardinality(pool) ELSE MaxTxPerBlock + 1)

\* What the first i transactions of a block take from an account.
Debits(txs, i, a) ==
    FoldLeft(LAMBDA sum, tx : IF tx.from = a THEN sum + tx.value ELSE sum,
             0, SubSeq(txs, 1, i))

\* Faulty: every transaction is checked against the balance on its own.
CheckBlock_OneByOne(balance, chain, block) ==
    /\ block.prev = Last(chain)
    /\ \A i \in 1 .. Len(block.txs) :
          /\ block.txs[i].from \in Accounts
          /\ block.txs[i].value <= Scale * balance[block.txs[i].from]

(***************************************************************************)
(* CheckBlock: the block follows the last one, and in the order of the     *)
(* block no sender spends more than its balance.  What it is sent in the   *)
(* same block does not count, and nothing is asked of the recipients.      *)
(***************************************************************************)
CheckBlock(balance, chain, block) ==
    /\ block.prev = Last(chain)
    /\ \A i \in 1 .. Len(block.txs) :
          /\ block.txs[i].from \in Accounts
          /\ Debits(block.txs, i, block.txs[i].from) <= Scale * balance[block.txs[i].from]

\* Faulty: what is finer than a micro-coin is cut off.
Written_Down(amount) == amount \div Scale

\* The balance std::to_string writes for an amount: the nearest, the even one of two.
Written(amount) ==
    LET down == amount \div Scale
        rest == 2 * (amount % Scale)
    IN  IF rest < Scale \/ (rest = Scale /\ down % 2 = 0) THEN down ELSE down + 1

\* The value lies half-way between two amounts that can be written.
Halfway(value) == 2 * (value % Scale) = Scale

\* Faulty: a transaction whose sender cannot pay is passed over.
Transfer_IfCovered(balance, tx) ==
    IF tx.value <= Scale * balance[tx.from]
    THEN [balance EXCEPT ![tx.from] = Written(Scale * @ - tx.value),
                         ![tx.to] = Written(Scale * balance[tx.to] + tx.value)]
    ELSE balance

(***************************************************************************)
(* UpdateBlance: both balances are read, then both are written, the        *)
(* recipient's last.  An assertion stops the process at the first          *)
(* transaction with an address that has no balance.                        *)
(***************************************************************************)
Transfer(balance, tx) ==
    [balance EXCEPT ![tx.from] = Written(Scale * @ - tx.value),
                    ![tx.to] = Written(Scale * balance[tx.to] + tx.value)]

Executable(tx) == tx.from \in Accounts /\ tx.to \in Accounts

\* The transactions executed before that happens.
ExecutablePrefix(txs) ==
    IF \E i \in 1 .. Len(txs) : ~ Executable(txs[i])
    THEN SubSeq(txs, 1, (CHOOSE i \in 1 .. Len(txs) :
                            /\ ~ Executable(txs[i])
                            /\ \A j \in 1 .. i - 1 : Executable(txs[j])) - 1)
    ELSE txs

UpdateBlance(balance, txs) == FoldLeft(Transfer, balance, ExecutablePrefix(txs))

-----------------------------------------------------------------------------
(***************************************************************************)
(* What a ledger adds up to, for the properties.                           *)
(***************************************************************************)
Total(numbers) == FoldLeft(LAMBDA sum, number : sum + number, 0, numbers)

Users == SetToSeq(Accounts)

Coins(balance) == Total([i \in DOMAIN Users |-> balance[Users[i]]])

\* The values, as written, of what a block has transferred from an account to itself.
Created(txs) ==
    LET done == ExecutablePrefix(txs)
    IN  Total([i \in DOMAIN done |-> 
            IF done[i].from = done[i].to THEN Written(done[i].value) ELSE 0])
=============================================================================
