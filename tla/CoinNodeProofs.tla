----------------------------- MODULE CoinNodeProofs -----------------------------
(***************************************************************************)
(* Proofs about the threads of a coin node, for every number of accounts,  *)
(* transactions, blocks and restarts.                                      *)
(***************************************************************************)
EXTENDS CoinNode, LedgerProofs

-----------------------------------------------------------------------------
(***************************************************************************)
(* The inductive invariant.                                                *)
(***************************************************************************)
Blocks == [prev : Seqs \cup {Genesis}, txs : Seq(Txs)]

Issued == 0 .. Len(issued) - 1

\* What a thread of CheckProposal may have noted.
Notes == UNION {[A -> Int] : A \in SUBSET Accounts}

CheckLabels == {"none", "txs", "yes", "no", "over"}

Updating == {"from", "to", "debit", "credit"}

Appended == {"remove", "open", "close", "over"}

\* Every block is one that was packed from transactions of clients, and follows
\* the block with the number before.
BlocksTyped ==
    /\ issued \in Seq(Blocks)
    /\ Len(issued) <= MaxSeq
    /\ \A s \in Issued :
          /\ Len(issued[s + 1].txs) > 0
          /\ issued[s + 1].txs \in Seq(accepted)
          /\ issued[s + 1].prev = PrevHash(s)

\* No thread is at a block that was not proposed, or past its last transaction.
ThreadsTyped ==
    /\ check \in [Seqs -> [at : CheckLabels, tx : Nat, temp : Notes]]
    /\ commit \in [Seqs -> [at : Labels, tx : Nat, from : Int, to : Int]]
    /\ \A s \in Seqs :
          /\ check[s].at = "none" => check[s] = NoCheck
          /\ commit[s].at = "none" => commit[s] = NoCommit
    /\ \A s \in Seqs \ Issued : check[s].at = "none" /\ commit[s].at = "none"
    /\ \A s \in Issued :
          /\ check[s].at = "txs" => check[s].tx \in 1 .. Len(issued[s + 1].txs)
          /\ commit[s].at \in Updating => commit[s].tx \in 1 .. Len(issued[s + 1].txs)

Typed ==
    /\ primary \in BOOLEAN
    /\ BlocksTyped
    /\ ThreadsTyped
    /\ accepted \subseteq Txs
    /\ pool \subseteq accepted
    /\ IsPool(pool)
    /\ run \in {"sleep", "pack", "call"}
    /\ ~ primary => run = "sleep"
    /\ balance \in Balances
    /\ chain \in Seq(Seqs \cup {Genesis})
    /\ Len(chain) > 0
    /\ files \subseteq Issued
    /\ torn \subseteq Issued
    /\ up \in BOOLEAN
    /\ crashes \in 0 .. MaxCrashes

(***************************************************************************)
(* The primary.  All blocks are over but the one BlockProposal is waiting  *)
(* for, if it is.                                                          *)
(***************************************************************************)
Settled == IF run = "call" THEN Len(issued) - 1 ELSE Len(issued)

\* The ledger when the first transactions of block s have been executed.
Partly(s, i) == UpdateBlance(After(s), SubSeq(issued[s + 1].txs, 1, i))

\* How far the thread c that commits block s has come shows in the balances b.
Underway(s, c, b) ==
    LET p == Partly(s, c.tx - 1)
        tx == issued[s + 1].txs[c.tx]
    IN  /\ c.at = "none" => b = After(s)
        /\ c.at \in {"from", "to", "debit"} => b = p
        /\ c.at \in {"to", "debit"} => c.from = p[tx.from]
        /\ c.at \in {"debit", "credit"} => c.to = p[tx.to]
        /\ c.at = "credit" => b = [p EXCEPT ![tx.from] = Written(Scale * @ - tx.value)]
        /\ c.at \in {"append"} \cup Appended => b = After(s + 1)

\* The chain of the first k blocks.
IsChain(q, k) ==
    /\ Len(q) = k + 1
    /\ \A i \in 1 .. k + 1 : q[i] = PrevHash(i - 1)

PrimarySteps ==
    primary =>
        /\ Settled \in Nat
        /\ \A s \in 0 .. Settled - 1 : commit[s].at = "over"
        /\ run = "pack" => TryPublishCond /\ Len(issued) < MaxSeq
        /\ run # "call" =>
              /\ balance = After(Len(issued))
              /\ IsChain(chain, Len(issued))
              /\ files = Issued
        /\ run = "call" =>
              /\ Underway(Settled, commit[Settled], balance)
              /\ IsChain(chain, IF commit[Settled].at \in Appended THEN Len(issued) ELSE Settled)
              /\ files = IF commit[Settled].at = "over" THEN Issued ELSE 0 .. Settled - 1

(***************************************************************************)
(* A check of a block that is not being committed has seen the ledger      *)
(* before the block and nothing else.                                      *)
(***************************************************************************)
Paid(s, i) ==
    LET tx == issued[s + 1].txs[i]
    IN  Debits(issued[s + 1].txs, i, tx.from) <= Scale * After(s)[tx.from]

CheckOf(s, c) ==
    LET spent(a) == Debits(issued[s + 1].txs, c.tx - 1, a)
    IN  /\ c.at = "txs" =>
              /\ \A i \in 1 .. c.tx - 1 : Paid(s, i)
              /\ \A a \in Accounts :
                    IF a \in DOMAIN c.temp THEN c.temp[a] = Scale * After(s)[a] - spent(a)
                                           ELSE spent(a) = 0
        /\ c.at \in {"yes", "no"} => (c.at = "yes" <=> Payable(s))

CheckSteps ==
    primary => \A s \in Issued : commit[s].at = "none" => CheckOf(s, check[s])

(***************************************************************************)
(* A block in the chain has its file, or the thread that appended it is    *)
(* about to write it.                                                      *)
(***************************************************************************)
ChainHasFiles ==
    \A i \in 2 .. Len(chain) :
        /\ chain[i] \in Issued
        /\ chain[i] \in files \/ commit[chain[i]].at \in {"remove", "open", "close"}

Inv == Typed /\ PrimarySteps /\ CheckSteps /\ ChainHasFiles

-----------------------------------------------------------------------------
(***************************************************************************)
(* The ledger of the blocks.                                               *)
(***************************************************************************)
\* Values are numbers, addresses have a balance, and there are balances at first.
LEMMA Given ==
  /\ \A tx \in Txs : Executable(tx) /\ tx.value \in Int
  /\ \A tx \in Txs : tx.from \in Accounts /\ tx.to \in Accounts
  /\ Stamped(Txs)
  /\ InitBalance \in Balances
  /\ MaxSeq \in Nat /\ MaxTxPerBlock \in Nat /\ MinTxPerBlock \in Nat \ {0} /\ MaxCrashes \in Nat
  /\ Genesis \notin Nat
BY CoinNodeAssumption, TxsAssumption DEF Executable, Stamped, Balances

\* The ledgers on the way when blocks are executed.
IsHistory(h, q) ==
    /\ h \in [0 .. Len(q) -> Balances]
    /\ h[0] = InitBalance
    /\ h[Len(q)] = Executed(q)
    /\ \A k \in 1 .. Len(q) : h[k] = UpdateBlance(h[k - 1], q[k].txs)

\* Executed goes through the blocks one by one.
LEMMA ExecutedFold ==
  ASSUME NEW q \in Seq(Blocks)
  PROVE  \E h : IsHistory(h, q)
<1> DEFINE n == Len(q)
           step == [k \in 1 .. n |-> [x \in Balances |-> UpdateBlance(x, q[k].txs)]]
           Fold(h) == h = [s \in SUBSET DOMAIN q |->
                             IF s = {} THEN InitBalance
                             ELSE UpdateBlance(h[s \ {Max(s)}], q[Max(s)].txs)]
<1>1. /\ n \in Nat /\ DOMAIN q = 1 .. n /\ InitBalance \in Balances
      /\ \A k \in 1 .. n : q[k].txs \in Seq(Txs)
  <2>1. \A k \in 1 .. n : q[k] \in Blocks
    OBVIOUS
  <2>2. \A b \in Blocks : b.txs \in Seq(Txs)
    BY DEF Blocks
  <2> QED
    BY <2>1, <2>2, Given
<1>2. ASSUME NEW x \in Balances, NEW txs \in Seq(Txs) PROVE UpdateBlance(x, txs) \in Balances
  BY Given, UpdateBlanceTyped
<1>3. step \in [1 .. n -> [Balances -> Balances]]
  BY <1>1, <1>2
<1>4. \A k \in 1 .. n, x \in Balances : step[k][x] = UpdateBlance(x, q[k].txs)
  OBVIOUS
<1> HIDE DEF step
<1>5. \A g \in [SUBSET (1 .. n) -> Balances] : \A s \in SUBSET (1 .. n) :
         s # {} => step[Max(s)][g[s \ {Max(s)}]] = UpdateBlance(g[s \ {Max(s)}], q[Max(s)].txs)
  <2> SUFFICES ASSUME NEW g \in [SUBSET (1 .. n) -> Balances],
                      NEW s \in SUBSET (1 .. n), s # {}
               PROVE  step[Max(s)][g[s \ {Max(s)}]] = UpdateBlance(g[s \ {Max(s)}], q[Max(s)].txs)
    OBVIOUS
  <2>1. Max(s) \in 1 .. n
    BY <1>1, MaxIs
  <2>2. g[s \ {Max(s)}] \in Balances
    OBVIOUS
  <2> QED
    BY <1>4, <2>1, <2>2
<1>6. PICK g : IsIteration(g, Balances, InitBalance, n, step)
  <2> HIDE DEF n, Fold
  <2> QED
    BY <1>1, <1>3, Iteration
<1>7. \E h : Fold(h)
  <2>1. /\ g \in [SUBSET (1 .. n) -> Balances]
        /\ \A s \in SUBSET (1 .. n) : g[s] = IF s = {} THEN InitBalance ELSE step[Max(s)][g[s \ {Max(s)}]]
    BY <1>6 DEF IsIteration
  <2>2. \A s \in SUBSET DOMAIN q :
           g[s] = IF s = {} THEN InitBalance ELSE UpdateBlance(g[s \ {Max(s)}], q[Max(s)].txs)
    BY <1>1, <1>5, <2>1
  <2>3. Fold(g)
    BY <1>1, <2>1, <2>2
  <2> QED
    BY <2>3
<1> DEFINE c == CHOOSE h : Fold(h)
<1>8. Executed(q) = c[1 .. n]
  BY <1>1, Zenon DEF Executed, FoldLeft, MapThenFoldSet
<1>9. Fold(c)
  BY <1>7, Zenon
<1> HIDE DEF c
<1>10. /\ c[{}] = InitBalance
       /\ \A s \in SUBSET (1 .. n) : s # {} => c[s] = UpdateBlance(c[s \ {Max(s)}], q[Max(s)].txs)
  BY <1>1, <1>9
<1>11. FollowsSteps(c, Balances, InitBalance, n, step)
  <2>1. \A s \in SUBSET (1 .. n) : s # {} => Max(s) \in 1 .. n
    BY <1>1, MaxIs
  <2> QED
    BY <1>4, <1>10, <2>1 DEF FollowsSteps
<1>12. PICK h : IsTrace(h, Balances, InitBalance, n, step) /\ h[n] = c[1 .. n]
  <2>1. n \in Nat /\ InitBalance \in Balances
    BY <1>1
  <2> HIDE DEF n, Fold
  <2>2. ComesTo(Balances, InitBalance, n, step, c[1 .. n])
    BY <1>3, <1>11, <2>1, Unrolled
  <2> QED
    BY <2>2 DEF ComesTo
<1>13. /\ h \in [0 .. n -> Balances]
       /\ h[0] = InitBalance
       /\ \A k \in 1 .. n : h[k] = step[k][h[k - 1]]
  BY <1>12 DEF IsTrace
<1>14. \A k \in 1 .. n : h[k] = UpdateBlance(h[k - 1], q[k].txs)
  <2>1. \A k \in 1 .. n : h[k - 1] \in Balances
    BY <1>1, <1>13
  <2> QED
    BY <1>4, <1>13, <2>1
<1> QED
  BY <1>8, <1>12, <1>13, <1>14 DEF IsHistory

\* The ledger after the first k of the blocks q.
LedgerAfter(q, k) == Executed(SubSeq(q, 1, k))

\* What it is, from the ledger after one block less.
LEMMA LedgerIs ==
  ASSUME NEW q \in Seq(Blocks)
  PROVE  /\ LedgerAfter(q, 0) = InitBalance
         /\ \A k \in 0 .. Len(q) : LedgerAfter(q, k) \in Balances
         /\ \A k \in 1 .. Len(q) : LedgerAfter(q, k) = UpdateBlance(LedgerAfter(q, k - 1), q[k].txs)
<1>1. ASSUME NEW k \in 0 .. Len(q)
      PROVE  \E h : /\ h \in [0 .. k -> Balances]
                    /\ h[0] = InitBalance
                    /\ h[k] = LedgerAfter(q, k)
                    /\ \A i \in 1 .. k : h[i] = UpdateBlance(h[i - 1], q[i].txs)
  <2> DEFINE r == SubSeq(q, 1, k)
  <2>1. r \in Seq(Blocks) /\ Len(r) = k /\ \A i \in 1 .. k : r[i] = q[i]
    BY PrefixOf
  <2>2. LedgerAfter(q, k) = Executed(r)
    BY DEF LedgerAfter
  <2> HIDE DEF r
  <2>3. PICK h : IsHistory(h, r)
    BY <2>1, ExecutedFold
  <2> QED
    BY <2>1, <2>2, <2>3 DEF IsHistory
<1>2. LedgerAfter(q, 0) = InitBalance
  <2>1. 0 \in 0 .. Len(q)
    OBVIOUS
  <2> QED
    BY <1>1, <2>1
<1>3. ASSUME NEW k \in 0 .. Len(q) PROVE LedgerAfter(q, k) \in Balances
  BY <1>1
<1>4. ASSUME NEW k \in 1 .. Len(q)
      PROVE  LedgerAfter(q, k) = UpdateBlance(LedgerAfter(q, k - 1), q[k].txs)
  <2>1. k \in 0 .. Len(q) /\ k - 1 \in 0 .. Len(q) /\ k - 1 \in Nat /\ k \in 1 .. k
    OBVIOUS
  <2>2. PICK h : /\ h \in [0 .. k -> Balances]
                 /\ h[0] = InitBalance
                 /\ h[k] = LedgerAfter(q, k)
                 /\ \A i \in 1 .. k : h[i] = UpdateBlance(h[i - 1], q[i].txs)
    BY <1>1, <2>1
  <2>3. PICK g : /\ g \in [0 .. k - 1 -> Balances]
                 /\ g[0] = InitBalance
                 /\ g[k - 1] = LedgerAfter(q, k - 1)
                 /\ \A i \in 1 .. k - 1 : g[i] = UpdateBlance(g[i - 1], q[i].txs)
    BY <1>1, <2>1
  <2> DEFINE E == {i \in 0 .. k - 1 : g[i] = h[i]}
             id == [i \in 0 .. k - 1 |-> i]
  <2>4. id[0] \in E /\ \A i \in 1 .. k - 1 : id[i - 1] \in E => id[i] \in E
    <3>1. \A i \in 1 .. k - 1 : i - 1 \in 0 .. k - 1 /\ i \in 0 .. k - 1 /\ i \in 1 .. k
      BY <2>1
    <3> QED
      BY <2>1, <2>2, <2>3, <3>1
  <2>5. \A i \in 0 .. k - 1 : id[i] \in E
    <3> HIDE DEF E, id
    <3> QED
      BY <2>1, <2>4, Along
  <2>6. g[k - 1] = h[k - 1]
    BY <2>1, <2>5
  <2> QED
    BY <2>1, <2>2, <2>3, <2>6
<1> QED
  BY <1>2, <1>3, <1>4

\* A block that is appended does not change the ledgers before it.
LEMMA LedgerKept ==
  ASSUME NEW q \in Seq(Blocks), NEW b \in Blocks
  PROVE  \A k \in 0 .. Len(q) : LedgerAfter(Append(q, b), k) = LedgerAfter(q, k)
<1> TAKE k \in 0 .. Len(q)
<1> DEFINE r == Append(q, b)
<1>1. /\ r \in Seq(Blocks) /\ Len(r) = Len(q) + 1 /\ k \in 0 .. Len(r) /\ Len(q) \in Nat
      /\ \A i \in 1 .. Len(q) : r[i] = q[i]
  BY AppendProperties, LenProperties
<1> HIDE DEF r
<1>2. /\ SubSeq(r, 1, k) \in Seq(Blocks) /\ SubSeq(q, 1, k) \in Seq(Blocks)
      /\ Len(SubSeq(r, 1, k)) = k /\ Len(SubSeq(q, 1, k)) = k
      /\ \A i \in 1 .. k : SubSeq(r, 1, k)[i] = r[i] /\ SubSeq(q, 1, k)[i] = q[i]
  BY <1>1, PrefixOf
<1>3. \A i \in 1 .. k : i \in 1 .. Len(q)
  BY <1>1
<1>4. SubSeq(r, 1, k) = SubSeq(q, 1, k)
  BY <1>1, <1>2, <1>3, SeqEqual
<1> QED
  BY <1>4 DEF LedgerAfter, r

-----------------------------------------------------------------------------
(***************************************************************************)
(* What the invariant says of a block, a thread and the ledger.            *)
(***************************************************************************)
\* A block that was proposed.
LEMMA BlockIs ==
  ASSUME Typed
  PROVE  /\ Len(issued) \in Nat
         /\ Issued \subseteq Seqs
         /\ \A s \in Issued :
               /\ s \in Nat /\ s < Len(issued) /\ s + 1 \in 1 .. Len(issued)
               /\ issued[s + 1] \in Blocks
               /\ issued[s + 1].txs \in Seq(Txs)
               /\ Len(issued[s + 1].txs) \in Nat \ {0}
               /\ issued[s + 1].prev = PrevHash(s)
         /\ \A s \in Seqs : s < Len(issued) => s \in Issued
<1>1. issued \in Seq(Blocks) /\ Len(issued) <= MaxSeq /\ Len(issued) \in Nat /\ MaxSeq \in Nat
  BY Given DEF Typed, BlocksTyped
<1>2. \A s \in Issued : s \in Nat /\ s < Len(issued) /\ s + 1 \in 1 .. Len(issued) /\ s \in Seqs
  BY <1>1 DEF Issued, Seqs
<1>3. \A s \in Issued : issued[s + 1] \in Blocks
  BY <1>1, <1>2, ElementOfSeq
<1>4. \A s \in Issued : issued[s + 1].txs \in Seq(Txs)
  BY <1>3 DEF Blocks
<1>5. \A s \in Issued : Len(issued[s + 1].txs) \in Nat \ {0} /\ issued[s + 1].prev = PrevHash(s)
  <2>1. \A s \in Issued : Len(issued[s + 1].txs) > 0 /\ issued[s + 1].prev = PrevHash(s)
    BY DEF Typed, BlocksTyped
  <2>2. \A s \in Issued : Len(issued[s + 1].txs) \in Nat
    BY <1>4
  <2> QED
    BY <2>1, <2>2
<1>6. \A s \in Seqs : s < Len(issued) => s \in Issued
  BY <1>1 DEF Issued, Seqs
<1> QED
  BY <1>1, <1>2, <1>3, <1>4, <1>5, <1>6

\* The ledger, block by block and transaction by transaction.
LEMMA AfterIs ==
  ASSUME Typed
  PROVE  /\ After(0) = InitBalance
         /\ \A k : After(k) = LedgerAfter(issued, k)
         /\ \A k \in 0 .. Len(issued) : After(k) \in Balances
         /\ \A s \in Issued :
               /\ After(s) \in Balances
               /\ Partly(s, 0) = After(s)
               /\ Partly(s, Len(issued[s + 1].txs)) = After(s + 1)
               /\ \A i \in 0 .. Len(issued[s + 1].txs) : Partly(s, i) \in Balances
               /\ \A i \in 1 .. Len(issued[s + 1].txs) :
                     Partly(s, i) = Transfer(Partly(s, i - 1), issued[s + 1].txs[i])
<1>1. issued \in Seq(Blocks)
  BY DEF Typed, BlocksTyped
<1>2. \A k : After(k) = LedgerAfter(issued, k)
  BY DEF After, LedgerAfter
<1>3. /\ After(0) = InitBalance
      /\ \A k \in 0 .. Len(issued) : After(k) \in Balances
      /\ \A k \in 1 .. Len(issued) : After(k) = UpdateBlance(After(k - 1), issued[k].txs)
  BY <1>1, <1>2, LedgerIs
<1>4. ASSUME NEW s \in Issued
      PROVE  /\ After(s) \in Balances
             /\ Partly(s, 0) = After(s)
             /\ Partly(s, Len(issued[s + 1].txs)) = After(s + 1)
             /\ \A i \in 0 .. Len(issued[s + 1].txs) : Partly(s, i) \in Balances
             /\ \A i \in 1 .. Len(issued[s + 1].txs) :
                   Partly(s, i) = Transfer(Partly(s, i - 1), issued[s + 1].txs[i])
  <2>1. s \in 0 .. Len(issued) /\ s + 1 \in 1 .. Len(issued) /\ (s + 1) - 1 = s
    BY BlockIs
  <2>2. issued[s + 1].txs \in Seq(Txs)
    BY BlockIs
  <2>3. After(s) \in Balances /\ After(s + 1) = UpdateBlance(After(s), issued[s + 1].txs)
    BY <1>3, <2>1
  <2>4. \A tx \in Txs : Executable(tx) /\ tx.value \in Int
    BY Given
  <2> DEFINE txs == issued[s + 1].txs
             b == After(s)
  <2>5. /\ UpdateBlance(b, SubSeq(txs, 1, 0)) = b
        /\ UpdateBlance(b, SubSeq(txs, 1, Len(txs))) = UpdateBlance(b, txs)
        /\ \A k \in 0 .. Len(txs) : UpdateBlance(b, SubSeq(txs, 1, k)) \in Balances
        /\ \A k \in 1 .. Len(txs) :
              UpdateBlance(b, SubSeq(txs, 1, k))
                = Transfer(UpdateBlance(b, SubSeq(txs, 1, k - 1)), txs[k])
    <3> HIDE DEF txs, b
    <3>1. txs \in Seq(Txs) /\ b \in Balances
      BY <2>2, <2>3 DEF txs, b
    <3> QED
      BY <2>4, <3>1, UpdateBlanceByOne
  <2>6. \A i : Partly(s, i) = UpdateBlance(b, SubSeq(txs, 1, i))
    BY DEF Partly
  <2> QED
    BY <2>3, <2>5, <2>6
<1> QED
  BY <1>2, <1>3, <1>4

\* The transaction a thread is at.
LEMMA CurrentIs ==
  ASSUME Typed, NEW s \in Issued, NEW i \in 1 .. Len(issued[s + 1].txs)
  PROVE  /\ issued[s + 1].txs[i] \in Txs
         /\ issued[s + 1].txs[i].from \in Accounts
         /\ issued[s + 1].txs[i].to \in Accounts
         /\ issued[s + 1].txs[i].value \in Int
         /\ Executable(issued[s + 1].txs[i])
<1>1. issued[s + 1].txs \in Seq(Txs)
  BY BlockIs
<1> DEFINE tx == issued[s + 1].txs[i]
<1>2. tx \in Txs
  BY <1>1, ElementOfSeq
<1> HIDE DEF tx
<1>3. /\ tx.from \in Accounts /\ tx.to \in Accounts
      /\ tx.value \in Int /\ Executable(tx)
  BY <1>2, Given
<1> QED
  BY <1>2, <1>3 DEF tx

\* At the primary a block that is not over is the last, and BlockProposal is
\* waiting for it.
LEMMA TheOne ==
  ASSUME Inv, primary, NEW s \in Issued, commit[s].at # "over"
  PROVE  /\ run = "call" /\ s = Settled /\ s = Len(issued) - 1
         /\ \A r \in Issued \ {s} : commit[r].at = "over"
         /\ Underway(s, commit[s], balance)
         /\ IsChain(chain, IF commit[s].at \in Appended THEN Len(issued) ELSE s)
         /\ files = 0 .. s - 1
<1>1. Typed /\ PrimarySteps
  BY DEF Inv
<1>2. Len(issued) \in Nat /\ s \in Nat /\ s < Len(issued)
  BY <1>1, BlockIs
<1>3. Settled \in Nat /\ \A r \in 0 .. Settled - 1 : commit[r].at = "over"
  BY <1>1 DEF PrimarySteps
<1>4. s \notin 0 .. Settled - 1
  BY <1>3
<1>5. run = "call" /\ s = Settled /\ s = Len(issued) - 1
  BY <1>2, <1>3, <1>4 DEF Settled
<1>6. \A r \in Issued \ {s} : r \in 0 .. Settled - 1
  BY <1>2, <1>5 DEF Issued
<1>7. \A r \in Issued \ {s} : commit[r].at = "over"
  BY <1>3, <1>6
<1>8. /\ Underway(Settled, commit[Settled], balance)
      /\ IsChain(chain, IF commit[Settled].at \in Appended THEN Len(issued) ELSE Settled)
      /\ files = IF commit[Settled].at = "over" THEN Issued ELSE 0 .. Settled - 1
  BY <1>1, <1>5 DEF PrimarySteps
<1>9. files = 0 .. s - 1
  BY <1>5, <1>8
<1> QED
  BY <1>5, <1>7, <1>8, <1>9

-----------------------------------------------------------------------------
(***************************************************************************)
(* The initial state, and the steps of the pool and of Run.                *)
(***************************************************************************)
\* Init establishes the invariant.
LEMMA InvInit == Init => Inv
<1> SUFFICES ASSUME Init PROVE Inv
  OBVIOUS
<1> USE DEF Init
<1>1. Len(issued) = 0 /\ Issued = {}
  BY DEF Issued
<1>2. <<>> \in Notes
  <2>1. <<>> \in [{} -> Int]
    OBVIOUS
  <2> QED
    BY <2>1 DEF Notes
<1>3. Typed
  <2>1. BlocksTyped
    BY <1>1, Given DEF BlocksTyped
  <2>2. ThreadsTyped
    BY <1>1, <1>2 DEF ThreadsTyped, CheckLabels, Labels, NoCheck, NoCommit
  <2>3. IsPool(pool)
    BY FS_EmptySet DEF IsPool
  <2>4. chain \in Seq(Seqs \cup {Genesis}) /\ Len(chain) > 0
    OBVIOUS
  <2> QED
    BY <1>1, <2>1, <2>2, <2>3, <2>4, Given DEF Typed
<1>4. PrimarySteps
  <2>1. After(0) = InitBalance
    BY <1>3, AfterIs
  <2>2. IsChain(chain, 0)
    BY DEF IsChain, PrevHash
  <2> QED
    BY <1>1, <2>1, <2>2 DEF PrimarySteps, Settled
<1>5. CheckSteps /\ ChainHasFiles
  BY <1>1 DEF CheckSteps, ChainHasFiles
<1> QED
  BY <1>3, <1>4, <1>5 DEF Inv

\* What is defined by the blocks stays when they do.
LEMMA SameBlocks ==
  ASSUME issued' = issued
  PROVE  /\ Issued' = Issued
         /\ \A k : After(k)' = After(k)
         /\ \A s, i : Partly(s, i)' = Partly(s, i)
         /\ \A s, i : Paid(s, i)' <=> Paid(s, i)
         /\ \A s : Payable(s)' <=> Payable(s)
         /\ \A s, c : CheckOf(s, c)' <=> CheckOf(s, c)
         /\ \A s, c, b : Underway(s, c, b)' <=> Underway(s, c, b)
<1>1. \A k : After(k)' = After(k)
  BY DEF After
<1>2. Issued' = Issued
  BY DEF Issued
<1>3. \A s, i : Partly(s, i)' = Partly(s, i)
  BY <1>1 DEF Partly
<1>4. \A s, i : Paid(s, i)' <=> Paid(s, i)
  BY <1>1 DEF Paid
<1>5. \A s : Payable(s)' <=> Payable(s)
  BY <1>1 DEF Payable, PrevHash
<1>6. \A s, c : CheckOf(s, c)' <=> CheckOf(s, c)
  BY <1>1, <1>4, <1>5 DEF CheckOf
<1>7. \A s, c, b : Underway(s, c, b)' <=> Underway(s, c, b)
  <2> SUFFICES ASSUME NEW s, NEW c, NEW b
               PROVE  Underway(s, c, b)' <=> Underway(s, c, b)
    OBVIOUS
  <2>1. /\ Partly(s, c.tx - 1)' = Partly(s, c.tx - 1)
        /\ After(s)' = After(s) /\ After(s + 1)' = After(s + 1)
    BY <1>1, <1>3
  <2> QED
    BY <2>1 DEF Underway
<1> QED
  BY <1>1, <1>2, <1>3, <1>4, <1>5, <1>6, <1>7

\* Steps that change nothing but the pool, what is accepted and up.
LEMMA PoolStep ==
  ASSUME Inv,
         UNCHANGED <<primary, issued, run, check, commit, balance, chain, files, torn, crashes>>,
         accepted \subseteq accepted', accepted' \subseteq Txs, pool' \subseteq accepted',
         IsPool(pool'), up' \in BOOLEAN, run = "pack" => pool \subseteq pool'
  PROVE  Inv'
<1>1. Typed /\ PrimarySteps /\ CheckSteps /\ ChainHasFiles
  BY DEF Inv
<1>2. /\ Issued' = Issued
      /\ \A k : After(k)' = After(k)
      /\ \A s, i : Partly(s, i)' = Partly(s, i)
      /\ \A s, c : CheckOf(s, c)' <=> CheckOf(s, c)
  BY SameBlocks
<1>3. BlocksTyped'
  <2>1. \A s \in Issued : issued[s + 1].txs \in Seq(accepted')
    <3>1. \A s \in Issued : issued[s + 1].txs \in Seq(accepted)
      BY <1>1 DEF Typed, BlocksTyped
    <3> QED
      BY <3>1, SeqMonotonic
  <2>2. \A s : PrevHash(s)' = PrevHash(s)
    BY DEF PrevHash
  <2> QED
    BY <1>1, <1>2, <2>1, <2>2 DEF Typed, BlocksTyped
<1>4. ThreadsTyped'
  BY <1>1, <1>2 DEF Typed, ThreadsTyped
<1>5. Typed'
  BY <1>1, <1>2, <1>3, <1>4 DEF Typed
<1>6. PrimarySteps'
  <2>1. /\ Settled' = Settled
        /\ Underway(Settled, commit[Settled], balance)' <=>
              Underway(Settled, commit[Settled], balance)
    <3>1. \A s, c, b : Underway(s, c, b)' <=> Underway(s, c, b)
      BY SameBlocks
    <3>2. Settled' = Settled
      BY DEF Settled
    <3> QED
      BY <3>1, <3>2
  <2>2. \A k : IsChain(chain, k)' <=> IsChain(chain, k)
    BY DEF IsChain, PrevHash
  <2>3. primary /\ run = "pack" => TryPublishCond'
    <3> SUFFICES ASSUME primary, run = "pack" PROVE TryPublishCond'
      OBVIOUS
    <3>1. pool \subseteq pool' /\ IsFiniteSet(pool') /\ IsFiniteSet(pool)
      BY <1>1 DEF Typed, IsPool
    <3>2. /\ Cardinality(pool) <= Cardinality(pool')
          /\ Cardinality(pool) \in Nat /\ Cardinality(pool') \in Nat
      BY <3>1, FS_Subset, FS_CardinalityType
    <3>3. Cardinality(pool) >= MinTxPerBlock
      BY <1>1 DEF PrimarySteps, TryPublishCond
    <3> QED
      BY <3>2, <3>3, Given DEF TryPublishCond
  <2> QED
    BY <1>1, <1>2, <2>1, <2>2, <2>3 DEF PrimarySteps
<1>7. CheckSteps'
  BY <1>1, <1>2 DEF CheckSteps
<1>8. ChainHasFiles'
  BY <1>1, <1>2 DEF ChainHasFiles
<1> QED
  BY <1>5, <1>6, <1>7, <1>8 DEF Inv

\* AddTransx keeps the invariant.
LEMMA AddTransxInv == ASSUME Inv, NEW tx \in Txs, AddTransx(tx) PROVE Inv'
<1>1. Typed
  BY DEF Inv
<1>2. pool \in SUBSET Txs /\ IsPool(pool) /\ pool \subseteq accepted /\ accepted \subseteq Txs
  BY <1>1 DEF Typed
<1>3. /\ accepted' = accepted \cup {tx}
      /\ pool' = PoolInsert(pool, tx) \/ pool' = pool
      /\ UNCHANGED <<primary, issued, run, check, commit, balance, chain, files, torn, up,
                     crashes>>
  BY DEF AddTransx
<1>4. IsPool(pool')
  BY <1>2, <1>3, Given, PoolsArePools
<1>5. pool \subseteq pool' /\ pool' \subseteq accepted'
  BY <1>2, <1>3 DEF PoolInsert
<1>6. up \in BOOLEAN
  BY <1>1 DEF Typed
<1> QED
  BY <1>2, <1>3, <1>4, <1>5, <1>6, PoolStep

\* Steps of Run that are not about a block.
LEMMA RunStep ==
  ASSUME Inv,
         UNCHANGED <<primary, issued, accepted, pool, check, commit, balance, chain,
                     files, torn, up, crashes>>,
         primary, run' \in {"sleep", "pack", "call"}, PrimarySteps'
  PROVE  Inv'
<1>1. Typed /\ CheckSteps /\ ChainHasFiles
  BY DEF Inv
<1>2. /\ Issued' = Issued
      /\ \A s, c : CheckOf(s, c)' <=> CheckOf(s, c)
  BY SameBlocks
<1>3. BlocksTyped' /\ ThreadsTyped'
  <2>1. \A s : PrevHash(s)' = PrevHash(s)
    BY DEF PrevHash
  <2> QED
    BY <1>1, <1>2, <2>1 DEF Typed, BlocksTyped, ThreadsTyped
<1>4. Typed'
  BY <1>1, <1>2, <1>3 DEF Typed
<1>5. CheckSteps' /\ ChainHasFiles'
  BY <1>1, <1>2 DEF CheckSteps, ChainHasFiles
<1> QED
  BY <1>4, <1>5 DEF Inv

\* RunTest keeps the invariant.
LEMMA RunTestInv == ASSUME Inv, RunTest PROVE Inv'
<1>1. Typed /\ PrimarySteps
  BY DEF Inv
<1>2. /\ primary /\ run = "sleep" /\ run' = "pack" /\ TryPublishCond /\ Len(issued) < MaxSeq
      /\ UNCHANGED <<primary, issued, accepted, pool, check, commit, balance, chain,
                     files, torn, up, crashes>>
  BY DEF RunTest
<1>3. /\ Issued' = Issued
      /\ \A k : After(k)' = After(k)
  BY <1>2, SameBlocks
<1>4. \A k : IsChain(chain, k)' <=> IsChain(chain, k)
  BY <1>2 DEF IsChain, PrevHash
<1>5. TryPublishCond'
  BY <1>2 DEF TryPublishCond
<1>6. PrimarySteps'
  BY <1>1, <1>2, <1>3, <1>4, <1>5 DEF PrimarySteps, Settled
<1> QED
  BY <1>2, <1>6, RunStep

\* BlockProposalReturn keeps the invariant: the last block is over now too.
LEMMA BlockProposalReturnInv == ASSUME Inv, BlockProposalReturn PROVE Inv'
<1>1. Typed /\ PrimarySteps
  BY DEF Inv
<1>2. /\ run = "call" /\ run' = "sleep" /\ commit[Len(issued) - 1].at = "over"
      /\ UNCHANGED <<primary, issued, accepted, pool, check, commit, balance, chain,
                     files, torn, up, crashes>>
  BY DEF BlockProposalReturn
<1>3. primary
  BY <1>1, <1>2 DEF Typed
<1>4. Len(issued) \in Nat /\ Settled = Len(issued) - 1 /\ Settled \in Nat /\ Settled + 1 = Len(issued)
  BY <1>1, <1>2, <1>3, BlockIs DEF PrimarySteps, Settled
<1>5. /\ \A s \in 0 .. Settled - 1 : commit[s].at = "over"
      /\ Underway(Settled, commit[Settled], balance)
      /\ IsChain(chain, IF commit[Settled].at \in Appended THEN Len(issued) ELSE Settled)
      /\ files = IF commit[Settled].at = "over" THEN Issued ELSE 0 .. Settled - 1
  BY <1>1, <1>2, <1>3 DEF PrimarySteps
<1>6. commit[Settled].at = "over"
  BY <1>2, <1>4
<1>7. balance = After(Len(issued)) /\ IsChain(chain, Len(issued)) /\ files = Issued
  BY <1>4, <1>5, <1>6 DEF Underway, Appended
<1>8. \A s \in 0 .. Len(issued) - 1 : commit[s].at = "over"
  <2>1. \A s \in 0 .. Len(issued) - 1 : s \in 0 .. Settled - 1 \/ s = Settled
    BY <1>4
  <2> QED
    BY <1>5, <1>6, <2>1
<1>9. /\ Issued' = Issued
      /\ After(Len(issued))' = After(Len(issued))
      /\ IsChain(chain, Len(issued))' <=> IsChain(chain, Len(issued))
  BY <1>2, SameBlocks DEF IsChain, PrevHash
<1>10. Settled' = Len(issued)
  BY <1>2 DEF Settled
<1>11. PrimarySteps'
  BY <1>2, <1>4, <1>7, <1>8, <1>9, <1>10 DEF PrimarySteps
<1> QED
  BY <1>2, <1>3, <1>11, RunStep

\* A block more.  Nobody is at it yet, and the ledgers before it are the same.
LEMMA BlockStep ==
  ASSUME Inv, NEW b \in Blocks, NEW n, n = Len(issued),
         n < MaxSeq, issued' = Append(issued, b),
         b.prev = PrevHash(n), Len(b.txs) > 0, b.txs \in Seq(accepted'),
         accepted \subseteq accepted', accepted' \subseteq Txs,
         UNCHANGED <<primary, pool, check, commit, balance, chain, files, torn, up, crashes>>,
         \/ primary /\ run = "pack" /\ run' = "call"
         \/ ~ primary /\ run' = run
  PROVE  Inv'
<1>1. Typed /\ PrimarySteps /\ CheckSteps /\ ChainHasFiles
  BY DEF Inv
<1>2. issued \in Seq(Blocks) /\ n \in Nat /\ n \in Seqs /\ n \notin Issued
  BY <1>1, Given DEF Typed, BlocksTyped, Seqs, Issued
<1>3. /\ issued' \in Seq(Blocks)
      /\ Len(issued') = n + 1
      /\ \A i \in 1 .. n : issued'[i] = issued[i]
      /\ issued'[n + 1] = b
  BY <1>2, AppendProperties, LenProperties
<1>4. /\ Issued' = 0 .. n
      /\ \A s \in Issued : s \in 0 .. n /\ s \in Nat /\ s \in 0 .. Len(issued) /\ issued'[s + 1] = issued[s + 1]
      /\ \A s \in 0 .. n : s \in Issued \/ s = n
  BY <1>1, <1>2, <1>3, BlockIs DEF Issued
<1>5. \A k \in 0 .. n : After(k)' = After(k)
  <2>1. \A k \in 0 .. n : LedgerAfter(Append(issued, b), k) = LedgerAfter(issued, k)
    BY <1>2, LedgerKept
  <2> QED
    BY <2>1 DEF After, LedgerAfter
<1>6. \A s : PrevHash(s)' = PrevHash(s)
  BY DEF PrevHash
<1>7. BlocksTyped'
  <2>1. ASSUME NEW s \in Issued'
        PROVE  /\ Len(issued'[s + 1].txs) > 0
               /\ issued'[s + 1].txs \in Seq(accepted')
               /\ issued'[s + 1].prev = PrevHash(s)
    <3>1. CASE s = n
      BY <1>3, <3>1
    <3>2. CASE s # n
      <4>1. s \in Issued /\ issued'[s + 1] = issued[s + 1]
        BY <1>4, <3>2
      <4>2. /\ Len(issued[s + 1].txs) > 0 /\ issued[s + 1].txs \in Seq(accepted)
            /\ issued[s + 1].prev = PrevHash(s)
        BY <1>1, <4>1 DEF Typed, BlocksTyped
      <4> QED
        BY <4>1, <4>2, SeqMonotonic
    <3> QED
      BY <3>1, <3>2
  <2>2. Len(issued') <= MaxSeq
    BY <1>2, <1>3, Given
  <2> QED
    BY <1>3, <1>6, <2>1, <2>2 DEF BlocksTyped
<1>8. check[n].at = "none" /\ commit[n].at = "none"
  BY <1>1, <1>2 DEF Typed, ThreadsTyped
<1>9. ThreadsTyped'
  <2>1. \A s \in Seqs \ Issued' : check[s].at = "none" /\ commit[s].at = "none"
    BY <1>1, <1>4 DEF Typed, ThreadsTyped
  <2>2. ASSUME NEW s \in Issued'
        PROVE  /\ check[s].at = "txs" => check[s].tx \in 1 .. Len(issued'[s + 1].txs)
               /\ commit[s].at \in Updating => commit[s].tx \in 1 .. Len(issued'[s + 1].txs)
    <3>1. CASE s = n
      BY <1>8, <3>1 DEF Updating
    <3>2. CASE s # n
      <4>1. s \in Issued /\ issued'[s + 1] = issued[s + 1]
        BY <1>4, <3>2
      <4> QED
        BY <1>1, <4>1 DEF Typed, ThreadsTyped
    <3> QED
      BY <3>1, <3>2
  <2> QED
    BY <1>1, <2>1, <2>2 DEF Typed, ThreadsTyped
<1>10. Typed'
  <2>1. files \subseteq Issued' /\ torn \subseteq Issued'
    BY <1>1, <1>4 DEF Typed
  <2>2. run' \in {"sleep", "pack", "call"} /\ (~ primary => run' = "sleep")
    BY <1>1 DEF Typed
  <2> QED
    BY <1>1, <1>7, <1>9, <2>1, <2>2 DEF Typed
<1>11. PrimarySteps'
  <2> SUFFICES ASSUME primary PROVE PrimarySteps'
    BY DEF PrimarySteps
  <2>1. run = "pack" /\ run' = "call"
    OBVIOUS
  <2>2. /\ \A s \in 0 .. n - 1 : commit[s].at = "over"
        /\ balance = After(n)
        /\ IsChain(chain, n)
        /\ files = 0 .. n - 1
    BY <1>1, <2>1 DEF PrimarySteps, Settled, Issued
  <2>3. Settled' = n
    BY <1>2, <1>3, <2>1 DEF Settled
  <2>4. Underway(n, commit[n], balance)'
    <3>1. balance = After(n)'
      BY <1>2, <1>5, <2>2
    <3> QED
      BY <1>8, <3>1 DEF Underway, Appended
  <2>5. IsChain(chain, n)'
    BY <1>6, <2>2 DEF IsChain
  <2> QED
    BY <1>2, <1>8, <2>1, <2>2, <2>3, <2>4, <2>5 DEF PrimarySteps, Appended
<1>12. CheckSteps'
  <2> SUFFICES ASSUME primary, NEW s \in Issued', commit[s].at = "none"
               PROVE  CheckOf(s, check[s])'
    BY DEF CheckSteps
  <2>1. CASE s = n
    BY <1>8, <2>1 DEF CheckOf
  <2>2. CASE s # n
    <3>1. s \in Issued /\ s \in 0 .. n /\ issued'[s + 1] = issued[s + 1] /\ After(s)' = After(s)
      BY <1>4, <1>5, <2>2
    <3>2. CheckOf(s, check[s])
      BY <1>1, <3>1 DEF CheckSteps
    <3>3. /\ \A i : Paid(s, i)' <=> Paid(s, i)
          /\ Payable(s)' <=> Payable(s)
      BY <1>6, <3>1 DEF Paid, Payable
    <3> QED
      BY <3>1, <3>2, <3>3 DEF CheckOf
  <2> QED
    BY <2>1, <2>2
<1>13. ChainHasFiles'
  BY <1>1, <1>4 DEF ChainHasFiles
<1> QED
  BY <1>10, <1>11, <1>12, <1>13 DEF Inv

\* PackBlock keeps the invariant: the primary has executed all blocks, so the new
\* one is packed from the pool and follows the last.
LEMMA PackBlockInv == ASSUME Inv, PackBlock PROVE Inv'
<1> DEFINE b == IF Last(chain) \in files \cup {Genesis}
                THEN [prev |-> Last(chain), txs |-> PackTxs(pool)]
                ELSE Last(issued)
<1>1. Typed /\ PrimarySteps
  BY DEF Inv
<1>2. /\ run = "pack" /\ run' = "call" /\ issued' = Append(issued, b)
      /\ UNCHANGED <<primary, accepted, pool, check, commit, balance, chain, files, torn,
                     up, crashes>>
  BY DEF PackBlock
<1>3. primary
  BY <1>1, <1>2 DEF Typed
<1>4. TryPublishCond /\ Len(issued) < MaxSeq /\ IsChain(chain, Len(issued)) /\ files = Issued
  BY <1>1, <1>2, <1>3 DEF PrimarySteps
<1>5. PICK n : n = Len(issued)
  OBVIOUS
<1>6. n \in Nat /\ n < MaxSeq /\ MaxSeq \in Nat
  BY <1>1, <1>4, <1>5, BlockIs, Given
<1>7. Last(chain) = PrevHash(n)
  <2>1. Len(chain) = n + 1 /\ n + 1 \in 1 .. n + 1 /\ (n + 1) - 1 = n
    BY <1>4, <1>5, <1>6 DEF IsChain
  <2>2. chain[n + 1] = PrevHash((n + 1) - 1)
    BY <1>4, <1>5, <2>1 DEF IsChain
  <2> QED
    BY <2>1, <2>2 DEF Last
<1>8. Last(chain) \in files \cup {Genesis} /\ PrevHash(n) \in Seqs \cup {Genesis}
  BY <1>4, <1>5, <1>6, <1>7 DEF PrevHash, Issued, Seqs
<1>9. b = [prev |-> PrevHash(n), txs |-> PackTxs(pool)]
  BY <1>7, <1>8
<1>10. /\ pool \in SUBSET Txs /\ pool \subseteq accepted /\ accepted \subseteq Txs
       /\ IsPool(pool) /\ IsFiniteSet(pool)
  BY <1>1 DEF Typed, IsPool
<1>11. pool # {}
  BY <1>4, <1>10, FS_EmptySet, Given DEF TryPublishCond
<1>12. PackTxs(pool) \in Seq(pool) /\ Len(PackTxs(pool)) > 0
  BY <1>10, <1>11, Given, PackTxsIs
<1>13. PackTxs(pool) \in Seq(Txs) /\ PackTxs(pool) \in Seq(accepted)
  BY <1>10, <1>12, SeqMonotonic
<1>14. b \in Blocks
  BY <1>8, <1>9, <1>13 DEF Blocks
<1>15. b.prev = PrevHash(n) /\ b.txs = PackTxs(pool)
  BY <1>9
<1> HIDE DEF b
<1> QED
  BY <1>2, <1>3, <1>5, <1>6, <1>10, <1>12, <1>13, <1>14, <1>15, BlockStep

\* A block of another node's pool keeps it too.
LEMMA PeerPublishInv ==
  ASSUME Inv, NEW S \in SUBSET (Txs \ accepted), PeerPublish(S)
  PROVE  Inv'
<1>1. Typed
  BY DEF Inv
<1>2. PICK n : n = Len(issued)
  OBVIOUS
<1> DEFINE b == [prev |-> PrevHash(n), txs |-> PackTxs(S)]
<1>3. /\ ~ primary /\ S # {} /\ IsPool(S) /\ n < MaxSeq
      /\ issued' = Append(issued, b) /\ accepted' = accepted \cup S
      /\ UNCHANGED <<primary, pool, run, check, commit, balance, chain, files, torn, up,
                     crashes>>
  BY <1>2 DEF PeerPublish
<1>4. n \in Nat /\ MaxSeq \in Nat
  BY <1>1, <1>2, BlockIs, Given
<1>5. PrevHash(n) \in Seqs \cup {Genesis}
  BY <1>3, <1>4 DEF PrevHash, Seqs
<1>6. accepted \subseteq accepted' /\ accepted' \subseteq Txs /\ S \subseteq accepted' /\ S \in SUBSET Txs
  BY <1>1, <1>3 DEF Typed
<1>7. PackTxs(S) \in Seq(S) /\ Len(PackTxs(S)) > 0
  BY <1>3, <1>6, Given, PackTxsIs
<1>8. PackTxs(S) \in Seq(Txs) /\ PackTxs(S) \in Seq(accepted')
  BY <1>6, <1>7, SeqMonotonic
<1>9. b \in Blocks /\ b.prev = PrevHash(n) /\ b.txs = PackTxs(S)
  BY <1>5, <1>8 DEF Blocks
<1> HIDE DEF b
<1> QED
  BY <1>2, <1>3, <1>6, <1>7, <1>8, <1>9, BlockStep

-----------------------------------------------------------------------------
(***************************************************************************)
(* The steps of CheckProposal.                                             *)
(***************************************************************************)
\* What a thread of CheckProposal may be.
Checks == [at : CheckLabels, tx : Nat, temp : Notes]

\* A note more is one of the notes.
LEMMA NoteIs ==
  ASSUME NEW temp \in Notes, NEW a \in Accounts, NEW left \in Int
  PROVE  /\ Note(temp, a, left) \in Notes
         /\ DOMAIN Note(temp, a, left) = DOMAIN temp \cup {a}
         /\ Note(temp, a, left)[a] = left
         /\ \A b \in DOMAIN temp : b # a => Note(temp, a, left)[b] = temp[b]
<1>1. PICK A \in SUBSET Accounts : temp \in [A -> Int]
  BY DEF Notes
<1>2. Note(temp, a, left) \in [A \cup {a} -> Int] /\ A \cup {a} \in SUBSET Accounts
  BY <1>1 DEF Note
<1> QED
  BY <1>1, <1>2 DEF Notes, Note

\* A block of the issued ones can be paid if each of its transactions can.
LEMMA PayableIs ==
  ASSUME Typed, NEW s \in Issued
  PROVE  Payable(s) <=> \A i \in 1 .. Len(issued[s + 1].txs) : Paid(s, i)
<1>1. issued[s + 1].prev = PrevHash(s) /\ Last(<<PrevHash(s)>>) = PrevHash(s)
  BY BlockIs DEF Last
<1>2. \A i \in 1 .. Len(issued[s + 1].txs) : issued[s + 1].txs[i].from \in Accounts
  BY CurrentIs
<1> QED
  BY <1>1, <1>2 DEF Payable, CheckBlock, Paid

\* A step of the thread that checks block s: it is well typed, and judges as the
\* ledger before the block does.
LEMMA CheckStep ==
  ASSUME Inv, NEW s \in Issued, NEW c \in Checks, c.at # "none",
         c.at = "txs" => c.tx \in 1 .. Len(issued[s + 1].txs),
         check' = [check EXCEPT ![s] = c],
         UNCHANGED <<primary, issued, accepted, pool, run, commit, balance, chain,
                     files, torn, up, crashes>>,
         primary /\ commit[s].at = "none" => CheckOf(s, c)
  PROVE  Inv'
<1>1. Typed /\ PrimarySteps /\ CheckSteps /\ ChainHasFiles
  BY DEF Inv
<1>2. s \in Seqs /\ check \in [Seqs -> Checks]
  BY <1>1, BlockIs DEF Typed, ThreadsTyped, Checks
<1>3. check' \in [Seqs -> Checks] /\ check'[s] = c /\ \A r \in Seqs \ {s} : check'[r] = check[r]
  BY <1>2
<1>4. /\ Issued' = Issued
      /\ \A k : After(k)' = After(k)
      /\ \A r, d : CheckOf(r, d)' <=> CheckOf(r, d)
      /\ \A r, i : Partly(r, i)' = Partly(r, i)
  BY SameBlocks
<1>5. \A r : PrevHash(r)' = PrevHash(r)
  BY DEF PrevHash
<1>6. ThreadsTyped'
  <2>1. ASSUME NEW r \in Seqs
        PROVE  /\ check'[r].at = "none" => check'[r] = NoCheck
               /\ r \notin Issued => check'[r].at = "none"
               /\ r \in Issued /\ check'[r].at = "txs" => check'[r].tx \in 1 .. Len(issued[r + 1].txs)
    <3>1. CASE r = s
      BY <1>3, <3>1
    <3>2. CASE r # s
      BY <1>1, <1>3, <3>2 DEF Typed, ThreadsTyped
    <3> QED
      BY <3>1, <3>2
  <2>2. Issued \subseteq Seqs
    BY <1>1, BlockIs
  <2> QED
    BY <1>1, <1>3, <1>4, <2>1, <2>2 DEF Typed, ThreadsTyped, Checks
<1>7. BlocksTyped'
  BY <1>1, <1>4, <1>5 DEF Typed, BlocksTyped
<1>8. Typed'
  BY <1>1, <1>4, <1>6, <1>7 DEF Typed
<1>9. PrimarySteps'
  <2>1. /\ Settled' = Settled
        /\ Underway(Settled, commit[Settled], balance)' <=>
              Underway(Settled, commit[Settled], balance)
    BY <1>4 DEF Settled, Underway, Current
  <2>2. \A k : IsChain(chain, k)' <=> IsChain(chain, k)
    BY <1>5 DEF IsChain
  <2> QED
    BY <1>1, <1>4, <2>1, <2>2 DEF PrimarySteps, TryPublishCond
<1>10. CheckSteps'
  <2> SUFFICES ASSUME primary, NEW r \in Issued, commit[r].at = "none"
               PROVE  CheckOf(r, check'[r])
    BY <1>4 DEF CheckSteps
  <2>1. r \in Seqs
    BY <1>1, BlockIs
  <2> QED
    BY <1>1, <1>3, <2>1 DEF CheckSteps
<1>11. ChainHasFiles'
  BY <1>1, <1>4 DEF ChainHasFiles
<1> QED
  BY <1>8, <1>9, <1>10, <1>11 DEF Inv

\* CheckPrev keeps the invariant: while the block is not being committed, the last
\* hash of the primary's chain is that of the block before.
LEMMA CheckPrevInv == ASSUME Inv, NEW s \in Seqs, CheckPrev(s) PROVE Inv'
<1>1. Typed
  BY DEF Inv
<1>2. /\ s < Len(issued) /\ check[s].at = "none"
      /\ UNCHANGED <<primary, issued, accepted, pool, run, commit, balance, chain,
                     files, torn, up, crashes>>
  BY DEF CheckPrev
<1> DEFINE v == IF issued[s + 1].prev = Last(chain) THEN "txs" ELSE "no"
           c == [at |-> v, tx |-> 1, temp |-> <<>>]
<1>3. s \in Issued
  BY <1>1, <1>2, BlockIs
<1>4. check[s] = NoCheck /\ check \in [Seqs -> Checks]
  BY <1>1, <1>2 DEF Typed, ThreadsTyped, Checks
<1>5. check' = [check EXCEPT ![s] = c]
  <2>1. check' = [check EXCEPT ![s].at = v]
    BY DEF CheckPrev
  <2>2. [check[s] EXCEPT !.at = v] = c
    BY <1>4 DEF NoCheck
  <2> HIDE DEF c, v
  <2> QED
    BY <2>1, <2>2
<1>6. c \in Checks /\ c.at # "none"
  <2>1. <<>> \in [{} -> Int] /\ {} \in SUBSET Accounts
    OBVIOUS
  <2>2. <<>> \in Notes
    BY <2>1 DEF Notes
  <2> QED
    BY <2>2 DEF Checks, CheckLabels
<1>7. 1 \in 1 .. Len(issued[s + 1].txs)
  BY <1>1, <1>3, BlockIs
<1>8. ASSUME primary, commit[s].at = "none" PROVE CheckOf(s, c)
  <2>1. IsChain(chain, s)
    BY <1>3, <1>8, TheOne DEF Appended
  <2>2. Last(chain) = PrevHash(s)
    <3>1. s \in Nat /\ Len(chain) = s + 1 /\ s + 1 \in 1 .. s + 1 /\ (s + 1) - 1 = s
      BY <1>1, <1>3, <2>1, BlockIs DEF IsChain
    <3>2. chain[s + 1] = PrevHash((s + 1) - 1)
      BY <2>1, <3>1 DEF IsChain
    <3> QED
      BY <3>1, <3>2 DEF Last
  <2>3. v = "txs"
    BY <1>1, <1>3, <2>2, BlockIs
  <2>4. \A a : Debits(issued[s + 1].txs, 0, a) = 0
    BY <1>1, <1>3, Given, BlockIs, DebitsIs
  <2>5. c.at = "txs" /\ c.tx = 1 /\ c.tx - 1 = 0 /\ DOMAIN c.temp = {}
    BY <2>3
  <2> HIDE DEF c
  <2> QED
    BY <2>4, <2>5 DEF CheckOf
<1>9. c.tx = 1
  OBVIOUS
<1> HIDE DEF c, v
<1> QED
  BY <1>2, <1>3, <1>5, <1>6, <1>7, <1>8, <1>9, CheckStep

\* CheckTx keeps the invariant: what a check has noted of the balances is what the
\* ledger before the block had, less what the transactions so far have spent.
LEMMA CheckTxInv == ASSUME Inv, NEW s \in Seqs, CheckTx(s) PROVE Inv'
<1>1. Typed
  BY DEF Inv
<1>2. /\ check[s].at = "txs"
      /\ UNCHANGED <<primary, issued, accepted, pool, run, commit, balance, chain,
                     files, torn, up, crashes>>
  BY DEF CheckTx
<1>3. s \in Issued
  BY <1>1, <1>2 DEF Typed, ThreadsTyped
<1> DEFINE k == check[s].tx
           temp == check[s].temp
           txs == issued[s + 1].txs
           tx == txs[k]
           left == Left(check[s], tx.from) - tx.value
<1>4. /\ check \in [Seqs -> Checks] /\ check[s] \in Checks
      /\ k \in Nat /\ k \in 1 .. Len(txs) /\ temp \in Notes
  BY <1>1, <1>2, <1>3 DEF Typed, ThreadsTyped, Checks
<1>5. Len(txs) \in Nat /\ txs \in Seq(Txs)
  BY <1>1, <1>3, BlockIs
<1>6. tx.from \in Accounts /\ tx.value \in Int
  BY <1>1, <1>3, <1>4, CurrentIs
<1>7. left \in Int
  <2>1. Scale * balance[tx.from] \in Int
    <3>1. balance[tx.from] \in Int
      BY <1>1, <1>6 DEF Typed, Balances
    <3> QED
      BY <3>1, ScaleAssumption
  <2>2. tx.from \in DOMAIN temp => temp[tx.from] \in Int
    BY <1>4 DEF Notes
  <2> QED
    <3>1. Left(check[s], tx.from) \in Int
      BY <2>1, <2>2 DEF Left
    <3> QED
      BY <1>6, <3>1
<1>8. \/ left < 0 /\ Verdict(s, "no")
      \/ left >= 0 /\ k = Len(txs) /\ Verdict(s, "yes")
      \/ /\ left >= 0 /\ k < Len(txs)
         /\ check' = [check EXCEPT ![s] = [at |-> "txs", tx |-> @.tx + 1,
                                              temp |-> Note(@.temp, tx.from, left)]]
  BY DEF CheckTx, Current
<1>9. primary /\ commit[s].at = "none" =>
         /\ \A i \in 1 .. k - 1 : Paid(s, i)
         /\ \A a \in Accounts : IF a \in DOMAIN temp
                                THEN temp[a] = Scale * After(s)[a] - Debits(txs, k - 1, a)
                                ELSE Debits(txs, k - 1, a) = 0
         /\ balance = After(s)
  <2> SUFFICES ASSUME primary, commit[s].at = "none"
               PROVE  /\ CheckOf(s, check[s])
                      /\ balance = After(s)
    BY <1>2 DEF CheckOf
  <2>1. Underway(s, commit[s], balance)
    BY <1>3, TheOne
  <2> QED
    BY <1>3, <2>1 DEF Inv, CheckSteps, Underway
<1>10. \A a : /\ Debits(txs, k, a) \in Int /\ Debits(txs, k - 1, a) \in Int
              /\ Debits(txs, k, a) = AddDebit(Debits(txs, k - 1, a), tx, a)
  <2>1. k \in 0 .. Len(txs) /\ k - 1 \in 0 .. Len(txs)
    BY <1>4, <1>5
  <2> QED
    BY <1>4, <1>5, <2>1, Given, DebitsIs
<1>11. \A a \in Accounts : Scale * After(s)[a] \in Int
  <2>1. \A a \in Accounts : After(s)[a] \in Int
    BY <1>1, <1>3, AfterIs DEF Balances
  <2> QED
    BY <2>1, ScaleAssumption
<1>12. primary /\ commit[s].at = "none" =>
          /\ left = Scale * After(s)[tx.from] - Debits(txs, k, tx.from)
          /\ left >= 0 <=> Paid(s, k)
          /\ \A i \in 1 .. k - 1 : Paid(s, i)
  <2> SUFFICES ASSUME primary, commit[s].at = "none"
               PROVE  /\ left = Scale * After(s)[tx.from] - Debits(txs, k, tx.from)
                      /\ left >= 0 <=> Paid(s, k)
    BY <1>9
  <2> DEFINE have == Scale * After(s)[tx.from]
             before == Debits(txs, k - 1, tx.from)
             spent == Debits(txs, k, tx.from)
             known == Left(check[s], tx.from)
             value == tx.value
  <2>1. have \in Int /\ before \in Int /\ spent \in Int /\ value \in Int
    BY <1>6, <1>10, <1>11
  <2>2. known = have - before
    <3>1. CASE tx.from \in DOMAIN temp
      BY <1>6, <1>9, <3>1 DEF Left
    <3>2. CASE tx.from \notin DOMAIN temp
      <4>1. known = have /\ before = 0
        BY <1>6, <1>9, <3>2 DEF Left
      <4> HIDE DEF have, before, known
      <4> QED
        BY <2>1, <4>1
    <3> QED
      BY <3>1, <3>2
  <2>3. spent = before + value
    BY <1>10 DEF AddDebit
  <2>4. left = known - value
    OBVIOUS
  <2>5. Paid(s, k) <=> spent <= have
    BY DEF Paid
  <2> HIDE DEF have, before, spent, known, value, left
  <2>6. left = have - spent /\ (left >= 0 <=> spent <= have)
    BY <2>1, <2>2, <2>3, <2>4
  <2> QED
    BY <2>5, <2>6 DEF have, spent
<1>13. Payable(s) <=> \A i \in 1 .. Len(txs) : Paid(s, i)
  BY <1>1, <1>3, PayableIs
<1>14. ASSUME NEW v \in {"yes", "no"}, Verdict(s, v),
              primary /\ commit[s].at = "none" => (v = "yes" <=> Payable(s))
       PROVE  Inv'
  <2> DEFINE c == [NoCheck EXCEPT !.at = v]
  <2>1. check' = [check EXCEPT ![s] = c]
    BY <1>14 DEF Verdict
  <2>2. c.at = v /\ c \in Checks
    <3>1. <<>> \in [{} -> Int] /\ {} \in SUBSET Accounts
      OBVIOUS
    <3>2. <<>> \in Notes
      BY <3>1 DEF Notes
    <3> QED
      BY <3>2 DEF Checks, CheckLabels, NoCheck
  <2>3. primary /\ commit[s].at = "none" => CheckOf(s, c)
    BY <1>14, <2>2 DEF CheckOf
  <2> HIDE DEF c, txs, k, temp, left, tx
  <2> QED
    BY <1>2, <1>3, <1>14, <2>1, <2>2, <2>3, CheckStep
<1>15. CASE left < 0 /\ Verdict(s, "no")
  <2>1. primary /\ commit[s].at = "none" => ~ Payable(s)
    <3> SUFFICES ASSUME primary, commit[s].at = "none" PROVE ~ Payable(s)
      OBVIOUS
    <3>1. left >= 0 <=> Paid(s, k)
      BY <1>12
    <3> HIDE DEF left
    <3>2. ~ (left >= 0)
      BY <1>7, <1>15
    <3> QED
      BY <1>4, <1>13, <3>1, <3>2
  <2> QED
    BY <1>14, <1>15, <2>1
<1>16. CASE left >= 0 /\ k = Len(txs) /\ Verdict(s, "yes")
  <2>1. \A i \in 1 .. Len(txs) : i \in 1 .. k - 1 \/ i = k
    BY <1>4, <1>16
  <2>2. primary /\ commit[s].at = "none" => Payable(s)
    BY <1>12, <1>13, <1>16, <2>1
  <2> QED
    BY <1>14, <1>16, <2>2
<1>17. CASE /\ left >= 0 /\ k < Len(txs)
            /\ check' = [check EXCEPT ![s] = [at |-> "txs", tx |-> @.tx + 1,
                                              temp |-> Note(@.temp, tx.from, left)]]
  <2> DEFINE more == Note(temp, tx.from, left)
             c == [at |-> "txs", tx |-> k + 1, temp |-> more]
  <2>1. /\ more \in Notes
        /\ DOMAIN more = DOMAIN temp \cup {tx.from}
        /\ more[tx.from] = left
        /\ \A b \in DOMAIN temp : b # tx.from => more[b] = temp[b]
    <3> DEFINE from == tx.from
               noted == Note(temp, from, left)
    <3>1. temp \in Notes /\ from \in Accounts /\ left \in Int
      BY <1>4, <1>6, <1>7
    <3> HIDE DEF temp, left, from
    <3>2. /\ noted \in Notes
          /\ DOMAIN noted = DOMAIN temp \cup {from}
          /\ noted[from] = left
          /\ \A b \in DOMAIN temp : b # from => noted[b] = temp[b]
      BY <3>1, NoteIs
    <3> QED
      BY <3>2 DEF from
  <2>2. check' = [check EXCEPT ![s] = c]
    <3> HIDE DEF left
    <3> QED
      BY <1>17
  <2>3. c.at = "txs" /\ c.tx = k + 1 /\ c.tx - 1 = k /\ c.temp = more
    BY <1>4
  <2>4. c \in Checks /\ k + 1 \in 1 .. Len(txs)
    <3> HIDE DEF more, txs
    <3> QED
      BY <1>4, <1>5, <1>17, <2>1 DEF Checks, CheckLabels
  <2>5. ASSUME primary, commit[s].at = "none" PROVE CheckOf(s, c)
    <3>1. \A i \in 1 .. k : Paid(s, i)
      <4>1. \A i \in 1 .. k : i \in 1 .. k - 1 \/ i = k
        BY <1>4
      <4> QED
        BY <1>12, <1>17, <2>5, <4>1
    <3>2. ASSUME NEW a \in Accounts
          PROVE  IF a \in DOMAIN more THEN more[a] = Scale * After(s)[a] - Debits(txs, k, a)
                                      ELSE Debits(txs, k, a) = 0
      <4>1. CASE a = tx.from
        BY <1>12, <2>1, <2>5, <4>1
      <4>2. CASE a # tx.from
        <5>1. Debits(txs, k, a) = Debits(txs, k - 1, a)
          BY <1>10, <4>2 DEF AddDebit
        <5>2. (a \in DOMAIN more <=> a \in DOMAIN temp) /\ (a \in DOMAIN temp => more[a] = temp[a])
          BY <2>1, <4>2
        <5> HIDE DEF more, temp, txs, k
        <5> QED
          BY <1>9, <2>5, <5>1, <5>2
      <4> QED
        BY <4>1, <4>2
    <3> HIDE DEF c, more, k, temp, left, tx
    <3> QED
      BY <2>3, <3>1, <3>2 DEF CheckOf
  <2> HIDE DEF c, more, txs, k, temp, left, tx
  <2> QED
    BY <1>2, <1>3, <2>2, <2>3, <2>4, <2>5, CheckStep DEF txs
<1> HIDE DEF k, txs, temp, tx, left
<1> QED
  BY <1>8, <1>15, <1>16, <1>17

-----------------------------------------------------------------------------
(***************************************************************************)
(* The steps of CommitProposal.                                            *)
(***************************************************************************)
\* What a thread of CommitProposal may be.
Commits == [at : Labels, tx : Nat, from : Int, to : Int]

Writing == {"remove", "open", "close"}

\* A step of the thread that commits block s: it is well typed, and at the primary
\* the balances, the chain and the files show how far it has come.
LEMMA CommitStep ==
  ASSUME Inv, NEW s \in Issued, commit[s].at # "over",
         NEW c \in Commits, c.at # "none",
         c.at \in Updating => c.tx \in 1 .. Len(issued[s + 1].txs),
         commit' = [commit EXCEPT ![s] = c],
         UNCHANGED <<primary, issued, accepted, run, check, up, crashes>>,
         pool' \subseteq pool, balance' \in Balances,
         chain' = chain \/ (chain' = Append(chain, s) /\ c.at = "remove"),
         files \subseteq files', files' \subseteq Issued, torn' \subseteq Issued,
         commit[s].at \in Writing => c.at \in Writing \/ s \in files',
         primary => /\ Underway(s, c, balance')
                    /\ IsChain(chain', IF c.at \in Appended THEN Len(issued) ELSE s)
                    /\ files' = IF c.at = "over" THEN Issued ELSE 0 .. s - 1
  PROVE  Inv'
<1>1. Typed /\ PrimarySteps /\ CheckSteps /\ ChainHasFiles
  BY DEF Inv
<1>2. s \in Seqs /\ commit \in [Seqs -> Commits]
  BY <1>1, BlockIs DEF Typed, ThreadsTyped, Commits
<1>3. commit' \in [Seqs -> Commits] /\ commit'[s] = c /\ \A r \in Seqs \ {s} : commit'[r] = commit[r]
  BY <1>2
<1>4. /\ Issued' = Issued
      /\ \A r, d : CheckOf(r, d)' <=> CheckOf(r, d)
      /\ \A r, d, b : Underway(r, d, b)' <=> Underway(r, d, b)
  BY SameBlocks
<1>5. Issued \subseteq Seqs
  BY <1>1, BlockIs
<1>6. ThreadsTyped'
  <2>1. ASSUME NEW r \in Seqs
        PROVE  /\ commit'[r].at = "none" => commit'[r] = NoCommit
               /\ r \notin Issued => commit'[r].at = "none"
               /\ r \in Issued /\ commit'[r].at \in Updating
                    => commit'[r].tx \in 1 .. Len(issued[r + 1].txs)
    <3>1. CASE r = s
      BY <1>3, <3>1
    <3>2. CASE r # s
      BY <1>1, <1>3, <3>2 DEF Typed, ThreadsTyped
    <3> QED
      BY <3>1, <3>2
  <2> QED
    BY <1>1, <1>3, <1>4, <1>5, <2>1 DEF Typed, ThreadsTyped, Commits
<1>7. BlocksTyped'
  <2>1. \A r : PrevHash(r)' = PrevHash(r)
    BY DEF PrevHash
  <2> QED
    BY <1>1, <1>4, <2>1 DEF Typed, BlocksTyped
<1>8. Typed'
  <2>1. IsPool(pool')
    <3>1. pool \in SUBSET Txs /\ IsPool(pool) /\ pool' \in SUBSET pool
      BY <1>1 DEF Typed
    <3> QED
      BY <3>1, Given, PoolsArePools
  <2>2. chain' \in Seq(Seqs \cup {Genesis}) /\ Len(chain') > 0
    <3>1. chain \in Seq(Seqs \cup {Genesis}) /\ Len(chain) > 0 /\ Len(chain) \in Nat
      BY <1>1 DEF Typed
    <3> QED
      BY <1>2, <3>1, AppendProperties
  <2> QED
    BY <1>1, <1>4, <1>6, <1>7, <2>1, <2>2 DEF Typed
<1>9. primary => /\ run = "call" /\ s = Settled /\ s = Len(issued) - 1
                 /\ \A r \in Issued \ {s} : commit[r].at = "over"
  BY TheOne
<1>10. PrimarySteps'
  <2> SUFFICES ASSUME primary PROVE PrimarySteps'
    BY DEF PrimarySteps
  <2>1. Settled' = s /\ s \in Nat /\ run' = "call" /\ Len(issued)' = Len(issued)
    BY <1>1, <1>9, BlockIs DEF Settled
  <2>2. \A r \in 0 .. s - 1 : commit'[r].at = "over"
    <3>1. \A r \in 0 .. s - 1 : r \in Issued \ {s} /\ r \in Seqs \ {s}
      BY SMTT(30), <1>5, <1>9, <2>1 DEF Issued
    <3> QED
      BY <1>3, <1>9, <3>1
  <2>3. Underway(s, commit[s], balance)'
    BY <1>3, <1>4
  <2>4. \A k : IsChain(chain, k)' <=> IsChain(chain', k)
    BY DEF IsChain, PrevHash
  <2>5. /\ IsChain(chain, IF commit[s].at \in Appended THEN Len(issued) ELSE s)'
        /\ files' = IF commit'[s].at = "over" THEN Issued' ELSE 0 .. s - 1
    BY <1>3, <1>4, <2>1, <2>4
  <2> QED
    BY <2>1, <2>2, <2>3, <2>5 DEF PrimarySteps
<1>11. CheckSteps'
  <2> SUFFICES ASSUME primary, NEW r \in Issued, commit'[r].at = "none"
               PROVE  CheckOf(r, check[r])
    BY <1>4 DEF CheckSteps
  <2>1. r \in Seqs /\ r # s
    BY <1>3, <1>5
  <2> QED
    BY <1>3, <1>9, <2>1
<1>12. ChainHasFiles'
  <2>1. Len(chain) \in Nat
    BY <1>1 DEF Typed
  <2>2. ASSUME NEW i \in 2 .. Len(chain')
        PROVE  chain'[i] \in Issued /\ (chain'[i] \in files' \/ commit'[chain'[i]].at \in Writing)
    <3>1. CASE i \in 2 .. Len(chain) /\ chain'[i] = chain[i]
      <4>1. chain[i] \in Issued /\ (chain[i] \in files \/ commit[chain[i]].at \in Writing)
        BY <1>1, <3>1 DEF ChainHasFiles, Writing
      <4>2. CASE chain[i] = s
        BY <1>3, <3>1, <4>1, <4>2
      <4>3. CASE chain[i] # s
        BY <1>3, <1>5, <3>1, <4>1, <4>3
      <4> QED
        BY <4>2, <4>3
    <3>2. CASE chain'[i] = s /\ c.at = "remove"
      BY <1>3, <3>2 DEF Writing
    <3>3. chain' = Append(chain, s) =>
             /\ Len(chain') = Len(chain) + 1
             /\ \A j \in 1 .. Len(chain) : chain'[j] = chain[j]
             /\ chain'[Len(chain) + 1] = s
      BY <1>1, <1>2, AppendProperties DEF Typed
    <3> QED
      BY <2>1, <3>1, <3>2, <3>3
  <2> QED
    BY <1>4, <2>2 DEF ChainHasFiles, Writing
<1> QED
  BY <1>8, <1>10, <1>11, <1>12 DEF Inv

\* A thread of CommitProposal at a label of its own.
LEMMA ThreadIs ==
  ASSUME Inv, NEW s \in Seqs, commit[s].at # "none"
  PROVE  /\ s \in Issued
         /\ commit[s] \in Commits
         /\ commit[s].at \in Updating => commit[s].tx \in 1 .. Len(issued[s + 1].txs)
         /\ commit[s].tx \in Nat
         /\ primary /\ commit[s].at # "over" =>
               /\ Underway(s, commit[s], balance)
               /\ IsChain(chain, IF commit[s].at \in Appended THEN Len(issued) ELSE s)
               /\ files = 0 .. s - 1
<1>1. Typed
  BY DEF Inv
<1>2. commit \in [Seqs -> Commits]
  BY <1>1 DEF Typed, ThreadsTyped, Commits
<1>3. s \in Issued
  BY <1>1 DEF Typed, ThreadsTyped
<1>4. commit[s].at \in Updating => commit[s].tx \in 1 .. Len(issued[s + 1].txs)
  BY <1>1, <1>3 DEF Typed, ThreadsTyped
<1>5. commit[s].tx \in Nat
  BY <1>2 DEF Commits
<1> QED
  BY <1>2, <1>3, <1>4, <1>5, TheOne

\* The same thread at another label.
LEMMA AtLabel ==
  ASSUME Inv, NEW s \in Seqs, NEW label \in Labels
  PROVE  LET c == [commit[s] EXCEPT !.at = label]
         IN  /\ [commit EXCEPT ![s].at = label] = [commit EXCEPT ![s] = c]
             /\ c \in Commits /\ c.at = label
             /\ c.tx = commit[s].tx /\ c.from = commit[s].from /\ c.to = commit[s].to
<1>1. commit[s] \in Commits
  BY DEF Inv, Typed, ThreadsTyped, Commits
<1> QED
  BY <1>1 DEF Commits

\* CommitStart keeps the invariant.
LEMMA CommitStartInv == ASSUME Inv, NEW s \in Seqs, CommitStart(s) PROVE Inv'
<1>1. Typed
  BY DEF Inv
<1>2. /\ s < Len(issued) /\ commit[s].at = "none" /\ commit' = [commit EXCEPT ![s].at = "from"]
      /\ UNCHANGED <<primary, issued, accepted, pool, run, check, balance, chain, files,
                     torn, up, crashes>>
  BY DEF CommitStart
<1>3. s \in Issued
  BY <1>1, <1>2, BlockIs
<1> DEFINE c == [at |-> "from", tx |-> 1, from |-> 0, to |-> 0]
<1>4. commit[s] = NoCommit /\ commit \in [Seqs -> Commits]
  BY <1>1, <1>2 DEF Typed, ThreadsTyped, Commits
<1>5. commit' = [commit EXCEPT ![s] = c]
  <2>1. [commit[s] EXCEPT !.at = "from"] = c
    BY <1>4 DEF NoCommit
  <2> HIDE DEF c
  <2> QED
    BY <1>2, <2>1
<1>6. c \in Commits /\ c.at = "from" /\ c.tx = 1 /\ c.tx - 1 = 0
  BY DEF Commits, Labels
<1>7. 1 \in 1 .. Len(issued[s + 1].txs)
  BY <1>1, <1>3, BlockIs
<1>8. primary => /\ Underway(s, c, balance)
                 /\ IsChain(chain, s) /\ files = 0 .. s - 1
  <2> SUFFICES ASSUME primary
               PROVE  /\ Underway(s, c, balance)
                      /\ IsChain(chain, s) /\ files = 0 .. s - 1
    OBVIOUS
  <2>1. Underway(s, commit[s], balance) /\ IsChain(chain, s) /\ files = 0 .. s - 1
    BY <1>2, <1>3, TheOne DEF Appended
  <2>2. balance = After(s) /\ Partly(s, 0) = After(s)
    BY <1>1, <1>2, <1>3, <2>1, AfterIs DEF Underway
  <2> HIDE DEF c
  <2> QED
    BY <1>6, <2>1, <2>2 DEF Underway, Appended
<1>9. balance \in Balances /\ files \subseteq Issued /\ torn \subseteq Issued
  BY <1>1 DEF Typed
<1> HIDE DEF c
<1> QED
  BY <1>2, <1>3, <1>5, <1>6, <1>7, <1>8, <1>9, CommitStep DEF Appended, Writing

\* The steps of UpdateBlance keep the invariant.
LEMMA GetFromInv == ASSUME Inv, NEW s \in Seqs, GetFrom(s) PROVE Inv'
<1> DEFINE k == commit[s].tx
           tx == issued[s + 1].txs[k]
           c == [at |-> "to", tx |-> k, from |-> balance[tx.from], to |-> commit[s].to]
<1>1. Typed
  BY DEF Inv
<1>2. /\ commit[s].at = "from" /\ Goes(s, "to", balance[tx.from], commit[s].to)
      /\ UNCHANGED <<primary, issued, accepted, pool, run, check, balance, chain, files,
                     torn, up, crashes>>
  BY DEF GetFrom, Current
<1>3. /\ s \in Issued /\ k \in 1 .. Len(issued[s + 1].txs) /\ commit[s] \in Commits
      /\ primary => Underway(s, commit[s], balance) /\ IsChain(chain, s) /\ files = 0 .. s - 1
  BY <1>2, ThreadIs DEF Updating, Appended
<1>4. tx.from \in Accounts
  BY <1>1, <1>3, CurrentIs
<1>5. balance[tx.from] \in Int /\ commit[s].to \in Int /\ "to" \in Labels
  BY <1>1, <1>3, <1>4 DEF Typed, Balances, Commits, Labels
<1>6. /\ c \in Commits /\ commit' = [commit EXCEPT ![s] = c]
      /\ c.at = "to" /\ c.tx = k /\ c.from = balance[tx.from]
  BY <1>2, <1>3, <1>5 DEF Commits, Goes
<1>7. primary => Underway(s, c, balance)
  BY <1>2, <1>3, <1>6 DEF Underway, Appended
<1>8. balance \in Balances /\ files \subseteq Issued /\ torn \subseteq Issued
  BY <1>1 DEF Typed
<1> HIDE DEF k, tx, c
<1> QED
  BY <1>2, <1>3, <1>6, <1>7, <1>8, CommitStep DEF Appended, Writing

\* GetTo keeps the invariant: the value read is the balance of the recipient.
LEMMA GetToInv == ASSUME Inv, NEW s \in Seqs, GetTo(s) PROVE Inv'
<1> DEFINE k == commit[s].tx
           tx == issued[s + 1].txs[k]
           c == [at |-> "debit", tx |-> k, from |-> commit[s].from, to |-> balance[tx.to]]
<1>1. Typed
  BY DEF Inv
<1>2. /\ commit[s].at = "to" /\ Goes(s, "debit", commit[s].from, balance[tx.to])
      /\ UNCHANGED <<primary, issued, accepted, pool, run, check, balance, chain, files,
                     torn, up, crashes>>
  BY DEF GetTo, Current
<1>3. /\ s \in Issued /\ k \in 1 .. Len(issued[s + 1].txs) /\ commit[s] \in Commits
      /\ primary => Underway(s, commit[s], balance) /\ IsChain(chain, s) /\ files = 0 .. s - 1
  BY <1>2, ThreadIs DEF Updating, Appended
<1>4. tx.to \in Accounts
  BY <1>1, <1>3, CurrentIs
<1>5. balance[tx.to] \in Int /\ commit[s].from \in Int /\ "debit" \in Labels
  BY <1>1, <1>3, <1>4 DEF Typed, Balances, Commits, Labels
<1>6. /\ c \in Commits /\ commit' = [commit EXCEPT ![s] = c]
      /\ c.at = "debit" /\ c.tx = k /\ c.from = commit[s].from /\ c.to = balance[tx.to]
  BY <1>2, <1>3, <1>5 DEF Commits, Goes
<1>7. primary => Underway(s, c, balance)
  BY <1>2, <1>3, <1>6 DEF Underway, Appended
<1>8. balance \in Balances /\ files \subseteq Issued /\ torn \subseteq Issued
  BY <1>1 DEF Typed
<1> HIDE DEF k, tx, c
<1> QED
  BY <1>2, <1>3, <1>6, <1>7, <1>8, CommitStep DEF Appended, Updating, Writing

\* PutFrom keeps the invariant: the sender is debited, the credit is still to come.
LEMMA PutFromInv == ASSUME Inv, NEW s \in Seqs, PutFrom(s) PROVE Inv'
<1> DEFINE k == commit[s].tx
           tx == issued[s + 1].txs[k]
           c == [at |-> "credit", tx |-> k, from |-> 0, to |-> commit[s].to]
<1>1. Typed
  BY DEF Inv
<1>2. /\ commit[s].at = "debit" /\ Goes(s, "credit", 0, commit[s].to)
      /\ balance' = [balance EXCEPT ![tx.from] = Written(Scale * commit[s].from - tx.value)]
      /\ UNCHANGED <<primary, issued, accepted, pool, run, check, chain, files, torn, up,
                     crashes>>
  BY DEF PutFrom, Current
<1>3. /\ s \in Issued /\ k \in 1 .. Len(issued[s + 1].txs) /\ commit[s] \in Commits
      /\ primary => Underway(s, commit[s], balance) /\ IsChain(chain, s) /\ files = 0 .. s - 1
  BY <1>2, ThreadIs DEF Updating, Appended
<1>4. tx.from \in Accounts /\ tx.value \in Int
  BY <1>1, <1>3, CurrentIs
<1>5. 0 \in Int /\ commit[s].from \in Int /\ commit[s].to \in Int /\ "credit" \in Labels
  BY <1>3 DEF Commits, Labels
<1>6. /\ c \in Commits /\ commit' = [commit EXCEPT ![s] = c]
      /\ c.at = "credit" /\ c.tx = k /\ c.to = commit[s].to
  BY <1>2, <1>3, <1>5 DEF Commits, Goes
<1>7. balance' \in Balances
  <2>1. Scale * commit[s].from - tx.value \in Int /\ balance \in Balances
    BY <1>1, <1>4, <1>5, ScaleAssumption DEF Typed
  <2>2. Written(Scale * commit[s].from - tx.value) \in Int
    BY <2>1, WrittenIs
  <2> HIDE DEF tx
  <2> QED
    BY <1>2, <2>1, <2>2 DEF Balances
<1>8. primary => Underway(s, c, balance')
  BY <1>2, <1>3, <1>6 DEF Underway, Appended
<1>9. files \subseteq Issued /\ torn \subseteq Issued
  BY <1>1 DEF Typed
<1> HIDE DEF k, tx, c
<1> QED
  BY <1>2, <1>3, <1>6, <1>7, <1>8, <1>9, CommitStep DEF Appended, Updating, Writing

\* PutTo keeps the invariant: the transaction is executed, and the thread goes on
\* to the next one or to the append.
LEMMA PutToInv == ASSUME Inv, NEW s \in Seqs, PutTo(s) PROVE Inv'
<1> DEFINE k == commit[s].tx
           n == Len(issued[s + 1].txs)
           tx == issued[s + 1].txs[k]
           c == IF k < n THEN [at |-> "from", tx |-> k + 1, from |-> 0, to |-> 0]
                         ELSE [at |-> "append", tx |-> 1, from |-> 0, to |-> 0]
<1>1. Typed
  BY DEF Inv
<1>2. /\ commit[s].at = "credit"
      /\ balance' = [balance EXCEPT ![tx.to] = Written(Scale * commit[s].to + tx.value)]
      /\ UNCHANGED <<primary, issued, accepted, pool, run, check, chain, files, torn, up,
                     crashes>>
  BY DEF PutTo, Current
<1>3. commit' = [commit EXCEPT ![s] = c]
  BY DEF PutTo, NoCommit
<1>4. /\ s \in Issued /\ k \in 1 .. n /\ commit[s] \in Commits
      /\ primary => Underway(s, commit[s], balance) /\ IsChain(chain, s) /\ files = 0 .. s - 1
  BY <1>2, ThreadIs DEF Updating, Appended
<1>5. n \in Nat
  BY <1>1, <1>4, BlockIs
<1>6. /\ tx.from \in Accounts /\ tx.to \in Accounts /\ tx.value \in Int
      /\ Executable(tx)
  BY <1>1, <1>4, CurrentIs
<1>7. c \in Commits /\ c.at \in {"from", "append"} /\ (c.at = "from" => c.tx \in 1 .. n)
  BY <1>4, <1>5 DEF Commits, Labels
<1>8. balance' \in Balances
  <2>0. commit[s].to \in Int
    BY <1>4 DEF Commits
  <2>1. Scale * commit[s].to + tx.value \in Int /\ balance \in Balances
    BY <1>1, <1>6, <2>0, ScaleAssumption DEF Typed
  <2>2. Written(Scale * commit[s].to + tx.value) \in Int
    BY <2>1, WrittenIs
  <2> HIDE DEF tx
  <2> QED
    BY <1>2, <2>1, <2>2 DEF Balances
<1>9. ASSUME primary PROVE Underway(s, c, balance')
  <2> DEFINE p == Partly(s, k - 1)
  <2>1. p \in Balances /\ Partly(s, k) = Transfer(p, tx)
    <3>1. k - 1 \in 0 .. n
      BY <1>4, <1>5
    <3> QED
      BY <1>1, <1>4, <3>1, AfterIs
  <2>2. /\ commit[s].to = p[tx.to]
        /\ balance = [p EXCEPT ![tx.from] = Written(Scale * p[tx.from] - tx.value)]
    BY <1>2, <1>4, <1>9 DEF Underway
  <2>3. balance' = Partly(s, k)
    <3>1. balance' = [balance EXCEPT ![tx.to] = Written(Scale * p[tx.to] + tx.value)]
      BY <1>2, <2>2
    <3> HIDE DEF p, tx
    <3> QED
      BY <2>1, <2>2, <3>1 DEF Transfer
  <2>4. CASE k < n
    <3>1. c.at = "from" /\ c.tx - 1 = k
      BY <1>4, <2>4
    <3> HIDE DEF c, p, tx
    <3> QED
      BY <2>3, <3>1 DEF Underway, Appended
  <2>5. CASE ~ k < n
    <3>1. c.at = "append" /\ k = n
      BY <1>4, <1>5, <2>5
    <3>2. Partly(s, n) = After(s + 1)
      BY <1>1, <1>4, AfterIs
    <3> HIDE DEF c, p, tx, k
    <3> QED
      BY <2>3, <3>1, <3>2 DEF Underway, Appended
  <2> QED
    BY <2>4, <2>5
<1>10. files \subseteq Issued /\ torn \subseteq Issued
  BY <1>1 DEF Typed
<1> HIDE DEF k, tx, c
<1> QED
  BY <1>2, <1>3, <1>4, <1>7, <1>8, <1>9, <1>10, CommitStep DEF Appended, Updating, Writing

\* AppendHash keeps the invariant: at the primary no other thread appends.
LEMMA AppendHashInv == ASSUME Inv, NEW s \in Seqs, AppendHash(s) PROVE Inv'
<1> DEFINE c == [commit[s] EXCEPT !.at = "remove"]
<1>1. Typed
  BY DEF Inv
<1>2. /\ commit[s].at = "append" /\ commit' = [commit EXCEPT ![s].at = "remove"]
      /\ \/ chain' = Append(chain, s)
         \/ (\E r \in Seqs \ {s} : commit[r].at = "append") /\ chain' = chain
      /\ UNCHANGED <<primary, issued, accepted, pool, run, check, balance, files, torn, up,
                     crashes>>
  BY DEF AppendHash
<1>3. /\ s \in Issued
      /\ primary => /\ Underway(s, commit[s], balance)
                    /\ IsChain(chain, s)
                    /\ files = 0 .. s - 1
  BY <1>2, ThreadIs DEF Appended
<1>4. /\ [commit EXCEPT ![s].at = "remove"] = [commit EXCEPT ![s] = c]
      /\ c \in Commits /\ c.at = "remove" /\ c.tx = commit[s].tx
  <2>1. "remove" \in Labels
    BY DEF Labels
  <2> QED
    BY <2>1, AtLabel
<1> HIDE DEF c
<1>5. ASSUME primary
      PROVE  Underway(s, c, balance) /\ IsChain(chain', Len(issued))
  <2>1. /\ s = Len(issued) - 1 /\ s \in Nat /\ Len(issued) = s + 1
        /\ \A r \in Issued \ {s} : commit[r].at = "over"
    <3>1. s \in Nat /\ Len(issued) \in Nat
      BY <1>1, <1>3, BlockIs
    <3> QED
      BY <1>2, <1>3, <1>5, <3>1, TheOne
  <2>2. ~ \E r \in Seqs \ {s} : commit[r].at = "append"
    <3>1. \A r \in Seqs : commit[r].at = "append" => r \in Issued
      BY ThreadIs
    <3> QED
      BY <2>1, <3>1
  <2>3. chain' = Append(chain, s) /\ chain \in Seq(Seqs \cup {Genesis}) /\ s \in Seqs
    BY <1>1, <1>2, <2>2 DEF Typed
  <2>4. /\ Len(chain') = Len(chain) + 1
        /\ \A i \in 1 .. Len(chain) : chain'[i] = chain[i]
        /\ chain'[Len(chain) + 1] = s
    BY <2>3, AppendProperties
  <2>5. Len(chain) = s + 1 /\ \A i \in 1 .. s + 1 : chain[i] = PrevHash(i - 1)
    BY <1>3, <1>5 DEF IsChain
  <2>6. PrevHash(s + 1) = s
    BY <2>1 DEF PrevHash
  <2>7. \A i \in 1 .. (s + 1) + 1 : chain'[i] = PrevHash(i - 1)
    <3>1. \A i \in 1 .. (s + 1) + 1 : i \in 1 .. s + 1 \/ (i = (s + 1) + 1 /\ i - 1 = s + 1)
      BY <2>1
    <3> QED
      BY <2>1, <2>4, <2>5, <2>6, <3>1
  <2>8. IsChain(chain', Len(issued))
    BY <2>1, <2>4, <2>5, <2>7 DEF IsChain
  <2>9. Underway(s, c, balance)
    BY <1>2, <1>3, <1>4, <1>5 DEF Underway, Appended
  <2> QED
    BY <2>8, <2>9
<1>6. balance \in Balances /\ files \subseteq Issued /\ torn \subseteq Issued
  BY <1>1 DEF Typed
<1> QED
  BY <1>2, <1>3, <1>4, <1>5, <1>6, CommitStep DEF Appended, Updating, Writing

\* RemoveTxFromPool keeps the invariant.
LEMMA RemoveTxFromPoolInv == ASSUME Inv, NEW s \in Seqs, RemoveTxFromPool(s) PROVE Inv'
<1> DEFINE c == [commit[s] EXCEPT !.at = "open"]
<1>1. Typed
  BY DEF Inv
<1>2. /\ commit[s].at = "remove" /\ commit' = [commit EXCEPT ![s].at = "open"]
      /\ pool' \subseteq pool
      /\ UNCHANGED <<primary, issued, accepted, run, check, balance, chain, files, torn, up,
                     crashes>>
  BY DEF RemoveTxFromPool, PoolRemove
<1>3. /\ s \in Issued
      /\ primary => /\ Underway(s, commit[s], balance)
                    /\ IsChain(chain, Len(issued))
                    /\ files = 0 .. s - 1
  BY <1>2, ThreadIs DEF Appended
<1>4. /\ [commit EXCEPT ![s].at = "open"] = [commit EXCEPT ![s] = c]
      /\ c \in Commits /\ c.at = "open" /\ c.tx = commit[s].tx
  <2>1. "open" \in Labels
    BY DEF Labels
  <2> QED
    BY <2>1, AtLabel
<1> HIDE DEF c
<1>5. primary => Underway(s, c, balance)
  BY <1>2, <1>3, <1>4 DEF Underway, Appended
<1>6. balance \in Balances /\ files \subseteq Issued /\ torn \subseteq Issued
  BY <1>1 DEF Typed
<1> QED
  BY <1>2, <1>3, <1>4, <1>5, <1>6, CommitStep DEF Appended, Updating, Writing

\* The creation of a block file keeps the invariant.
LEMMA OpenFileInv == ASSUME Inv, NEW s \in Seqs, OpenFile(s) PROVE Inv'
<1> DEFINE c == [commit[s] EXCEPT !.at = "close"]
<1>1. Typed
  BY DEF Inv
<1>2. /\ commit[s].at = "open" /\ commit' = [commit EXCEPT ![s].at = "close"]
      /\ torn' = torn \cup {s}
      /\ UNCHANGED <<primary, issued, accepted, pool, run, check, balance, chain, files, up,
                     crashes>>
  BY DEF OpenFile
<1>3. /\ s \in Issued
      /\ primary => /\ Underway(s, commit[s], balance)
                    /\ IsChain(chain, Len(issued))
                    /\ files = 0 .. s - 1
  BY <1>2, ThreadIs DEF Appended
<1>4. /\ [commit EXCEPT ![s].at = "close"] = [commit EXCEPT ![s] = c]
      /\ c \in Commits /\ c.at = "close" /\ c.tx = commit[s].tx
  <2>1. "close" \in Labels
    BY DEF Labels
  <2> QED
    BY <2>1, AtLabel
<1> HIDE DEF c
<1>5. primary => Underway(s, c, balance)
  BY <1>2, <1>3, <1>4 DEF Underway, Appended
<1>6. balance \in Balances /\ files \subseteq Issued /\ torn' \subseteq Issued
  BY <1>1, <1>2, <1>3 DEF Typed
<1> QED
  BY <1>2, <1>3, <1>4, <1>5, <1>6, CommitStep DEF Appended, Updating, Writing

\* The end of CommitProposal keeps it: the primary has the files of all blocks now.
LEMMA CloseFileInv == ASSUME Inv, NEW s \in Seqs, CloseFile(s) PROVE Inv'
<1> DEFINE c == [commit[s] EXCEPT !.at = "over"]
<1>1. Typed
  BY DEF Inv
<1>2. /\ commit[s].at = "close" /\ commit' = [commit EXCEPT ![s].at = "over"]
      /\ torn' = torn \ {s} /\ files' = files \cup {s}
      /\ UNCHANGED <<primary, issued, accepted, pool, run, check, balance, chain, up,
                     crashes>>
  BY DEF CloseFile
<1>3. /\ s \in Issued
      /\ primary => /\ Underway(s, commit[s], balance)
                    /\ IsChain(chain, Len(issued))
                    /\ files = 0 .. s - 1
  BY <1>2, ThreadIs DEF Appended
<1>4. /\ [commit EXCEPT ![s].at = "over"] = [commit EXCEPT ![s] = c]
      /\ c \in Commits /\ c.at = "over" /\ c.tx = commit[s].tx
  <2>1. "over" \in Labels
    BY DEF Labels
  <2> QED
    BY <2>1, AtLabel
<1> HIDE DEF c
<1>5. primary => Underway(s, c, balance)
  BY <1>2, <1>3, <1>4 DEF Underway, Appended
<1>6. balance \in Balances /\ files' \subseteq Issued /\ torn' \subseteq Issued /\ s \in files'
  BY <1>1, <1>2, <1>3 DEF Typed
<1>7. primary => files' = Issued
  <2> SUFFICES ASSUME primary PROVE files' = Issued
    OBVIOUS
  <2>1. s = Len(issued) - 1 /\ s \in Nat /\ Len(issued) \in Nat
    BY <1>1, <1>2, <1>3, BlockIs, TheOne
  <2>2. files = 0 .. s - 1
    BY <1>3
  <2>3. \A r \in Issued : r \in 0 .. s - 1 \/ r = s
    BY <2>1 DEF Issued
  <2> QED
    BY <1>2, <1>6, <2>2, <2>3
<1> QED
  BY <1>2, <1>3, <1>4, <1>5, <1>6, <1>7, CommitStep DEF Appended, Updating, Writing

-----------------------------------------------------------------------------
(***************************************************************************)
(* Restarts.                                                               *)
(***************************************************************************)
Chains == Seq(Seqs \cup {Genesis})

\* The chain q of the first m blocks is what k rounds over the files find.
IsRead(q, m, k) ==
    /\ m \in 0 .. k
    /\ q \in Chains
    /\ IsChain(q, m)
    /\ 0 .. m - 1 \subseteq files
    /\ m = k \/ m \notin files

\* One round: the file that follows the chain is that of the next number.
LEMMA ReadStep ==
  ASSUME Typed, NEW q, NEW m, NEW k \in 0 .. MaxSeq - 1, IsRead(q, m, k)
  PROVE  LET next == {s \in files : issued[s + 1].prev = Last(q)}
         IN  /\ next = {} => IsRead(q, m, k + 1)
             /\ next # {} => IsRead(Append(q, CHOOSE s \in next : TRUE), m + 1, k + 1)
<1> DEFINE next == {s \in files : issued[s + 1].prev = Last(q)}
<1>1. /\ m \in 0 .. k /\ q \in Chains /\ IsChain(q, m) /\ 0 .. m - 1 \subseteq files
      /\ m = k \/ m \notin files
      /\ k \in Nat /\ m \in Nat /\ MaxSeq \in Nat
  BY Given DEF IsRead
<1>2. Last(q) = PrevHash(m)
  <2>1. Len(q) = m + 1 /\ m + 1 \in 1 .. m + 1 /\ (m + 1) - 1 = m
    BY <1>1 DEF IsChain
  <2>2. q[m + 1] = PrevHash((m + 1) - 1)
    BY <1>1, <2>1 DEF IsChain
  <2> QED
    BY <2>1, <2>2 DEF Last
<1>3. \A s \in files : s \in Nat /\ issued[s + 1].prev = PrevHash(s)
  <2>1. files \subseteq Issued
    BY DEF Typed
  <2> QED
    BY <2>1, BlockIs
<1>4. \A s \in Nat : PrevHash(s) = PrevHash(m) <=> s = m
  BY <1>1, Given DEF PrevHash
<1>5. next = IF m \in files THEN {m} ELSE {}
  BY <1>2, <1>3, <1>4
<1> HIDE DEF next
<1>6. CASE m \in files
  <2>1. m = k /\ (CHOOSE s \in next : TRUE) = m
    BY <1>1, <1>5, <1>6
  <2>2. m \in Seqs
    BY <1>1, <2>1 DEF Seqs
  <2>3. /\ Append(q, m) \in Chains
        /\ Len(Append(q, m)) = Len(q) + 1
        /\ \A i \in 1 .. Len(q) : Append(q, m)[i] = q[i]
        /\ Append(q, m)[Len(q) + 1] = m
    BY <1>1, <2>2, AppendProperties DEF Chains
  <2>4. Len(q) = m + 1 /\ \A i \in 1 .. m + 1 : q[i] = PrevHash(i - 1)
    BY <1>1 DEF IsChain
  <2>5. PrevHash(m + 1) = m
    BY <1>1 DEF PrevHash
  <2>6. \A i \in 1 .. (m + 1) + 1 : Append(q, m)[i] = PrevHash(i - 1)
    <3>1. \A i \in 1 .. (m + 1) + 1 : i \in 1 .. m + 1 \/ (i = (m + 1) + 1 /\ i - 1 = m + 1)
      BY <1>1
    <3> QED
      BY <1>1, <2>3, <2>4, <2>5, <3>1
  <2>7. IsChain(Append(q, m), m + 1)
    BY <1>1, <2>3, <2>4, <2>6 DEF IsChain
  <2>8. 0 .. (m + 1) - 1 \subseteq files
    <3>1. \A i \in 0 .. (m + 1) - 1 : i \in 0 .. m - 1 \/ i = m
      BY <1>1
    <3> QED
      BY <1>1, <1>6, <3>1
  <2>9. IsRead(Append(q, m), m + 1, k + 1)
    BY <1>1, <2>1, <2>3, <2>7, <2>8 DEF IsRead
  <2> QED
    BY <1>5, <1>6, <2>1, <2>9 DEF next
<1>7. CASE m \notin files
  <2>1. next = {}
    BY <1>5, <1>7
  <2>2. IsRead(q, m, k + 1)
    BY <1>1, <1>7 DEF IsRead
  <2> QED
    BY <2>1, <2>2 DEF next
<1> QED
  BY <1>6, <1>7

ReadsBack(q) == \E m : IsRead(q, m, MaxSeq)

\* ReadBlockChainHash reads the blocks from the first on, up to the first that has
\* no file.
LEMMA ReadIs == ASSUME Typed PROVE ReadsBack(ReadBlockChainHash(files))
<1> DEFINE next(c) == {s \in files : issued[s + 1].prev = Last(c)}
           one(c) == IF next(c) = {} THEN c ELSE Append(c, CHOOSE s \in next(c) : TRUE)
           step == [k \in 1 .. MaxSeq |-> [c \in Chains |-> one(c)]]
           Reads(g) == g = [k \in 0 .. MaxSeq |-> IF k = 0 THEN <<Genesis>> ELSE one(g[k - 1])]
<1>1. MaxSeq \in Nat /\ <<Genesis>> \in Chains
  BY Given DEF Chains
<1>2. ASSUME NEW c \in Chains PROVE one(c) \in Chains
  <2>1. next(c) \subseteq Seqs
    BY BlockIs DEF Typed
  <2>2. next(c) # {} => (CHOOSE s \in next(c) : TRUE) \in next(c)
    OBVIOUS
  <2> QED
    BY <2>1, <2>2, AppendProperties DEF Chains
<1>3. ASSUME NEW c, NEW m, NEW k \in 0 .. MaxSeq - 1, IsRead(c, m, k)
      PROVE  IsRead(one(c), m, k + 1) \/ IsRead(one(c), m + 1, k + 1)
  BY <1>3, ReadStep
<1> HIDE DEF one, next
<1>4. step \in [1 .. MaxSeq -> [Chains -> Chains]]
  BY <1>2
<1>5. \A k \in 1 .. MaxSeq, c \in Chains : step[k][c] = one(c)
  OBVIOUS
<1> HIDE DEF step
<1>6. PICK h : IsTrace(h, Chains, <<Genesis>>, MaxSeq, step)
  BY <1>1, <1>4, TraceExists
<1>7. \E g : Reads(g)
  <2>1. /\ h \in [0 .. MaxSeq -> Chains] /\ h[0] = <<Genesis>>
        /\ \A k \in 1 .. MaxSeq : h[k] = step[k][h[k - 1]]
    BY <1>6 DEF IsTrace
  <2>2. \A k \in 1 .. MaxSeq : k - 1 \in 0 .. MaxSeq
    BY <1>1
  <2>3. \A k \in 1 .. MaxSeq : h[k] = one(h[k - 1])
    BY <1>5, <2>1, <2>2
  <2>4. \A k \in 0 .. MaxSeq : k = 0 \/ k \in 1 .. MaxSeq
    BY <1>1
  <2>5. \A k \in 0 .. MaxSeq : h[k] = IF k = 0 THEN <<Genesis>> ELSE one(h[k - 1])
    BY <2>1, <2>3, <2>4
  <2>6. Reads(h)
    BY <2>1, <2>5
  <2> QED
    BY <2>6
<1> DEFINE chains == CHOOSE g : Reads(g)
<1>8. ReadBlockChainHash(files) = chains[MaxSeq]
  BY Zenon DEF ReadBlockChainHash, one, next
<1>9. Reads(chains)
  BY <1>7, Zenon
<1> HIDE DEF chains
<1>10. chains[0] = <<Genesis>> /\ \A k \in 1 .. MaxSeq : chains[k] = one(chains[k - 1])
  BY <1>1, <1>9
<1> DEFINE E == {k \in 0 .. MaxSeq : \E m : IsRead(chains[k], m, k)}
           id == [k \in 0 .. MaxSeq |-> k]
<1>11. 0 \in E
  <2>1. IsChain(<<Genesis>>, 0)
    BY DEF IsChain, PrevHash
  <2>2. IsRead(<<Genesis>>, 0, 0)
    BY <1>1, <2>1 DEF IsRead
  <2> QED
    BY <1>1, <1>10, <2>2
<1>12. ASSUME NEW k \in 1 .. MaxSeq, k - 1 \in E PROVE k \in E
  <2>1. k - 1 \in 0 .. MaxSeq - 1 /\ (k - 1) + 1 = k /\ k \in 0 .. MaxSeq
    BY <1>1
  <2>2. PICK m : IsRead(chains[k - 1], m, k - 1)
    BY <1>12
  <2>3. IsRead(one(chains[k - 1]), m, k) \/ IsRead(one(chains[k - 1]), m + 1, k)
    BY <1>3, <2>1, <2>2
  <2> QED
    BY <1>10, <2>1, <2>3
<1>13. id[0] \in E /\ \A k \in 1 .. MaxSeq : id[k - 1] \in E => id[k] \in E
  <2>1. \A k \in 1 .. MaxSeq : k - 1 \in 0 .. MaxSeq /\ k \in 0 .. MaxSeq
    BY <1>1
  <2> HIDE DEF E
  <2> QED
    BY <1>1, <1>11, <1>12, <2>1
<1>14. \A k \in 0 .. MaxSeq : id[k] \in E
  <2> HIDE DEF E, id
  <2> QED
    BY <1>1, <1>13, Along
<1>15. MaxSeq \in E
  <2>1. MaxSeq \in 0 .. MaxSeq /\ id[MaxSeq] = MaxSeq
    BY <1>1
  <2> HIDE DEF E
  <2> QED
    BY <1>14, <2>1
<1> QED
  BY <1>8, <1>15 DEF ReadsBack

\* Restart keeps the invariant.
LEMMA RestartInv == ASSUME Inv, Restart PROVE Inv'
<1>1. Typed
  BY DEF Inv
<1>2. /\ ~ primary /\ crashes < MaxCrashes
      /\ crashes' = crashes + 1 /\ up' = (torn = {})
      /\ chain' = ReadBlockChainHash(files)
      /\ balance' = InitBalance
      /\ UNCHANGED <<primary, issued, accepted, pool, run, files, torn>>
  BY DEF Restart
<1>3. /\ check' = [s \in Seqs |-> IF check[s].at = "none" THEN NoCheck
                                  ELSE [NoCheck EXCEPT !.at = "over"]]
      /\ commit' = [s \in Seqs |-> IF commit[s].at = "none" THEN NoCommit
                                   ELSE [NoCommit EXCEPT !.at = "over"]]
  BY DEF Restart
<1>4. Issued' = Issued /\ Issued \subseteq Seqs /\ files \subseteq Issued
  BY <1>1, <1>2, BlockIs DEF Issued, Typed
<1>5. PICK m : IsRead(chain', m, MaxSeq)
  BY <1>1, <1>2, ReadIs DEF ReadsBack
<1>6. /\ m \in Nat /\ m <= MaxSeq /\ MaxSeq \in Nat
      /\ chain' \in Chains /\ Len(chain') = m + 1
      /\ \A i \in 1 .. m + 1 : chain'[i] = PrevHash(i - 1)
      /\ 0 .. m - 1 \subseteq files
  BY SMTT(30), <1>5, Given DEF IsRead, IsChain
<1>7. ThreadsTyped'
  <2>1. <<>> \in Notes
    <3>1. <<>> \in [{} -> Int] /\ {} \in SUBSET Accounts
      OBVIOUS
    <3> QED
      BY <3>1 DEF Notes
  <2>2. /\ NoCheck \in Checks /\ NoCheck.at = "none"
        /\ [NoCheck EXCEPT !.at = "over"] \in Checks
        /\ [NoCheck EXCEPT !.at = "over"].at = "over"
    BY <2>1 DEF NoCheck, Checks, CheckLabels
  <2>3. /\ NoCommit \in Commits /\ NoCommit.at = "none"
        /\ [NoCommit EXCEPT !.at = "over"] \in Commits
        /\ [NoCommit EXCEPT !.at = "over"].at = "over"
    BY DEF NoCommit, Commits, Labels
  <2> DEFINE k == [NoCheck EXCEPT !.at = "over"]
             c == [NoCommit EXCEPT !.at = "over"]
  <2> HIDE DEF k, c
  <2>4. check' \in [Seqs -> Checks] /\ commit' \in [Seqs -> Commits]
    BY <1>3, <2>2, <2>3 DEF k, c
  <2>5. ASSUME NEW s \in Seqs
        PROVE  /\ check'[s].at = "none" => check'[s] = NoCheck /\ check[s].at = "none"
               /\ check[s].at = "none" => check'[s].at = "none"
               /\ check'[s].at # "txs"
               /\ commit'[s].at = "none" => commit'[s] = NoCommit /\ commit[s].at = "none"
               /\ commit[s].at = "none" => commit'[s].at = "none"
               /\ commit'[s].at \notin Updating
    BY <1>3, <2>2, <2>3 DEF k, c, Updating
  <2>6. \A s \in Seqs \ Issued : check[s].at = "none" /\ commit[s].at = "none"
    BY <1>1 DEF Typed, ThreadsTyped
  <2> QED
    BY <1>4, <2>4, <2>5, <2>6 DEF ThreadsTyped, Checks, Commits
<1>8. BlocksTyped'
  <2>1. \A s : PrevHash(s)' = PrevHash(s)
    BY DEF PrevHash
  <2> QED
    BY <1>1, <1>2, <1>4, <2>1 DEF Typed, BlocksTyped
<1>9. Typed'
  <2>1. crashes' \in 0 .. MaxCrashes
    BY <1>1, <1>2, Given DEF Typed
  <2>2. chain' \in Seq(Seqs \cup {Genesis}) /\ Len(chain') > 0
    BY <1>6 DEF Chains
  <2>3. balance' \in Balances /\ up' \in BOOLEAN
    BY <1>2, Given
  <2> QED
    BY <1>1, <1>2, <1>4, <1>7, <1>8, <2>1, <2>2, <2>3 DEF Typed
<1>10. PrimarySteps' /\ CheckSteps'
  BY <1>2 DEF PrimarySteps, CheckSteps
<1>11. ChainHasFiles'
  <2>1. \A i \in 2 .. Len(chain') : chain'[i] \in files
    <3> SUFFICES ASSUME NEW i \in 2 .. Len(chain') PROVE chain'[i] \in files
      OBVIOUS
    <3>1. i \in 1 .. m + 1 /\ i - 1 # 0 /\ (i - 1) - 1 \in 0 .. m - 1
      BY <1>6
    <3> QED
      BY <1>6, <3>1 DEF PrevHash
  <2> QED
    BY <1>2, <1>4, <2>1 DEF ChainHasFiles
<1> QED
  BY <1>9, <1>10, <1>11 DEF Inv

-----------------------------------------------------------------------------
(***************************************************************************)
(* The theorems.                                                           *)
(***************************************************************************)
\* A step keeps the invariant.
LEMMA InvNext == ASSUME Inv, [Next]_vars PROVE Inv'
<1>1. CASE \E tx \in Txs : AddTransx(tx)
  BY <1>1, AddTransxInv
<1>2. CASE RunTest
  BY <1>2, RunTestInv
<1>3. CASE PackBlock
  BY <1>3, PackBlockInv
<1>4. CASE BlockProposalReturn
  BY <1>4, BlockProposalReturnInv
<1>5. CASE \E S \in SUBSET (Txs \ accepted) : PeerPublish(S)
  BY <1>5, PeerPublishInv
<1>6. CASE \E s \in Seqs : CheckPrev(s)
  BY <1>6, CheckPrevInv
<1>7. CASE \E s \in Seqs : CheckTx(s)
  BY <1>7, CheckTxInv
<1>8. CASE \E s \in Seqs : CommitStart(s)
  BY <1>8, CommitStartInv
<1>9. CASE \E s \in Seqs : UpdateBlanceStep(s)
  BY <1>9, GetFromInv, GetToInv, PutFromInv, PutToInv DEF UpdateBlanceStep
<1>10. CASE \E s \in Seqs : AppendHash(s)
  BY <1>10, AppendHashInv
<1>11. CASE \E s \in Seqs : RemoveTxFromPool(s)
  BY <1>11, RemoveTxFromPoolInv
<1>12. CASE \E s \in Seqs : WriteBlock(s)
  BY <1>12, OpenFileInv, CloseFileInv DEF WriteBlock
<1>13. CASE Restart
  BY <1>13, RestartInv
<1>14. CASE UNCHANGED vars
  <2>1. UNCHANGED <<primary, issued, run, check, commit, balance, chain, files, torn, crashes>>
        /\ accepted' = accepted /\ pool' = pool /\ up' = up
    BY <1>14 DEF vars
  <2>2. /\ accepted \subseteq Txs /\ pool \subseteq accepted /\ IsPool(pool) /\ up \in BOOLEAN
    BY DEF Inv, Typed
  <2> QED
    BY <2>1, <2>2, PoolStep
<1> QED
  BY <1>1, <1>2, <1>3, <1>4, <1>5, <1>6, <1>7, <1>8, <1>9, <1>10, <1>11, <1>12, <1>13, <1>14 DEF Next

\* The invariant holds of every state the node can be in.
THEOREM Invariant == Spec => []Inv
<1>1. Init => Inv
  BY InvInit
<1>2. Inv /\ [Next]_vars => Inv'
  BY InvNext
<1> QED
  BY <1>1, <1>2, PTL DEF Spec

\* The variables have their types: no thread is past the end of its block, and
\* every transaction of a block was accepted by a coin node.
THEOREM Types == Spec => []TypeOK
<1>1. Inv => TypeOK
  <2> SUFFICES ASSUME Inv PROVE TypeOK
    OBVIOUS
  <2>1. Typed
    BY DEF Inv
  <2>2. Len(issued) \in 0 .. MaxSeq
    BY <2>1, BlockIs, Given DEF Typed, BlocksTyped
  <2>3. \A i \in 1 .. Len(issued) : issued[i].txs \in Seq(accepted)
    <3> SUFFICES ASSUME NEW i \in 1 .. Len(issued) PROVE issued[i].txs \in Seq(accepted)
      OBVIOUS
    <3>1. i - 1 \in Issued /\ (i - 1) + 1 = i
      BY <2>1, BlockIs DEF Issued
    <3> QED
      BY <2>1, <3>1 DEF Typed, BlocksTyped
  <2>4. ASSUME NEW s \in Seqs
        PROVE  /\ check[s].at \in {"none", "txs", "yes", "no", "over"}
               /\ check[s].at = "txs" => check[s].tx \in 1 .. Len(issued[s + 1].txs)
               /\ commit[s].at \in Labels
               /\ commit[s].at \in {"from", "to", "debit", "credit"}
                     => commit[s].tx \in 1 .. Len(issued[s + 1].txs)
    <3>1. check[s] \in Checks /\ commit[s] \in Commits
      BY <2>1 DEF Typed, ThreadsTyped, Checks, Commits
    <3>2. check[s].at \in CheckLabels /\ commit[s].at \in Labels
      BY <3>1 DEF Checks, Commits
    <3>3. CASE s \in Issued
      BY <2>1, <3>2, <3>3 DEF Typed, ThreadsTyped, CheckLabels, Updating
    <3>4. CASE s \notin Issued
      BY <2>1, <3>2, <3>4 DEF Typed, ThreadsTyped, CheckLabels, Updating
    <3> QED
      BY <3>3, <3>4
  <2>5. Issued \subseteq Seqs
    BY <2>1, BlockIs
  <2> QED
    BY <2>1, <2>2, <2>3, <2>4, <2>5 DEF Typed, TypeOK, Balances
<1> QED
  BY <1>1, Invariant, PTL

\* The primary judges its own block as one look at the ledger before the block
\* would, although it reads one balance at a time with no lock.
THEOREM ChecksAreExact == Spec => []CheckExact
<1>1. Inv => CheckExact
  <2> SUFFICES ASSUME Inv, primary, NEW s \in Seqs,
                      check[s].at \in {"yes", "no"}, commit[s].at = "none"
               PROVE  check[s].at = "yes" <=> Payable(s)
    BY DEF CheckExact
  <2>1. s \in Issued
    BY DEF Inv, Typed, ThreadsTyped
  <2>2. CheckOf(s, check[s])
    BY <2>1 DEF Inv, CheckSteps
  <2> QED
    BY <2>2 DEF CheckOf
<1> QED
  BY <1>1, Invariant, PTL

\* What Run has tested outside the lock still holds in PackBlock, the file of the
\* last block can be read, and the new block goes on top of all the others.
THEOREM PackIsReady == Spec => []ReadyToPack
<1>1. Inv => ReadyToPack
  <2> SUFFICES ASSUME Inv, run = "pack"
               PROVE  /\ TryPublishCond
                      /\ Last(chain) \in files \cup {Genesis}
                      /\ Last(chain) = PrevHash(Len(issued))
                      /\ balance = After(Len(issued))
    BY DEF ReadyToPack
  <2>1. Typed /\ PrimarySteps /\ primary
    BY DEF Inv, Typed
  <2>2. /\ TryPublishCond /\ IsChain(chain, Len(issued)) /\ files = Issued
        /\ balance = After(Len(issued))
    BY <2>1 DEF PrimarySteps
  <2>3. PICK n \in Nat : n = Len(issued)
    BY <2>1, BlockIs
  <2>4. Last(chain) = PrevHash(n)
    <3>1. Len(chain) = n + 1 /\ n + 1 \in 1 .. n + 1 /\ (n + 1) - 1 = n
      BY <2>2, <2>3 DEF IsChain
    <3>2. chain[n + 1] = PrevHash((n + 1) - 1)
      BY <2>2, <2>3, <3>1 DEF IsChain
    <3> QED
      BY <3>1, <3>2 DEF Last
  <2>5. PrevHash(n) \in files \cup {Genesis}
    BY <2>2, <2>3 DEF PrevHash, Issued
  <2> QED
    BY <2>2, <2>3, <2>4, <2>5
<1> QED
  BY <1>1, Invariant, PTL

\* At the primary the commits that have begun are those of the first blocks, and
\* when none is in UpdateBlance the balances are what these make of them.
LEMMA StartedIs ==
  ASSUME Inv, primary, Quiet
  PROVE  \E k \in 0 .. Len(issued) : Started = 0 .. k - 1 /\ balance = After(k)
<1>1. Typed /\ PrimarySteps
  BY DEF Inv
<1>2. PICK m : m = Settled
  OBVIOUS
<1>3. /\ m \in Nat /\ Len(issued) \in Nat /\ m \in 0 .. Len(issued)
      /\ \A s \in 0 .. m - 1 : commit[s].at = "over"
      /\ run = "call" => m = Len(issued) - 1
      /\ run # "call" => m = Len(issued)
  BY <1>1, <1>2, BlockIs DEF PrimarySteps, Settled
<1>4. /\ \A s \in Seqs : commit[s].at # "none" => s \in 0 .. Len(issued) - 1
      /\ \A s \in 0 .. Len(issued) - 1 : s \in Seqs
  BY <1>1, BlockIs DEF Typed, ThreadsTyped, Issued
<1>5. CASE run = "call" /\ commit[m].at # "none"
  <2>1. m \in Seqs /\ commit[m] \in Commits
    BY <1>1, <1>3, <1>4, <1>5 DEF Typed, ThreadsTyped, Commits
  <2>2. commit[m].at \in {"append"} \cup Appended
    BY <1>5, <2>1 DEF Quiet, Commits, Labels, Appended
  <2>3. balance = After(m + 1)
    BY <1>1, <1>2, <1>5, <2>2 DEF PrimarySteps, Underway
  <2>4. \A s \in 0 .. (m + 1) - 1 : s \in 0 .. m - 1 \/ s = m
    BY <1>3
  <2>5. \A s \in 0 .. (m + 1) - 1 : s \in Started
    <3>1. \A s \in 0 .. (m + 1) - 1 : s \in Seqs
      BY <1>3, <1>4, <1>5
    <3> QED
      BY <1>3, <1>5, <2>4, <3>1 DEF Started
  <2>6. \A s \in Started : s \in 0 .. (m + 1) - 1
    BY <1>3, <1>4, <1>5 DEF Started
  <2>7. Started = 0 .. (m + 1) - 1
    BY <2>5, <2>6
  <2>8. m + 1 \in 0 .. Len(issued)
    BY <1>3, <1>5
  <2> QED
    BY <2>3, <2>7, <2>8
<1>6. CASE run # "call" \/ commit[m].at = "none"
  <2>1. balance = After(m)
    BY <1>1, <1>2, <1>3, <1>6 DEF PrimarySteps, Underway
  <2>2. \A s \in 0 .. m - 1 : s \in Started
    <3>1. \A s \in 0 .. m - 1 : s \in Seqs
      BY <1>3, <1>4
    <3> QED
      BY <1>3, <3>1 DEF Started
  <2>3. \A s \in Started : s \in 0 .. m - 1
    <3>1. \A s \in 0 .. Len(issued) - 1 : s \in 0 .. m - 1 \/ (run = "call" /\ s = m)
      BY <1>3
    <3> QED
      BY <1>4, <1>6, <3>1 DEF Started
  <2>4. Started = 0 .. m - 1
    BY <2>2, <2>3
  <2> QED
    BY <1>3, <2>1, <2>4
<1> QED
  BY <1>5, <1>6

\* Whatever the threads of the primary do, when none of them is in UpdateBlance the
\* balances are those of the first blocks, as many as it was told to commit.
THEOREM PrimaryExecutes == Spec => []PrimaryBalances
<1>1. Inv => PrimaryBalances
  <2> SUFFICES ASSUME Inv, primary, Quiet
               PROVE  LET k == Cardinality(Started)
                      IN  Started = 0 .. (k - 1) /\ balance = After(k)
    BY DEF PrimaryBalances
  <2>1. PICK k \in 0 .. Len(issued) : Started = 0 .. (k - 1) /\ balance = After(k)
    BY StartedIs
  <2>2. k \in Nat
    BY BlockIs DEF Inv
  <2>3. Cardinality(0 .. (k - 1)) = k
    BY <2>2, FS_Interval
  <2> QED
    BY <2>1, <2>3
<1> QED
  BY <1>1, Invariant, PTL

\* A chain whose blocks follow one another is that of the first blocks.
LEMMA LinkedIs ==
  ASSUME Inv, Linked(chain)
  PROVE  \A i \in 1 .. Len(chain) : chain[i] = PrevHash(i - 1)
<1> DEFINE n == Len(chain) - 1
           E == {k \in 0 .. n : chain[k + 1] = PrevHash(k)}
           id == [k \in 0 .. n |-> k]
<1>1. Typed /\ ChainHasFiles /\ n \in Nat /\ Len(chain) = n + 1
  BY DEF Inv, Typed
<1>2. 0 \in E
  BY <1>1 DEF Linked, PrevHash
<1>3. ASSUME NEW k \in 1 .. n, k - 1 \in E PROVE k \in E
  <2>1. /\ k + 1 \in 2 .. Len(chain) /\ (k + 1) - 1 = k /\ (k - 1) + 1 = k
        /\ k \in 0 .. n /\ k \in Nat /\ k - 1 \in Nat
    BY <1>1
  <2>2. chain[k] = PrevHash(k - 1)
    BY <1>3, <2>1
  <2>3. chain[k + 1] \in Issued
    BY <1>1, <2>1 DEF ChainHasFiles
  <2>4. issued[chain[k + 1] + 1].prev = chain[k]
    BY <2>1 DEF Linked
  <2>5. PrevHash(chain[k + 1]) = PrevHash(k - 1) /\ chain[k + 1] \in Nat
    BY <1>1, <2>2, <2>3, <2>4, BlockIs
  <2>6. chain[k + 1] = k - 1
    <3> DEFINE c == chain[k + 1]
    <3>1. PrevHash(c) = PrevHash(k - 1) /\ c \in Nat /\ k - 1 \in Nat
      BY <2>1, <2>5
    <3>2. Genesis \notin Nat
      BY Given
    <3> HIDE DEF c
    <3>3. c = 0 <=> k - 1 = 0
      BY <3>1, <3>2 DEF PrevHash
    <3>4. c = k - 1
      BY <3>1, <3>3 DEF PrevHash
    <3> QED
      BY <3>4 DEF c
  <2>7. PrevHash(k) = k - 1
    BY <1>3 DEF PrevHash
  <2> QED
    BY <2>1, <2>6, <2>7
<1>4. id[0] \in E /\ \A k \in 1 .. n : id[k - 1] \in E => id[k] \in E
  <2>1. \A k \in 1 .. n : k - 1 \in 0 .. n /\ k \in 0 .. n
    BY <1>1
  <2> HIDE DEF E, n
  <2> QED
    BY <1>1, <1>2, <1>3, <2>1
<1>5. \A k \in 0 .. n : id[k] \in E
  <2> HIDE DEF E, id, n
  <2> QED
    BY <1>1, <1>4, Along
<1>6. \A i \in 1 .. Len(chain) : i - 1 \in 0 .. n /\ (i - 1) + 1 = i
  BY <1>1
<1> QED
  BY <1>5, <1>6

\* What a restart makes of the chain.
RestartReads ==
    crashes' # crashes =>
        /\ Linked(chain')
        /\ Linked(chain) =>
              \A i \in 1 .. Len(chain) : CommittedUpTo(i) =>
                  i <= Len(chain') /\ chain'[i] = chain[i]

\* A restart reads a chain, and if the old one was a chain, all of it but what was
\* still being committed and what is above that.
LEMMA RestartReadsIt == ASSUME Inv, Restart PROVE RestartReads
<1>1. Typed /\ ChainHasFiles
  BY DEF Inv
<1>2. PICK m : IsRead(chain', m, MaxSeq)
  BY <1>1, ReadIs DEF ReadsBack, Restart
<1>3. /\ m \in Nat /\ m <= MaxSeq /\ MaxSeq \in Nat
      /\ Len(chain') = m + 1
      /\ \A i \in 1 .. m + 1 : chain'[i] = PrevHash(i - 1)
      /\ 0 .. m - 1 \subseteq files
      /\ m = MaxSeq \/ m \notin files
  BY <1>2, Given DEF IsRead, IsChain
<1>4. files \subseteq Issued /\ Issued \subseteq Seqs
  BY <1>1, BlockIs DEF Typed
<1>5. Linked(chain')
  <2>1. chain'[1] = Genesis
    BY <1>3 DEF PrevHash
  <2>2. ASSUME NEW i \in 2 .. Len(chain') PROVE issued[chain'[i] + 1].prev = chain'[i - 1]
    <3>1. /\ i \in 1 .. m + 1 /\ i - 1 \in 1 .. m + 1 /\ i - 1 # 0
          /\ (i - 1) - 1 \in 0 .. m - 1
      BY <1>3
    <3>2. chain'[i] = (i - 1) - 1 /\ chain'[i - 1] = PrevHash((i - 1) - 1)
      BY <1>3, <3>1 DEF PrevHash
    <3>3. (i - 1) - 1 \in Issued
      BY <1>3, <1>4, <3>1
    <3> QED
      BY <1>1, <3>2, <3>3, BlockIs
  <2> QED
    BY <2>1, <2>2 DEF Linked
<1>6. ASSUME Linked(chain), NEW i \in 1 .. Len(chain), CommittedUpTo(i)
      PROVE  i <= Len(chain') /\ chain'[i] = chain[i]
  <2>1. Len(chain) \in Nat /\ i \in Nat /\ \A j \in 2 .. i : j \in 2 .. Len(chain) /\ j \in 1 .. Len(chain)
    BY <1>1 DEF Typed
  <2>2. \A j \in 1 .. Len(chain) : chain[j] = PrevHash(j - 1)
    BY <1>6, LinkedIs
  <2>3. \A j \in 2 .. i : chain[j] \in files
    <3>1. \A j \in 2 .. i : commit[chain[j]].at = "over"
      BY <1>6 DEF CommittedUpTo
    <3> QED
      BY <1>1, <2>1, <3>1 DEF ChainHasFiles
  <2>4. \A s \in 0 .. i - 2 : s \in files
    <3> SUFFICES ASSUME NEW s \in 0 .. i - 2 PROVE s \in files
      OBVIOUS
    <3>1. s \in Nat /\ s + 2 \in 2 .. i /\ (s + 2) - 1 # 0 /\ ((s + 2) - 1) - 1 = s
      BY <2>1
    <3>2. chain[s + 2] = s
      BY <2>1, <2>2, <3>1 DEF PrevHash
    <3> QED
      BY <2>3, <3>1, <3>2
  <2>5. i <= m + 1
    <3> SUFFICES ASSUME m + 1 < i PROVE FALSE
      BY <1>3, <2>1
    <3>1. m \in 0 .. i - 2
      BY <1>3, <2>1
    <3>2. m \in files /\ m \in Seqs
      BY <1>4, <2>4, <3>1
    <3> QED
      BY <1>3, <3>2 DEF Seqs
  <2> QED
    BY <1>3, <2>1, <2>2, <2>5
<1> QED
  BY <1>5, <1>6 DEF RestartReads

\* The chain that is read back at a restart is one, and of a chain that was one no
\* block is lost that had been committed to the end with all blocks below it.
THEOREM RestartKeepsChain == Spec => RestartReadsChain
<1>1. Inv /\ [Next]_vars => [RestartReads]_vars
  <2> SUFFICES ASSUME Inv, Next, crashes' # crashes PROVE RestartReads
    BY DEF RestartReads, vars
  <2>1. Restart
    BY DEF Next, AddTransx, RunTest, PackBlock, BlockProposalReturn, PeerPublish, CheckPrev,
           CheckTx, CommitStart, UpdateBlanceStep, GetFrom, GetTo, PutFrom, PutTo, AppendHash,
           RemoveTxFromPool, WriteBlock, OpenFile, CloseFile
  <2> QED
    BY <2>1, RestartReadsIt
<1>2. RestartReadsChain <=> [][RestartReads]_vars
  BY DEF RestartReadsChain, RestartReads
<1>3. Spec => [][Next]_vars
  BY DEF Spec
<1> QED
  BY <1>1, <1>2, <1>3, Invariant, PTL
=============================================================================
