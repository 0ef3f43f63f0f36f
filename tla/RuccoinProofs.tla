------------------------------ MODULE RuccoinProofs ------------------------------
(***************************************************************************)
(* Proofs about a deployment of coin nodes, for every number of nodes,     *)
(* transactions, blocks and restarts: what becomes of a transaction that   *)
(* the primary's coin node accepted, and what its chain is.                *)
(***************************************************************************)
EXTENDS Ruccoin, LedgerProofs

-----------------------------------------------------------------------------
(***************************************************************************)
(* The inductive invariant.                                                *)
(***************************************************************************)
Blocks == [prev : Seqs \cup {Genesis}, txs : Seq(Txs)]

IsSequence(q) == \E S : q \in Seq(S)

Typed ==
    /\ issued \in Seq(Blocks)
    /\ Len(issued) <= MaxSeq
    /\ executed = [n \in Nodes |-> executed[n]]
    /\ IsSequence(executed[Primary])
    /\ accepted \subseteq Txs
    /\ pool \subseteq accepted
    /\ lost \subseteq accepted
    /\ IsPool(pool)
    /\ chain = [n \in Nodes |-> chain[n]]
    /\ chain[Primary] \in Seq(Seqs \cup {Genesis})

\* Transaction tx is in block s.
InBlock(tx, s) == \E i \in 1 .. Len(issued[s + 1].txs) : issued[s + 1].txs[i] = tx

\* The block the primary has not executed yet, if there is one, is the last.
Pending(s) == s \in 0 .. Len(issued) - 1 /\ s \notin Pbft!Done(Primary)

OneByOne ==
    /\ Pbft!Done(Primary) \subseteq 0 .. Len(issued) - 1
    /\ \A s \in Seqs : Pending(s) => s = Len(issued) - 1

\* A transaction is in the pool until the block it is in is executed, and in no
\* other block.
Proposed ==
    /\ \A s \in 0 .. Len(issued) - 1 : \A tx : InBlock(tx, s) => tx \in accepted
    /\ Primary \notin aborted =>
          /\ \A s \in Seqs : \A tx : Pending(s) /\ InBlock(tx, s) => tx \in pool
          /\ \A s \in Pbft!Done(Primary) : \A tx : InBlock(tx, s) => tx \notin pool
    /\ \A s, r \in Pbft!Done(Primary) : \A tx : InBlock(tx, s) /\ InBlock(tx, r) => s = r

\* The chain, and where the block that is proposed will go.
Chained ==
    /\ Len(chain[Primary]) > 0
    /\ chain[Primary][1] = Genesis
    /\ \A i \in 2 .. Len(chain[Primary]) :
          /\ chain[Primary][i] \in 0 .. Len(issued) - 1
          /\ issued[chain[Primary][i] + 1].prev = chain[Primary][i - 1]
    /\ Primary \notin aborted =>
          \A s \in Seqs : Pending(s) => issued[s + 1].prev = chain[Primary][Len(chain[Primary])]

Inv == Typed /\ OneByOne /\ Proposed /\ Chained /\ AcceptedIsKept

-----------------------------------------------------------------------------
(***************************************************************************)
(* Sequences, and transactions with one key.                               *)
(***************************************************************************)
\* A sequence of whatever elements is longer by one that is appended.
LEMMA AppendAny ==
  ASSUME NEW q, IsSequence(q), NEW e
  PROVE  /\ Len(q) \in Nat
         /\ IsSequence(Append(q, e))
         /\ Len(Append(q, e)) = Len(q) + 1
         /\ \A i \in 1 .. Len(q) : Append(q, e)[i] = q[i]
         /\ Append(q, e)[Len(q) + 1] = e
<1>1. PICK S : q \in Seq(S)
  BY DEF IsSequence
<1>2. q \in Seq(S \cup {e}) /\ e \in S \cup {e}
  BY <1>1, SeqDef
<1> QED
  BY <1>2, AppendProperties, LenProperties DEF IsSequence

\* Transactions can be put in order.
LEMMA TxsStamped == Stamped(Txs)
BY TxsAssumption DEF Stamped

\* Two transactions have one key when they have one time stamp and one sender.
LEMMA SameKeyIs ==
  ASSUME NEW t1 \in Txs, NEW t2 \in Txs
  PROVE  SameKey(t1, t2) <=> t1.stamp = t2.stamp /\ t1.from = t2.from
BY TxsAssumption DEF SameKey, Before

\* Inserting into the pool loses nothing that is in it.
LEMMA PoolInsertIs ==
  ASSUME NEW tx
  PROVE  /\ pool \subseteq PoolInsert(pool, tx)
         /\ PoolInsert(pool, tx) \subseteq pool \cup {tx}
         /\ \E t \in PoolInsert(pool, tx) : t = tx \/ SameKey(t, tx)
BY DEF PoolInsert

\* What has been executed after one more block.
LEMMA ExecuteIs ==
  ASSUME Typed, NEW n \in Nodes, NEW s, Pbft!Execute(n, s)
  PROVE  /\ executed' = [m \in Nodes |-> executed'[m]]
         /\ IsSequence(executed'[Primary])
         /\ Pbft!Done(Primary)' = IF n = Primary THEN Pbft!Done(Primary) \cup {s}
                                                 ELSE Pbft!Done(Primary)
         /\ s < Len(issued)
         /\ n = Primary => s \notin Pbft!Done(Primary)
         /\ issued' = issued
<1> DEFINE e == [seq |-> s, req |-> issued[s + 1]]
<1>1. /\ s < Len(issued)
      /\ s \notin Pbft!Done(n)
      /\ executed' = [executed EXCEPT ![n] = Append(@, e)]
      /\ issued' = issued
  BY DEF Pbft!Execute
<1>2. e.seq = s
  OBVIOUS
<1> HIDE DEF e
<1>3. executed = [m \in Nodes |-> executed[m]] /\ IsSequence(executed[Primary]) /\ Primary \in Nodes
  BY RuccoinAssumption DEF Typed
<1>4. executed' = [m \in Nodes |-> executed'[m]]
  BY <1>1, <1>3
<1>5. CASE n # Primary
  <2>1. executed'[Primary] = executed[Primary]
    BY <1>1, <1>3, <1>5
  <2> QED
    BY <1>1, <1>3, <1>4, <1>5, <2>1 DEF Pbft!Done
<1>6. CASE n = Primary
  <2>1. executed'[Primary] = Append(executed[Primary], e)
    BY <1>1, <1>3, <1>6
  <2>2. /\ IsSequence(executed'[Primary])
        /\ Len(executed[Primary]) \in Nat
        /\ Len(executed'[Primary]) = Len(executed[Primary]) + 1
        /\ \A i \in 1 .. Len(executed[Primary]) : executed'[Primary][i] = executed[Primary][i]
        /\ executed'[Primary][Len(executed[Primary]) + 1].seq = s
    BY <1>2, <1>3, <2>1, AppendAny
  <2>3. \A i \in 1 .. Len(executed'[Primary]) :
           i \in 1 .. Len(executed[Primary]) \/ i = Len(executed[Primary]) + 1
    BY <2>2
  <2>4. Pbft!Done(Primary)' = Pbft!Done(Primary) \cup {s}
    BY SMTT(30), <2>2, <2>3 DEF Pbft!Done
  <2> QED
    BY <1>1, <1>4, <1>6, <2>2, <2>4
<1> QED
  BY <1>5, <1>6

\* Init establishes the invariant.
LEMMA InvInit == Init => Inv
<1> SUFFICES ASSUME Init PROVE Inv
  OBVIOUS
<1> USE DEF Init, Pbft!OInit
<1>1. Primary \in Nodes /\ MaxSeq \in Nat
  BY RuccoinAssumption
<1>2. Pbft!Done(Primary) = {} /\ Len(issued) = 0
  BY <1>1 DEF Pbft!Done
<1>3. Typed
  <2>1. IsSequence(<<>>)
    BY DEF IsSequence
  <2> QED
    BY <1>1, <1>2, <2>1, FS_EmptySet DEF Typed, IsPool
<1>4. OneByOne /\ Proposed
  BY <1>2 DEF OneByOne, Proposed, Pending
<1>5. Chained
  BY <1>1, <1>2 DEF Chained, Pending
<1>6. AcceptedIsKept
  BY DEF AcceptedIsKept
<1> QED
  BY <1>3, <1>4, <1>5, <1>6 DEF Inv

-----------------------------------------------------------------------------
(***************************************************************************)
(* The steps.                                                              *)
(***************************************************************************)
\* Steps that have to do with neither blocks nor the pool of the primary.
LEMMA QuietStep ==
  ASSUME Inv, UNCHANGED <<issued, executed, pool, accepted, lost>>,
         chain' = [n \in Nodes |-> chain'[n]],
         chain'[Primary] = chain[Primary],
         Primary \in aborted' <=> Primary \in aborted
  PROVE  Inv'
<1>1. Pbft!Done(Primary)' = Pbft!Done(Primary)
  BY DEF Pbft!Done
<1>2. \A tx, s : InBlock(tx, s)' <=> InBlock(tx, s)
  BY DEF InBlock
<1>3. \A s : Pending(s)' <=> Pending(s)
  BY <1>1 DEF Pending
<1>4. Typed' /\ OneByOne'
  BY <1>1, <1>3 DEF Inv, Typed, OneByOne
<1>5. Proposed'
  BY <1>1, <1>2, <1>3 DEF Inv, Proposed
<1>6. Chained'
  BY <1>3 DEF Inv, Chained
<1>7. AcceptedIsKept'
  BY <1>1 DEF Inv, AcceptedIsKept, BlocksOf
<1> QED
  BY <1>4, <1>5, <1>6, <1>7 DEF Inv

\* AddTransx keeps the invariant: a transaction that is new is in no block.
LEMMA AddTransxInv == ASSUME Inv, NEW tx \in Txs, AddTransx(tx) PROVE Inv'
<1>1. /\ tx \notin accepted
      /\ Primary \notin aborted
      /\ \/ pool' = PoolInsert(pool, tx) /\ lost' = lost
         \/ pool' = pool /\ lost' = lost \cup {tx}
      /\ accepted' = accepted \cup {tx}
      /\ UNCHANGED <<issued, executed, chain, aborted>>
  BY DEF AddTransx
<1>2. /\ pool \subseteq pool'
      /\ pool' \subseteq pool \cup {tx}
      /\ tx \in lost' \/ \E t \in pool' : t = tx \/ SameKey(t, tx)
      /\ lost \subseteq lost' /\ lost' \subseteq lost \cup {tx}
  BY <1>1, PoolInsertIs
<1>3. Pbft!Done(Primary)' = Pbft!Done(Primary)
  BY <1>1 DEF Pbft!Done
<1>4. \A t, s : InBlock(t, s)' <=> InBlock(t, s)
  BY <1>1 DEF InBlock
<1>5. \A s : Pending(s)' <=> Pending(s)
  BY <1>1, <1>3 DEF Pending
<1>6. Typed' /\ OneByOne'
  <2>1. IsPool(pool')
    <3>1. CASE pool' = PoolInsert(pool, tx)
      BY <3>1, TxsStamped, PoolsArePools DEF Inv, Typed
    <3>2. CASE pool' = pool
      BY <3>2 DEF Inv, Typed
    <3> QED
      BY <1>1, <3>1, <3>2
  <2> QED
    BY <1>1, <1>2, <1>3, <1>5, <2>1 DEF Inv, Typed, OneByOne
<1>7. Proposed'
  <2>1. \A s \in 0 .. Len(issued) - 1 : \A t : InBlock(t, s) => t \in accepted
    BY DEF Inv, Proposed
  <2>2. \A s \in Pbft!Done(Primary) : \A t : InBlock(t, s) => t # tx
    BY <1>1, <2>1 DEF Inv, OneByOne
  <2> QED
    BY <1>1, <1>2, <1>3, <1>4, <1>5, <2>1, <2>2 DEF Inv, Proposed
<1>8. Chained'
  BY <1>1, <1>5 DEF Inv, Chained
<1>9. AcceptedIsKept'
  <2>1. SameKey(tx, tx)
    BY SameKeyIs
  <2>2. \A t : BlocksOf(t)' = BlocksOf(t)
    BY <1>1, <1>3 DEF BlocksOf
  <2>3. pool' \subseteq accepted'
    BY <1>6 DEF Typed
  <2>4. tx \in lost' \/ \E t \in accepted' : SameKey(t, tx) /\ t \in pool'
    BY <1>2, <2>1, <2>3
  <2> QED
    BY <1>1, <1>2, <2>2, <2>4 DEF Inv, AcceptedIsKept
<1> QED
  BY <1>6, <1>7, <1>8, <1>9 DEF Inv

\* Publish keeps the invariant: the new block is the only one that is pending, and
\* what is in it is in the pool.
LEMMA PublishInv ==
  ASSUME Inv, Publish, NEW N, N = Len(issued)
  PROVE  Inv'
<1> DEFINE b == PackBlock
<1>1. /\ Primary \notin aborted
      /\ N < MaxSeq
      /\ Pbft!Done(Primary) = 0 .. N - 1
      /\ issued' = Append(issued, b)
      /\ UNCHANGED <<executed, pool, accepted, lost, chain, aborted>>
  BY DEF Publish, Pbft!Issue, coinvars
<1>2. /\ chain[Primary] \in Seq(Seqs \cup {Genesis})
      /\ Len(chain[Primary]) \in Nat \ {0}
      /\ b.prev = chain[Primary][Len(chain[Primary])]
      /\ b.prev \in Seqs \cup {Genesis}
  BY DEF Inv, Typed, Chained, PackBlock, Last
<1>3. b.txs \in Seq(pool) /\ b.txs \in Seq(Txs)
  <2>1. pool \in SUBSET Txs /\ IsPool(pool)
    BY DEF Inv, Typed
  <2>2. PackTxs(pool) \in Seq(pool)
    BY <2>1, TxsStamped, PackTxsIs, RuccoinAssumption
  <2>3. PackTxs(pool) \in Seq(Txs)
    BY <2>1, <2>2, SeqMonotonic
  <2> QED
    BY <2>2, <2>3 DEF PackBlock
<1>4. b \in Blocks
  BY <1>2, <1>3 DEF PackBlock, Blocks
<1> HIDE DEF b
<1>5. /\ N \in Nat /\ MaxSeq \in Nat
      /\ issued' \in Seq(Blocks)
      /\ Len(issued') = N + 1
      /\ \A i \in 1 .. N : issued'[i] = issued[i]
      /\ issued'[N + 1] = b
  BY <1>1, <1>4, AppendProperties, LenProperties, RuccoinAssumption DEF Inv, Typed
<1>6. Pbft!Done(Primary)' = 0 .. N - 1
  BY <1>1 DEF Pbft!Done
<1>7. ASSUME NEW s \in 0 .. N - 1
      PROVE  issued'[s + 1] = issued[s + 1] /\ \A tx : InBlock(tx, s)' <=> InBlock(tx, s)
  <2>1. s + 1 \in 1 .. N
    BY <1>5
  <2>2. issued'[s + 1] = issued[s + 1]
    BY <1>5, <2>1
  <2> QED
    BY <2>2 DEF InBlock
<1>8. ASSUME NEW tx, InBlock(tx, N)' PROVE tx \in pool
  <2>1. PICK i \in 1 .. Len(b.txs) : b.txs[i] = tx
    BY <1>5, <1>8 DEF InBlock
  <2> QED
    BY <1>3, <2>1
<1>9. \A s \in Seqs : Pending(s)' => s = N
  BY <1>5, <1>6 DEF Pending, Seqs
<1>10. Typed'
  BY <1>1, <1>5 DEF Inv, Typed
<1>11. 0 .. Len(issued') - 1 = 0 .. N /\ \A s \in 0 .. N : s \in 0 .. N - 1 \/ s = N
  BY <1>5
<1>12. OneByOne'
  BY <1>5, <1>6, <1>9, <1>11 DEF OneByOne
<1>13. Proposed'
  <2>1. \A s \in 0 .. N - 1 : \A tx : InBlock(tx, s)' => tx \in accepted
    BY <1>7 DEF Inv, Proposed
  <2>2. \A tx : InBlock(tx, N)' => tx \in accepted
    BY <1>8 DEF Inv, Typed
  <2>3. \A s \in 0 .. N - 1 : \A tx : InBlock(tx, s)' => tx \notin pool
    BY <1>1, <1>7 DEF Inv, Proposed
  <2>4. \A s, r \in 0 .. N - 1 : \A tx : InBlock(tx, s)' /\ InBlock(tx, r)' => s = r
    BY <1>1, <1>7 DEF Inv, Proposed
  <2> QED
    BY <1>1, <1>6, <1>8, <1>9, <1>11, <2>1, <2>2, <2>3, <2>4 DEF Proposed
<1>14. Chained'
  <2>1. \A i \in 2 .. Len(chain[Primary]) :
           /\ chain[Primary][i] \in 0 .. N - 1
           /\ issued'[chain[Primary][i] + 1].prev = chain[Primary][i - 1]
    BY <1>7 DEF Inv, Chained
  <2>2. \A s \in 0 .. N - 1 : s \in 0 .. Len(issued') - 1
    BY <1>5, <1>11
  <2>3. issued'[N + 1].prev = chain[Primary][Len(chain[Primary])]
    BY <1>2, <1>5
  <2> QED
    BY <1>1, <1>9, <2>1, <2>2, <2>3 DEF Inv, Chained
<1>15. AcceptedIsKept'
  <2>1. \A t : BlocksOf(t)' = BlocksOf(t)
    BY <1>1, <1>6, <1>7 DEF BlocksOf
  <2> QED
    BY <1>1, <2>1 DEF Inv, AcceptedIsKept
<1> QED
  BY <1>10, <1>12, <1>13, <1>14, <1>15 DEF Inv

\* A commit at another node does not concern the primary.
LEMMA CommitElsewhereInv ==
  ASSUME Inv, NEW n \in Nodes, NEW s \in Seqs, CommitProposal(n, s), n # Primary
  PROVE  Inv'
<1>1. /\ Pbft!Execute(n, s)
      /\ accepted' = accepted /\ lost' = lost
      /\ pool' = pool
      /\ chain' = chain \/ chain' = [chain EXCEPT ![n] = Append(@, s)]
      /\ aborted' = aborted \/ aborted' = aborted \cup {n}
  BY DEF CommitProposal
<1>2. Typed
  BY DEF Inv
<1>3. /\ chain' = [m \in Nodes |-> chain'[m]]
      /\ chain'[Primary] = chain[Primary]
      /\ Primary \in aborted' <=> Primary \in aborted
  BY <1>1, <1>2, RuccoinAssumption DEF Typed
<1>4. /\ executed' = [m \in Nodes |-> executed'[m]]
      /\ IsSequence(executed'[Primary])
      /\ Pbft!Done(Primary)' = Pbft!Done(Primary)
      /\ issued' = issued
  BY <1>1, <1>2, ExecuteIs
<1>5. \A t, r : InBlock(t, r)' <=> InBlock(t, r)
  BY <1>4 DEF InBlock
<1>6. \A r : Pending(r)' <=> Pending(r)
  BY <1>4 DEF Pending
<1>7. Typed' /\ OneByOne'
  BY <1>1, <1>3, <1>4, <1>6 DEF Inv, Typed, OneByOne
<1>8. Proposed'
  BY <1>1, <1>3, <1>4, <1>5, <1>6 DEF Inv, Proposed
<1>9. Chained'
  BY <1>3, <1>4, <1>6 DEF Inv, Chained
<1>10. AcceptedIsKept'
  BY <1>1, <1>4 DEF Inv, AcceptedIsKept, BlocksOf
<1> QED
  BY <1>7, <1>8, <1>9, <1>10 DEF Inv

\* A commit at the primary: its transactions leave the pool as they are executed.
LEMMA CommitPrimaryInv ==
  ASSUME Inv, NEW s \in Seqs, CommitProposal(Primary, s)
  PROVE  Inv'
<1> DEFINE txs == issued[s + 1].txs
           c == chain[Primary]
           executable == \A i \in 1 .. Len(txs) : Executable(txs[i])
<1>1. /\ Primary \notin aborted
      /\ Pbft!Execute(Primary, s)
      /\ accepted' = accepted /\ lost' = lost
      /\ \/ /\ chain' = [chain EXCEPT ![Primary] = Append(@, s)]
            /\ pool' = PoolRemove(pool, txs)
            /\ aborted' = aborted
         \/ /\ aborted' = aborted \cup {Primary}
            /\ UNCHANGED <<chain, pool>>
  BY DEF CommitProposal
<1>2. Typed /\ Primary \in Nodes
  BY RuccoinAssumption DEF Inv
<1>3. /\ executed' = [m \in Nodes |-> executed'[m]]
      /\ IsSequence(executed'[Primary])
      /\ Pbft!Done(Primary)' = Pbft!Done(Primary) \cup {s}
      /\ s < Len(issued)
      /\ s \notin Pbft!Done(Primary)
      /\ issued' = issued
  BY <1>1, <1>2, ExecuteIs
<1>4. /\ issued \in Seq(Blocks) /\ Len(issued) \in Nat
      /\ s \in 0 .. Len(issued) - 1
      /\ s + 1 \in 1 .. Len(issued)
  BY <1>2, <1>3 DEF Typed, Seqs
<1>5. Pending(s) /\ s = Len(issued) - 1
  BY <1>3, <1>4 DEF Inv, OneByOne, Pending
<1>6. \A t, r : InBlock(t, r)' <=> InBlock(t, r)
  BY <1>3 DEF InBlock
<1>7. \A r \in Seqs : ~ Pending(r)'
  BY <1>3, <1>5 DEF Inv, OneByOne, Pending
<1>8. OneByOne'
  BY <1>3, <1>4, <1>7 DEF Inv, OneByOne
<1>9. \A i \in 1 .. Len(txs) : txs[i] \in pool /\ txs[i] \in Txs /\ InBlock(txs[i], s)
  <2>1. \A t : InBlock(t, s) => t \in pool
    BY <1>1, <1>5 DEF Inv, Proposed
  <2> QED
    BY <1>2, <2>1 DEF InBlock, Typed
<1>10. /\ pool' \subseteq pool
       /\ Primary \notin aborted' => \A t : InBlock(t, s) => t \notin pool'
  <2>1. CASE pool' = PoolRemove(pool, txs)
    <3>1. \A i \in 1 .. Len(txs) : SameKey(txs[i], txs[i])
      BY <1>9, SameKeyIs
    <3> QED
      BY <2>1, <3>1 DEF PoolRemove, InBlock
  <2>2. CASE aborted' = aborted \cup {Primary} /\ pool' = pool
    BY <2>2
  <2> QED
    BY <1>1, <2>1, <2>2
<1>11. Proposed'
  <2>1. \A r \in 0 .. Len(issued') - 1 : \A t : InBlock(t, r)' => t \in accepted'
    BY <1>1, <1>3, <1>6 DEF Inv, Proposed
  <2>2. \A r \in Pbft!Done(Primary) : \A t : ~ (InBlock(t, r) /\ InBlock(t, s))
    BY <1>1, <1>5 DEF Inv, Proposed
  <2>3. \A r1, r2 \in Pbft!Done(Primary)' : \A t : InBlock(t, r1)' /\ InBlock(t, r2)' => r1 = r2
    BY <1>3, <1>6, <2>2 DEF Inv, Proposed
  <2>4. Primary \notin aborted' => \A r \in Pbft!Done(Primary)' : \A t : InBlock(t, r)' => t \notin pool'
    BY <1>1, <1>3, <1>6, <1>10 DEF Inv, Proposed
  <2> QED
    BY <1>7, <2>1, <2>3, <2>4 DEF Proposed
<1>12. Typed' /\ Chained'
  <2>0. IsPool(pool')
    <3>1. CASE pool' = PoolRemove(pool, txs)
      BY <3>1, TxsStamped, PoolsArePools DEF Inv, Typed
    <3>2. CASE pool' = pool
      BY <3>2 DEF Inv, Typed
    <3> QED
      BY <1>1, <3>1, <3>2
  <2>1. CASE UNCHANGED chain
    BY <1>1, <1>3, <1>7, <1>10, <2>0, <2>1 DEF Inv, Typed, Chained
  <2>2. CASE chain' = [chain EXCEPT ![Primary] = Append(@, s)]
    <3>1. /\ chain' = [n \in Nodes |-> chain'[n]]
          /\ chain'[Primary] = Append(c, s)
      BY <1>2, <2>2 DEF Typed
    <3>2. c \in Seq(Seqs \cup {Genesis})
      BY <1>2 DEF Typed
    <3>3. /\ chain'[Primary] \in Seq(Seqs \cup {Genesis})
          /\ Len(c) \in Nat /\ Len(c) > 0
          /\ Len(chain'[Primary]) = Len(c) + 1
          /\ \A i \in 1 .. Len(c) : chain'[Primary][i] = c[i]
          /\ chain'[Primary][Len(c) + 1] = s
      BY <3>1, <3>2, AppendProperties, LenProperties DEF Inv, Chained
    <3>4. Typed'
      BY <1>1, <1>3, <1>10, <2>0, <3>1, <3>3 DEF Inv, Typed
    <3>5. issued[s + 1].prev = c[Len(c)]
      BY <1>1, <1>5 DEF Inv, Chained
    <3>6. chain'[Primary][1] = Genesis
      BY <3>3 DEF Inv, Chained
    <3>7. ASSUME NEW i \in 2 .. Len(chain'[Primary])
          PROVE  /\ chain'[Primary][i] \in 0 .. Len(issued) - 1
                 /\ issued[chain'[Primary][i] + 1].prev = chain'[Primary][i - 1]
      <4>1. CASE i = Len(c) + 1
        <5>1. chain'[Primary][i] = s /\ chain'[Primary][i - 1] = c[Len(c)]
          BY <3>3, <4>1
        <5> QED
          BY <1>4, <3>5, <5>1
      <4>2. CASE i \in 2 .. Len(c)
        <5>1. chain'[Primary][i] = c[i] /\ chain'[Primary][i - 1] = c[i - 1]
          BY <3>3, <4>2
        <5> QED
          BY <4>2, <5>1 DEF Inv, Chained
      <4> QED
        BY <3>3, <4>1, <4>2
    <3> QED
      BY <1>3, <1>7, <3>3, <3>4, <3>6, <3>7 DEF Chained
  <2> QED
    BY <1>1, <2>1, <2>2
<1>13. AcceptedIsKept'
  <2>1. \A t : BlocksOf(t) \subseteq BlocksOf(t)'
    BY <1>3 DEF BlocksOf
  <2>2. \A t : InBlock(t, s) => s \in BlocksOf(t)'
    BY <1>3 DEF BlocksOf, InBlock
  <2>3. ASSUME NEW t \in pool, t \notin pool'
        PROVE  \E u \in accepted : SameKey(u, t) /\ BlocksOf(u)' # {}
    <3>1. PICK i \in 1 .. Len(txs) : SameKey(t, txs[i])
      BY <1>1, <2>3 DEF PoolRemove
    <3>2. t \in Txs /\ txs[i] \in Txs /\ txs[i] \in accepted /\ InBlock(txs[i], s)
      BY <1>2, <1>9 DEF Typed
    <3>3. PICK u \in accepted : u = txs[i]
      BY <3>2
    <3>4. SameKey(u, t) /\ InBlock(u, s)
      BY <3>1, <3>2, <3>3, SameKeyIs
    <3> QED
      BY <2>2, <3>4
  <2> SUFFICES ASSUME NEW tx \in accepted \ lost
               PROVE  \E u \in accepted : SameKey(u, tx) /\ (u \in pool' \/ BlocksOf(u)' # {})
    BY <1>1 DEF AcceptedIsKept
  <2>4. PICK t \in accepted : SameKey(t, tx) /\ (t \in pool \/ BlocksOf(t) # {})
    BY DEF Inv, AcceptedIsKept
  <2>5. CASE t \in pool' \/ BlocksOf(t) # {}
    BY <2>1, <2>4, <2>5
  <2>6. CASE t \in pool /\ t \notin pool'
    <3>1. PICK u \in accepted : SameKey(u, t) /\ BlocksOf(u)' # {}
      BY <2>3, <2>6
    <3>2. t \in Txs /\ u \in Txs /\ tx \in Txs
      BY <1>2 DEF Typed
    <3>3. SameKey(u, tx)
      BY <2>4, <3>1, <3>2, SameKeyIs
    <3> QED
      BY <3>1, <3>3
  <2> QED
    BY <2>4, <2>5, <2>6
<1> QED
  BY <1>8, <1>11, <1>12, <1>13 DEF Inv

\* Every step keeps the invariant.
LEMMA InvStep == Inv /\ [Next]_vars => Inv'
<1> SUFFICES ASSUME Inv, [Next]_vars PROVE Inv'
  OBVIOUS
<1>1. ASSUME NEW tx \in Txs, AddTransx(tx) PROVE Inv'
  BY <1>1, AddTransxInv
<1>2. CASE Publish
  BY <1>2, PublishInv
<1>3. ASSUME NEW n \in Nodes, NEW s \in Seqs, CheckProposal(n, s) PROVE Inv'
  <2>1. UNCHANGED <<issued, executed, pool, accepted, lost, chain, aborted>>
    BY <1>3 DEF CheckProposal
  <2>2. chain' = [m \in Nodes |-> chain'[m]]
    BY <2>1 DEF Inv, Typed
  <2> QED
    BY <2>1, <2>2, QuietStep
<1>4. ASSUME NEW n \in Nodes, NEW s \in Seqs, CommitProposal(n, s) PROVE Inv'
  BY <1>4, CommitElsewhereInv, CommitPrimaryInv
<1>5. ASSUME NEW n \in Nodes, Restart(n) PROVE Inv'
  <2>1. /\ n # Primary
        /\ chain' = [chain EXCEPT ![n] = ReadBlockChainHash(n)]
        /\ aborted' = aborted \ {n}
        /\ UNCHANGED <<issued, executed, pool, accepted, lost>>
    BY <1>5 DEF Restart
  <2>2. chain' = [m \in Nodes |-> chain'[m]] /\ chain'[Primary] = chain[Primary]
    BY <2>1, RuccoinAssumption DEF Inv, Typed
  <2> QED
    BY <2>1, <2>2, QuietStep
<1>6. CASE UNCHANGED vars
  <2>1. UNCHANGED <<issued, executed, pool, accepted, lost, chain, aborted>>
    BY <1>6 DEF vars, coinvars
  <2>2. chain' = [m \in Nodes |-> chain'[m]]
    BY <2>1 DEF Inv, Typed
  <2> QED
    BY <2>1, <2>2, QuietStep
<1> QED
  BY <1>1, <1>2, <1>3, <1>4, <1>5, <1>6 DEF Next

\* The invariant holds throughout.
LEMMA AlwaysInv == Spec => []Inv
  BY InvInit, InvStep, PTL DEF Spec

-----------------------------------------------------------------------------
(***************************************************************************)
(* The theorems.                                                           *)
(***************************************************************************)
\* The primary's chain is one, whatever the other replicas do.
THEOREM ChainIsLinked == Spec => []PrimaryChainLinked
<1>1. Inv => PrimaryChainLinked
  BY DEF Inv, Chained, PrimaryChainLinked, Linked
<1> QED
  BY AlwaysInv, <1>1, PTL

\* No transaction is executed twice.
THEOREM ExecutedAtMostOnce == Spec => []ExecutedOnce
<1>1. ASSUME Inv PROVE ExecutedOnce
  <2> SUFFICES ASSUME NEW tx \in Txs PROVE Cardinality(BlocksOf(tx)) <= 1
    BY DEF ExecutedOnce
  <2>1. \A s, r \in BlocksOf(tx) : s = r
    BY <1>1 DEF Inv, Proposed, BlocksOf, InBlock
  <2>2. CASE BlocksOf(tx) = {}
    BY <2>2, FS_EmptySet
  <2>3. CASE \E s : BlocksOf(tx) = {s}
    BY <2>3, FS_Singleton
  <2> QED
    BY <2>1, <2>2, <2>3
<1> QED
  BY AlwaysInv, <1>1, PTL

\* What AddTransx has accepted is not lost, but for what never got into the pool.
THEOREM AcceptedNotLost == Spec => []AcceptedIsKept
<1>1. Inv => AcceptedIsKept
  BY DEF Inv
<1> QED
  BY AlwaysInv, <1>1, PTL

-----------------------------------------------------------------------------
(***************************************************************************)
(* The ledgers.  What a set of blocks makes of the balances does not       *)
(* depend on the order they are executed in; sums[D] stands for it.  Every *)
(* replica that has not been restarted has the balances of what it has     *)
(* executed, and one that has executed the first k blocks in their order   *)
(* has checked block k against those of the blocks before it.              *)
(***************************************************************************)
Issued == 0 .. Len(issued) - 1

PrevHash(s) == IF s = 0 THEN Genesis ELSE s - 1

IsLedger(sums) ==
    /\ sums \in [SUBSET Issued -> Balances]
    /\ sums[{}] = InitBalance
    /\ \A D \in SUBSET Issued : \A s \in Issued \ D :
          sums[D \cup {s}] = UpdateBlance(sums[D], issued[s + 1].txs)

LedgerTyped ==
    /\ executed = [n \in Nodes |-> executed[n]]
    /\ \A n \in Nodes : IsSequence(executed[n]) /\ Pbft!Done(n) \subseteq Issued
    /\ balance \in [Nodes -> Balances]
    /\ chain \in [Nodes -> Seq(Seqs \cup {Genesis})]
    /\ asked \in [Seqs -> SUBSET Nodes]
    /\ approved \in [Seqs -> SUBSET Nodes]
    /\ \A s \in Seqs : approved[s] \subseteq asked[s]
    /\ \A s \in Seqs \ Issued : approved[s] = {}
    /\ aborted \subseteq Nodes
    /\ restarted \subseteq Nodes \ {Primary}

\* The primary has executed the blocks one after the other, all but perhaps the
\* last, and each was packed on top of the one before.
PrimaryInOrder ==
    /\ InOrder(Primary)
    /\ Len(executed[Primary]) \in {Len(issued) - 1, Len(issued)}
    /\ \A s \in Issued : issued[s + 1].prev = PrevHash(s)

\* The last hash of a replica that has skipped nothing tells what it has executed.
ChainsInOrder ==
    \A n \in Nodes \ (restarted \cup aborted) : InOrder(n) =>
        /\ Len(chain[n]) = Len(executed[n]) + 1
        /\ \A i \in 1 .. Len(chain[n]) : chain[n][i] = PrevHash(i - 1)

\* Nobody was sent a negative value, or one that is written as more than it is.
NoneWrittenUp == \A tx \in accepted : tx.value >= 0 /\ 2 * (tx.value % Scale) < Scale

BalancesAre(sums) == \A n \in Nodes \ restarted : balance[n] = sums[Pbft!Done(n)]

\* A replica that is not misled has checked a block against the ledger before it.
Approvals(sums) ==
    \A s \in Issued : \A n \in approved[s] \ Misled :
        \E c : CheckBlock(sums[0 .. s - 1], c, issued[s + 1])

NonNegative(b) == \A a \in Accounts : b[a] >= 0

Covered(sums) ==
    Cardinality(Misled) < Quorum /\ NoneWrittenUp =>
        \A k \in 0 .. Len(executed[Primary]) : NonNegative(sums[0 .. k - 1])

LedgerOf(sums) == IsLedger(sums) /\ BalancesAre(sums) /\ Approvals(sums) /\ Covered(sums)

LedgerInv ==
    /\ LedgerTyped
    /\ PrimaryInOrder
    /\ ChainsInOrder
    /\ NoHalves => \E sums : LedgerOf(sums)

\* What a replica that has skipped nothing has executed.
LEMMA DoneInOrder ==
  ASSUME NEW n, IsSequence(executed[n]), InOrder(n)
  PROVE  Len(executed[n]) \in Nat /\ Pbft!Done(n) = 0 .. Len(executed[n]) - 1
<1>1. Len(executed[n]) \in Nat
  BY LenProperties DEF IsSequence
<1>2. \A i \in 1 .. Len(executed[n]) : executed[n][i].seq = i - 1
  BY DEF InOrder
<1>3. \A s \in 0 .. Len(executed[n]) - 1 : s + 1 \in 1 .. Len(executed[n]) /\ (s + 1) - 1 = s
  BY <1>1
<1>4. \A i \in 1 .. Len(executed[n]) : i - 1 \in 0 .. Len(executed[n]) - 1
  BY <1>1
<1>5. Pbft!Done(n) \subseteq 0 .. Len(executed[n]) - 1
  BY <1>2, <1>4 DEF Pbft!Done
<1>6. ASSUME NEW s \in 0 .. Len(executed[n]) - 1 PROVE s \in Pbft!Done(n)
  <2>1. executed[n][s + 1].seq = s /\ s + 1 \in 1 .. Len(executed[n])
    BY <1>2, <1>3
  <2> QED
    BY <2>1 DEF Pbft!Done
<1> QED
  BY <1>1, <1>5, <1>6

\* What one more block that is executed changes, at whatever replica.
LEMMA ExecuteAt ==
  ASSUME Typed, LedgerTyped, NEW n \in Nodes, NEW s \in Seqs, Pbft!Execute(n, s)
  PROVE  /\ issued' = issued
         /\ s \in Issued \ Pbft!Done(n)
         /\ executed' = [m \in Nodes |-> executed'[m]]
         /\ \A m \in Nodes : IsSequence(executed'[m])
         /\ \A m \in Nodes \ {n} : executed'[m] = executed[m]
         /\ Len(executed[n]) \in Nat
         /\ Len(executed'[n]) = Len(executed[n]) + 1
         /\ Pbft!Done(n)' = Pbft!Done(n) \cup {s}
         /\ InOrder(n)' <=> InOrder(n) /\ s = Len(executed[n])
<1> DEFINE e == [seq |-> s, req |-> issued[s + 1]]
<1>1. /\ s < Len(issued)
      /\ s \notin Pbft!Done(n)
      /\ executed' = [executed EXCEPT ![n] = Append(@, e)]
      /\ issued' = issued
  BY DEF Pbft!Execute
<1>2. e.seq = s
  OBVIOUS
<1> HIDE DEF e
<1>3. executed = [m \in Nodes |-> executed[m]] /\ \A m \in Nodes : IsSequence(executed[m])
  BY DEF LedgerTyped
<1>4. executed' = [m \in Nodes |-> executed'[m]] /\ \A m \in Nodes \ {n} : executed'[m] = executed[m]
  BY <1>1, <1>3
<1>5. executed'[n] = Append(executed[n], e)
  BY <1>1, <1>3
<1>6. /\ IsSequence(executed'[n])
      /\ Len(executed[n]) \in Nat
      /\ Len(executed'[n]) = Len(executed[n]) + 1
      /\ \A i \in 1 .. Len(executed[n]) : executed'[n][i] = executed[n][i]
      /\ executed'[n][Len(executed[n]) + 1].seq = s
  BY <1>2, <1>3, <1>5, AppendAny
<1>7. \A i \in 1 .. Len(executed'[n]) : i \in 1 .. Len(executed[n]) \/ i = Len(executed[n]) + 1
  BY <1>6
<1>8. /\ \A i \in 1 .. Len(executed[n]) : i \in 1 .. Len(executed'[n])
      /\ Len(executed[n]) + 1 \in 1 .. Len(executed'[n])
      /\ (Len(executed[n]) + 1) - 1 = Len(executed[n])
  BY <1>6
<1>9. Pbft!Done(n)' = Pbft!Done(n) \cup {s}
  BY <1>6, <1>7, <1>8 DEF Pbft!Done
<1>10. InOrder(n)' <=> InOrder(n) /\ s = Len(executed[n])
  BY <1>6, <1>7, <1>8 DEF InOrder
<1>11. s \in Issued
  BY <1>1 DEF Typed, Issued, Seqs
<1>12. \A m \in Nodes : IsSequence(executed'[m])
  BY <1>3, <1>4, <1>6
<1> QED
  BY <1>1, <1>4, <1>6, <1>9, <1>10, <1>11, <1>12

\* A replica that is misled stays it.
LEMMA MisledGrows ==
  ASSUME restarted \subseteq restarted', \A n \in Nodes : InOrder(n)' => InOrder(n)
  PROVE  /\ Misled \subseteq Misled'
         /\ Cardinality(Misled') < Quorum => Cardinality(Misled) < Quorum
<1>1. IsFiniteSet(Nodes) /\ Cardinality(Nodes) \in Nat
  BY RuccoinAssumption, FS_CardinalityType
<1>2. Quorum \in Int
  BY <1>1 DEF Quorum, F
<1>3. Misled \subseteq Misled' /\ Misled' \subseteq Nodes
  BY DEF Misled
<1>4. IsFiniteSet(Misled')
  BY <1>1, <1>3, FS_Subset
<1>5. /\ Cardinality(Misled) <= Cardinality(Misled')
      /\ Cardinality(Misled) \in Nat /\ Cardinality(Misled') \in Nat
  BY <1>3, <1>4, FS_Subset, FS_CardinalityType
<1> QED
  BY <1>2, <1>3, <1>5

\* When fewer than a quorum are misled, one of a quorum is not.
LEMMA OneOfQuorum ==
  ASSUME NEW Q, Q \subseteq Nodes, Cardinality(Q) >= Quorum, Cardinality(Misled) < Quorum
  PROVE  \E n \in Q : n \notin Misled
<1> SUFFICES ASSUME Q \subseteq Misled PROVE FALSE
  OBVIOUS
<1>1. IsFiniteSet(Nodes) /\ Cardinality(Nodes) \in Nat
  BY RuccoinAssumption, FS_CardinalityType
<1>2. Quorum \in Int
  BY <1>1 DEF Quorum, F
<1>3. IsFiniteSet(Misled)
  BY <1>1, FS_Subset DEF Misled
<1>4. Cardinality(Q) <= Cardinality(Misled) /\ Cardinality(Q) \in Nat /\ Cardinality(Misled) \in Nat
  BY <1>3, FS_Subset, FS_CardinalityType
<1> QED
  BY <1>2, <1>4

\* Blocks of the model's types.
LEMMA BlockIs ==
  ASSUME Inv, NEW s \in Issued
  PROVE  /\ s + 1 \in 1 .. Len(issued)
         /\ issued[s + 1].txs \in Seq(Txs)
         /\ issued[s + 1].txs \in Seq(accepted)
<1>1. s + 1 \in 1 .. Len(issued) /\ issued \in Seq(Blocks) /\ s \in 0 .. Len(issued) - 1
  BY DEF Inv, Typed, Issued
<1>2. issued[s + 1] \in Blocks
  BY <1>1
<1>3. issued[s + 1].txs \in Seq(Txs)
  BY <1>2 DEF Blocks
<1>4. \A i \in 1 .. Len(issued[s + 1].txs) : issued[s + 1].txs[i] \in accepted
  BY <1>1 DEF Inv, Proposed, InBlock
<1> DEFINE q == issued[s + 1].txs
<1>5. q = [i \in 1 .. Len(q) |-> q[i]] /\ Len(q) \in Nat
  BY <1>3
<1>6. q \in [1 .. Len(q) -> accepted]
  BY <1>4, <1>5
<1> QED
  <2> HIDE DEF q
  <2>1. q \in Seq(accepted)
    BY <1>5, <1>6, SeqDef
  <2> QED
    BY <1>1, <1>3, <2>1 DEF q

\* The initial state.
LEMMA LedgerInit == Init => LedgerInv
<1> SUFFICES ASSUME Init PROVE LedgerInv
  OBVIOUS
<1> USE DEF Init, Pbft!OInit
<1>1. Primary \in Nodes /\ MaxSeq \in Nat /\ InitBalance \in [Accounts -> Nat]
  BY RuccoinAssumption
<1>2. Len(issued) = 0 /\ Issued = {} /\ \A n \in Nodes : executed[n] = <<>>
  BY DEF Issued
<1>3. \A n \in Nodes : Pbft!Done(n) = {} /\ Len(executed[n]) = 0 /\ InOrder(n)
  BY <1>2 DEF Pbft!Done, InOrder
<1>4. InitBalance \in Balances
  BY <1>1 DEF Balances
<1>5. LedgerTyped
  <2>1. IsSequence(<<>>)
    BY DEF IsSequence
  <2>2. <<Genesis>> \in Seq(Seqs \cup {Genesis})
    OBVIOUS
  <2> QED
    BY <1>2, <1>3, <1>4, <2>1, <2>2 DEF LedgerTyped
<1>6. PrimaryInOrder
  BY <1>1, <1>2, <1>3 DEF PrimaryInOrder
<1>7. ChainsInOrder
  BY <1>3 DEF ChainsInOrder, PrevHash
<1>8. \E sums : LedgerOf(sums)
  <2> DEFINE sums == [D \in SUBSET Issued |-> InitBalance]
  <2>1. {} \in SUBSET Issued /\ sums[{}] = InitBalance
    OBVIOUS
  <2>2. IsLedger(sums)
    BY <1>2, <1>4, <2>1 DEF IsLedger
  <2>3. BalancesAre(sums)
    BY <1>3, <2>1 DEF BalancesAre
  <2>4. Approvals(sums)
    BY <1>2 DEF Approvals
  <2>5. Covered(sums)
    <3>1. \A k \in 0 .. Len(executed[Primary]) : 0 .. k - 1 = {}
      BY <1>1, <1>3
    <3>2. \A a \in Accounts : InitBalance[a] >= 0
      BY <1>1
    <3> QED
      BY <2>1, <3>1, <3>2 DEF Covered, NonNegative
  <2> HIDE DEF sums
  <2> QED
    BY <2>2, <2>3, <2>4, <2>5 DEF LedgerOf
<1> QED
  BY <1>5, <1>6, <1>7, <1>8 DEF LedgerInv

\* Steps that change no ledger.
LEMMA LedgerQuiet ==
  ASSUME LedgerInv, accepted \subseteq accepted',
         UNCHANGED <<issued, executed, balance, chain, asked, approved, aborted, restarted>>
  PROVE  LedgerInv'
<1>1. Issued' = Issued /\ Misled' = Misled
  BY DEF Issued, Misled, InOrder
<1>2. \A n : (Pbft!Done(n)' = Pbft!Done(n)) /\ (InOrder(n)' <=> InOrder(n))
  BY DEF Pbft!Done, InOrder
<1>3. LedgerTyped' /\ PrimaryInOrder' /\ ChainsInOrder'
  BY <1>1, <1>2 DEF LedgerInv, LedgerTyped, PrimaryInOrder, ChainsInOrder
<1>4. NoHalves' => \E sums : LedgerOf(sums)'
  <2> SUFFICES ASSUME NoHalves' PROVE \E sums : LedgerOf(sums)'
    OBVIOUS
  <2>1. NoHalves
    BY DEF NoHalves
  <2>4. PICK sums : LedgerOf(sums)
    BY <2>1 DEF LedgerInv
  <2>5. IsLedger(sums)' /\ BalancesAre(sums)' /\ Approvals(sums)'
    BY <1>1, <1>2, <2>4 DEF LedgerOf, IsLedger, BalancesAre, Approvals
  <2>6. Covered(sums)'
    <3>1. NoneWrittenUp' => NoneWrittenUp
      BY DEF NoneWrittenUp
    <3> QED
      BY <1>1, <2>4, <3>1 DEF LedgerOf, Covered
  <2> QED
    BY <2>4, <2>5, <2>6 DEF LedgerOf
<1> QED
  BY <1>3, <1>4 DEF LedgerInv

\* CheckProposal: the last hash a replica compares is that of the block before, so
\* if it has skipped nothing it has the balances of the blocks before.
LEMMA LedgerCheck ==
  ASSUME Inv, LedgerInv, NEW n \in Nodes, NEW s \in Seqs, CheckProposal(n, s)
  PROVE  LedgerInv'
<1>1. /\ s < Len(issued)
      /\ n \notin aborted
      /\ asked' = [asked EXCEPT ![s] = @ \cup {n}]
      /\ approved' = [approved EXCEPT ![s] =
            IF CheckBlock(balance[n], chain[n], issued[s + 1]) THEN @ \cup {n} ELSE @]
      /\ UNCHANGED <<issued, executed, balance, chain, accepted, aborted, restarted>>
  BY DEF CheckProposal
<1>2. Issued' = Issued /\ Misled' = Misled /\ s \in Issued
  BY <1>1 DEF Issued, Misled, InOrder, Inv, Typed, Seqs
<1>3. \A m : (Pbft!Done(m)' = Pbft!Done(m)) /\ (InOrder(m)' <=> InOrder(m))
  BY <1>1 DEF Pbft!Done, InOrder
<1>4. LedgerTyped /\ PrimaryInOrder /\ ChainsInOrder
  BY DEF LedgerInv
<1>5. PrimaryInOrder' /\ ChainsInOrder'
  BY <1>1, <1>2, <1>3, <1>4 DEF PrimaryInOrder, ChainsInOrder
<1>6. LedgerTyped'
  <2>1. /\ asked \in [Seqs -> SUBSET Nodes] /\ approved \in [Seqs -> SUBSET Nodes]
        /\ \A r \in Seqs : approved[r] \subseteq asked[r]
        /\ \A r \in Seqs \ Issued : approved[r] = {}
    BY <1>4 DEF LedgerTyped
  <2>2. asked' \in [Seqs -> SUBSET Nodes] /\ approved' \in [Seqs -> SUBSET Nodes]
    BY <1>1, <2>1
  <2>3. \A r \in Seqs : approved'[r] \subseteq asked'[r]
    BY <1>1, <2>1
  <2>4. \A r \in Seqs \ Issued : approved'[r] = {}
    BY <1>1, <1>2, <2>1
  <2> QED
    BY <1>1, <1>2, <1>3, <1>4, <2>2, <2>3, <2>4 DEF LedgerTyped
<1>7. NoHalves' => \E sums : LedgerOf(sums)'
  <2> SUFFICES ASSUME NoHalves' PROVE \E sums : LedgerOf(sums)'
    OBVIOUS
  <2>1. NoHalves
    BY <1>1 DEF NoHalves
  <2>7. PICK sums : LedgerOf(sums)
    BY <2>1 DEF LedgerInv
  <2>8. IsLedger(sums)' /\ BalancesAre(sums)' /\ Covered(sums)'
    BY <1>1, <1>2, <1>3, <2>7 DEF LedgerOf, IsLedger, BalancesAre, Covered, NoneWrittenUp
  <2>9. Approvals(sums)'
    <3> SUFFICES ASSUME NEW r \in Issued, NEW m \in approved'[r] \ Misled
                 PROVE  \E c : CheckBlock(sums[0 .. r - 1], c, issued[r + 1])
      BY <1>1, <1>2 DEF Approvals
    <3>1. r \in Seqs /\ approved \in [Seqs -> SUBSET Nodes]
      <4>1. Len(issued) \in Nat /\ Len(issued) <= MaxSeq /\ MaxSeq \in Nat
        BY RuccoinAssumption DEF Inv, Typed
      <4>2. approved \in [Seqs -> SUBSET Nodes]
        BY <1>4 DEF LedgerTyped
      <4> QED
        BY <4>1, <4>2 DEF Issued, Seqs
    <3>2. CASE m \in approved[r]
      BY <2>7, <3>2 DEF LedgerOf, Approvals
    <3>3. CASE m \notin approved[r]
      <4>1. m = n /\ r = s /\ CheckBlock(balance[n], chain[n], issued[s + 1])
        BY <1>1, <3>1, <3>3
      <4>2. n \notin restarted /\ InOrder(n) /\ n \notin aborted
        BY <1>1, <4>1 DEF Misled
      <4>3. IsSequence(executed[n])
        BY <1>4 DEF LedgerTyped
      <4>4. Len(executed[n]) \in Nat /\ Pbft!Done(n) = 0 .. Len(executed[n]) - 1
        BY <4>2, <4>3, DoneInOrder
      <4>5. Last(chain[n]) = PrevHash(Len(executed[n]))
        <5>1. /\ Len(chain[n]) = Len(executed[n]) + 1
              /\ \A i \in 1 .. Len(chain[n]) : chain[n][i] = PrevHash(i - 1)
          BY <1>4, <4>2 DEF ChainsInOrder
        <5>2. Len(chain[n]) \in 1 .. Len(chain[n]) /\ Len(chain[n]) - 1 = Len(executed[n])
          BY <4>4, <5>1
        <5> QED
          BY <5>1, <5>2 DEF Last
      <4>6. PrevHash(s) = PrevHash(Len(executed[n]))
        BY <1>2, <1>4, <4>1, <4>5 DEF CheckBlock, PrimaryInOrder
      <4>7. s = Len(executed[n])
        <5>1. Genesis \notin Nat /\ s \in Nat
          BY <1>2, RuccoinAssumption DEF Issued
        <5> QED
          BY <4>4, <4>6, <5>1 DEF PrevHash
      <4>8. balance[n] = sums[0 .. s - 1]
        BY <2>7, <4>2, <4>4, <4>7 DEF LedgerOf, BalancesAre
      <4> QED
        BY <4>1, <4>8
    <3> QED
      BY <3>2, <3>3
  <2> QED
    BY <2>8, <2>9 DEF LedgerOf
<1> QED
  BY <1>5, <1>6, <1>7 DEF LedgerInv

\* The ledger of one more block, in whatever order it is executed with the others.
LEMMA LedgerGrows ==
  ASSUME NEW N \in Nat, Issued = 0 .. N - 1, Issued' = 0 .. N,
         NEW T, \A tx \in T : tx.value \in Int /\ ~ Halfway(tx.value),
         \A s \in Issued : issued[s + 1].txs \in Seq(T) /\ issued'[s + 1] = issued[s + 1],
         issued'[N + 1].txs \in Seq(T),
         NEW sums, IsLedger(sums)
  PROVE  \E more : IsLedger(more)' /\ \A D \in SUBSET Issued : more[D] = sums[D]
<1> DEFINE blocks == issued'
<1>0. PICK b : b = blocks
  OBVIOUS
<1>1. AreSums(sums, N, InitBalance, b)
  <2>1. /\ sums \in [SUBSET (0 .. N - 1) -> Balances]
        /\ sums[{}] = InitBalance
        /\ \A D \in SUBSET (0 .. N - 1) : \A s \in (0 .. N - 1) \ D :
              sums[D \cup {s}] = UpdateBlance(sums[D], issued[s + 1].txs)
    BY DEF IsLedger
  <2>2. \A s \in 0 .. N - 1 : issued[s + 1].txs = b[s + 1].txs
    BY <1>0
  <2> QED
    BY <2>1, <2>2 DEF AreSums
<1>2. \A s \in 0 .. N : b[s + 1].txs \in Seq(T)
  <2>1. \A s \in 0 .. N : s \in Issued \/ s = N
    OBVIOUS
  <2> QED
    BY <1>0, <2>1
<1> HIDE DEF blocks
<1>3. PICK more : Extend(more, sums, N, InitBalance, b)
  BY <1>1, <1>2, SumsGrow
<1>4. /\ AreSums(more, N + 1, InitBalance, b)
      /\ \A D \in SUBSET Issued : more[D] = sums[D]
  BY <1>3 DEF Extend
<1>5. /\ more \in [SUBSET Issued' -> Balances]
      /\ more[{}] = InitBalance
      /\ \A D \in SUBSET Issued' : \A s \in Issued' \ D :
            more[D \cup {s}] = UpdateBlance(more[D], b[s + 1].txs)
  <2>1. (N + 1) - 1 = N
    OBVIOUS
  <2> QED
    BY <1>4, <2>1 DEF AreSums
<1>6. IsLedger(more)'
  BY <1>0, <1>5 DEF IsLedger, blocks
<1> QED
  BY <1>4, <1>6

\* Publish: the block goes on top of all those before it, which the primary has.
LEMMA LedgerPublish ==
  ASSUME Inv, Inv', LedgerInv, Publish, NEW N, N = Len(issued)
  PROVE  LedgerInv'
<1> DEFINE b == PackBlock
<1>1. /\ Primary \notin aborted
      /\ N < MaxSeq
      /\ Pbft!Done(Primary) = 0 .. N - 1
      /\ issued' = Append(issued, b)
      /\ UNCHANGED <<executed, balance, chain, asked, approved, accepted, aborted, restarted>>
  BY DEF Publish, Pbft!Issue, coinvars
<1>2. b.prev = Last(chain[Primary]) /\ b.txs \in Seq(accepted)
  <2>1. pool \in SUBSET Txs /\ IsPool(pool) /\ pool \in SUBSET accepted
    BY DEF Inv, Typed
  <2>2. PackTxs(pool) \in Seq(pool)
    BY <2>1, TxsStamped, PackTxsIs, RuccoinAssumption
  <2>3. PackTxs(pool) \in Seq(accepted)
    BY <2>1, <2>2, SeqMonotonic
  <2> QED
    BY <2>3 DEF PackBlock
<1> HIDE DEF b
<1>3. LedgerTyped /\ PrimaryInOrder /\ ChainsInOrder
  BY DEF LedgerInv
<1>4. issued \in Seq(Blocks) /\ issued' \in Seq(Blocks) /\ N \in Nat /\ MaxSeq \in Nat
  BY RuccoinAssumption DEF Inv, Typed
<1>5. /\ Len(issued') = N + 1
      /\ \A i \in 1 .. N : issued'[i] = issued[i]
      /\ issued'[N + 1] = b
  <2>1. IsSequence(issued)
    BY <1>4 DEF IsSequence
  <2> QED
    BY <1>1, <2>1, AppendAny
<1>6. Issued = 0 .. N - 1 /\ Issued' = 0 .. N
  BY <1>4, <1>5 DEF Issued
<1>7. \A s \in Issued : issued'[s + 1] = issued[s + 1]
  <2>1. \A s \in Issued : s + 1 \in 1 .. N
    BY <1>4, <1>6
  <2> QED
    BY <1>5, <2>1
<1>8. issued'[N + 1].txs \in Seq(accepted)
  BY <1>2, <1>5
<1>9. \A n : (Pbft!Done(n)' = Pbft!Done(n)) /\ (InOrder(n)' <=> InOrder(n))
  BY <1>1 DEF Pbft!Done, InOrder
<1>10. Misled' = Misled
  BY <1>1, <1>9 DEF Misled
<1>11. Len(executed[Primary]) = N
  <2>1. IsSequence(executed[Primary]) /\ InOrder(Primary) /\ Len(executed[Primary]) \in {N - 1, N}
    BY <1>3, RuccoinAssumption DEF LedgerTyped, PrimaryInOrder
  <2>2. Len(executed[Primary]) \in Nat /\ 0 .. N - 1 = 0 .. Len(executed[Primary]) - 1
    BY <1>1, <2>1, DoneInOrder
  <2>3. N > 0 => N - 1 \in 0 .. N - 1
    BY <1>4
  <2>4. N > 0 => N - 1 \in 0 .. Len(executed[Primary]) - 1
    BY <2>2, <2>3
  <2> QED
    BY <1>4, <2>1, <2>2, <2>4
<1>12. b.prev = PrevHash(N)
  <2>1. Primary \in Nodes \ (restarted \cup aborted) /\ InOrder(Primary)
    BY <1>1, <1>3, RuccoinAssumption DEF LedgerTyped, PrimaryInOrder
  <2>2. /\ Len(chain[Primary]) = N + 1
        /\ \A i \in 1 .. Len(chain[Primary]) : chain[Primary][i] = PrevHash(i - 1)
    BY <1>3, <1>11, <2>1 DEF ChainsInOrder
  <2>3. N + 1 \in 1 .. N + 1 /\ (N + 1) - 1 = N
    BY <1>4
  <2> QED
    BY <1>2, <2>2, <2>3 DEF Last
<1>13. LedgerTyped'
  <2>1. \A n \in Nodes : Pbft!Done(n) \subseteq Issued'
    BY <1>3, <1>4, <1>6 DEF LedgerTyped
  <2>2. \A s \in Seqs \ Issued' : approved[s] = {}
    BY <1>3, <1>4, <1>6 DEF LedgerTyped
  <2> QED
    BY <1>1, <1>3, <1>9, <2>1, <2>2 DEF LedgerTyped
<1>14. PrimaryInOrder'
  <2>1. \A s \in Issued' : issued'[s + 1].prev = PrevHash(s)
    BY <1>3, <1>4, <1>5, <1>6, <1>7, <1>12 DEF PrimaryInOrder
  <2>2. InOrder(Primary)
    BY <1>3 DEF PrimaryInOrder
  <2>3. executed'[Primary] = executed[Primary] /\ N = Len(issued') - 1
    BY <1>1, <1>4, <1>5
  <2> QED
    BY <1>9, <1>11, <2>1, <2>2, <2>3 DEF PrimaryInOrder
<1>15. ChainsInOrder'
  BY <1>1, <1>3, <1>9 DEF ChainsInOrder
<1>16. NoHalves' => \E sums : LedgerOf(sums)'
  <2> SUFFICES ASSUME NoHalves' PROVE \E sums : LedgerOf(sums)'
    OBVIOUS
  <2>1. NoHalves
    BY <1>1 DEF NoHalves
  <2>16. PICK sums : LedgerOf(sums)
    BY <2>1 DEF LedgerInv
  <2>17. PICK more : IsLedger(more)' /\ \A D \in SUBSET Issued : more[D] = sums[D]
    <3>1. \A tx \in accepted : tx.value \in Int /\ ~ Halfway(tx.value)
      BY <2>1, TxsAssumption DEF NoHalves, Inv, Typed
    <3>2. \A s \in Issued : issued[s + 1].txs \in Seq(accepted)
      BY BlockIs
    <3> QED
      BY <1>4, <1>6, <1>7, <1>8, <2>16, <3>1, <3>2, LedgerGrows DEF LedgerOf
  <2>18. BalancesAre(more)'
    <3>1. \A n \in Nodes : Pbft!Done(n) \in SUBSET Issued
      BY <1>3 DEF LedgerTyped
    <3> QED
      BY <1>1, <1>9, <2>16, <2>17, <3>1 DEF LedgerOf, BalancesAre
  <2>19. Approvals(more)'
    <3> SUFFICES ASSUME NEW s \in Issued', NEW n \in approved[s] \ Misled
                 PROVE  \E c : CheckBlock(more[0 .. s - 1], c, issued'[s + 1])
      BY <1>1, <1>10 DEF Approvals
    <3>1. approved[N] = {}
      <4>1. N \in Seqs \ Issued
        BY <1>1, <1>4, <1>6 DEF Seqs
      <4> QED
        BY <1>3, <4>1 DEF LedgerTyped
    <3>2. s \in Issued
      BY <1>4, <1>6, <3>1
    <3>3. 0 .. s - 1 \in SUBSET Issued
      BY <1>4, <1>6, <3>2
    <3>4. \E c : CheckBlock(sums[0 .. s - 1], c, issued[s + 1])
      BY <2>16, <3>2 DEF LedgerOf, Approvals
    <3> QED
      BY <1>7, <2>17, <3>2, <3>3, <3>4
  <2>20. Covered(more)'
    <3>1. \A k \in 0 .. N : 0 .. k - 1 \in SUBSET Issued
      BY <1>4, <1>6
    <3> QED
      BY <1>1, <1>10, <1>11, <2>16, <2>17, <3>1 DEF LedgerOf, Covered, NoneWrittenUp
  <2> QED
    BY <2>17, <2>18, <2>19, <2>20 DEF LedgerOf
<1> QED
  BY <1>13, <1>14, <1>15, <1>16 DEF LedgerInv

\* The blocks a node reads back are some it had committed.
LEMMA ReadBlockChainHashType ==
  ASSUME Typed, LedgerTyped, NEW n \in Nodes
  PROVE  ReadBlockChainHash(n) \in Seq(Seqs \cup {Genesis})
<1> DEFINE X == Seq(Seqs \cup {Genesis})
           next(c) == {s \in Files(n) : issued[s + 1].prev = Last(c)}
           one(c) == IF next(c) = {} THEN c ELSE Append(c, CHOOSE s \in next(c) : TRUE)
           step == [k \in 1 .. MaxSeq |-> [c \in X |-> one(c)]]
           Reads(g) == g = [k \in 0 .. MaxSeq |-> IF k = 0 THEN <<Genesis>> ELSE one(g[k - 1])]
<1>1. MaxSeq \in Nat /\ <<Genesis>> \in X
  BY RuccoinAssumption
<1>2. ASSUME NEW c \in X PROVE one(c) \in X
  <2>1. next(c) \subseteq Seqs
    <3>1. Pbft!Done(n) \subseteq Issued
      BY DEF LedgerTyped
    <3>2. Issued \subseteq Seqs
      BY <1>1 DEF Typed, Issued, Seqs
    <3>3. next(c) \subseteq Pbft!Done(n)
      BY DEF Files
    <3> QED
      BY <3>1, <3>2, <3>3
  <2>2. next(c) # {} => (CHOOSE s \in next(c) : TRUE) \in next(c)
    OBVIOUS
  <2> QED
    BY <2>1, <2>2, AppendProperties
<1> HIDE DEF one, next
<1>3. step \in [1 .. MaxSeq -> [X -> X]]
  BY <1>2
<1>4. \A k \in 1 .. MaxSeq, c \in X : step[k][c] = one(c)
  OBVIOUS
<1> HIDE DEF X, step
<1>5. PICK h : IsTrace(h, X, <<Genesis>>, MaxSeq, step)
  BY <1>1, <1>3, TraceExists
<1>6. \E g : Reads(g)
  <2>1. /\ h \in [0 .. MaxSeq -> X] /\ h[0] = <<Genesis>>
        /\ \A k \in 1 .. MaxSeq : h[k] = step[k][h[k - 1]]
    BY <1>5 DEF IsTrace
  <2>2. \A k \in 1 .. MaxSeq : k - 1 \in 0 .. MaxSeq
    BY <1>1
  <2>3. \A k \in 1 .. MaxSeq : h[k] = one(h[k - 1])
    BY <1>4, <2>1, <2>2
  <2>4. \A k \in 0 .. MaxSeq : k = 0 \/ k \in 1 .. MaxSeq
    BY <1>1
  <2>5. \A k \in 0 .. MaxSeq : h[k] = IF k = 0 THEN <<Genesis>> ELSE one(h[k - 1])
    BY <2>1, <2>3, <2>4
  <2>6. Reads(h)
    BY <2>1, <2>5
  <2> QED
    BY <2>6
<1> DEFINE chains == CHOOSE g : Reads(g)
<1>7. ReadBlockChainHash(n) = chains[MaxSeq]
  BY Zenon DEF ReadBlockChainHash, one, next
<1>8. Reads(chains)
  BY <1>6, Zenon
<1> HIDE DEF chains
<1>9. chains[0] \in X /\ \A k \in 1 .. MaxSeq : chains[k - 1] \in X => chains[k] \in X
  <2>1. chains[0] = <<Genesis>> /\ \A k \in 1 .. MaxSeq : chains[k] = one(chains[k - 1])
    BY <1>1, <1>8
  <2> QED
    BY <1>1, <1>2, <2>1
<1>10. \A k \in 0 .. MaxSeq : chains[k] \in X
  BY <1>1, <1>9, Along
<1> QED
  BY <1>1, <1>7, <1>10 DEF X

\* A commit: the replica that has executed one more block has the balances of one
\* more block.  When it is the primary, somebody who knew has approved it.
LEMMA LedgerCommit ==
  ASSUME Inv, LedgerInv, NEW n \in Nodes, NEW s \in Seqs, CommitProposal(n, s)
  PROVE  LedgerInv'
<1> DEFINE txs == issued[s + 1].txs
<1>1. /\ n \notin aborted
      /\ Cardinality(approved[s]) >= Quorum
      /\ Pbft!Execute(n, s)
      /\ balance' = [balance EXCEPT ![n] = UpdateBlance(@, txs)]
      /\ \/ chain' = [chain EXCEPT ![n] = Append(@, s)] /\ aborted' = aborted
         \/ chain' = chain /\ aborted' = aborted \cup {n}
      /\ UNCHANGED <<accepted, asked, approved, restarted>>
  BY DEF CommitProposal, Voted
<1>2. Typed /\ LedgerTyped /\ PrimaryInOrder /\ ChainsInOrder
  BY DEF Inv, LedgerInv
<1>3. /\ issued' = issued
      /\ s \in Issued \ Pbft!Done(n)
      /\ executed' = [m \in Nodes |-> executed'[m]]
      /\ \A m \in Nodes : IsSequence(executed'[m])
      /\ \A m \in Nodes \ {n} : executed'[m] = executed[m]
      /\ Len(executed[n]) \in Nat
      /\ Len(executed'[n]) = Len(executed[n]) + 1
      /\ Pbft!Done(n)' = Pbft!Done(n) \cup {s}
      /\ InOrder(n)' <=> InOrder(n) /\ s = Len(executed[n])
  BY <1>1, <1>2, ExecuteAt
<1>4. Issued' = Issued
  BY <1>3 DEF Issued
<1>5. \A m \in Nodes \ {n} : (Pbft!Done(m)' = Pbft!Done(m)) /\ (InOrder(m)' <=> InOrder(m))
  BY SMTT(30), <1>3 DEF Pbft!Done, InOrder
<1>6. /\ Misled \subseteq Misled'
      /\ Cardinality(Misled') < Quorum => Cardinality(Misled) < Quorum
  <2>1. \A m \in Nodes : InOrder(m)' => InOrder(m)
    BY <1>3, <1>5
  <2> QED
    BY <1>1, <2>1, MisledGrows
<1>7. txs \in Seq(Txs) /\ txs \in Seq(accepted) /\ \A tx \in Txs : tx.value \in Int
  BY <1>3, BlockIs, TxsAssumption
<1> HIDE DEF txs
<1>8. /\ balance \in [Nodes -> Balances] /\ balance' \in [Nodes -> Balances]
      /\ balance'[n] = UpdateBlance(balance[n], txs)
      /\ \A m \in Nodes \ {n} : balance'[m] = balance[m]
  <2>1. balance \in [Nodes -> Balances]
    BY <1>2 DEF LedgerTyped
  <2>2. UpdateBlance(balance[n], txs) \in Balances
    BY <1>7, <2>1, UpdateBlanceTyped
  <2> QED
    BY <1>1, <2>1, <2>2
<1>9. /\ chain' \in [Nodes -> Seq(Seqs \cup {Genesis})]
      /\ \A m \in Nodes \ {n} : chain'[m] = chain[m]
      /\ n \notin aborted' => chain'[n] = Append(chain[n], s)
  <2>1. chain \in [Nodes -> Seq(Seqs \cup {Genesis})]
    BY <1>2 DEF LedgerTyped
  <2>2. Append(chain[n], s) \in Seq(Seqs \cup {Genesis})
    BY <2>1, AppendProperties
  <2> QED
    BY <1>1, <2>1, <2>2
<1>10. LedgerTyped'
  <2>1. \A m \in Nodes : Pbft!Done(m)' \subseteq Issued
    BY SMTT(30), <1>2, <1>3, <1>5 DEF LedgerTyped
  <2> QED
    BY <1>1, <1>2, <1>3, <1>4, <1>8, <1>9, <2>1 DEF LedgerTyped
<1>11. n = Primary => s = Len(executed[n])
  <2> SUFFICES ASSUME n = Primary PROVE s = Len(executed[n])
    OBVIOUS
  <2>1. IsSequence(executed[n]) /\ InOrder(n) /\ Len(executed[n]) \in {Len(issued) - 1, Len(issued)}
    BY <1>2 DEF LedgerTyped, PrimaryInOrder
  <2>2. Pbft!Done(n) = 0 .. Len(executed[n]) - 1
    BY <2>1, DoneInOrder
  <2>3. Len(issued) \in Nat /\ s \in 0 .. Len(issued) - 1 /\ s \notin 0 .. Len(executed[n]) - 1
    BY <1>2, <1>3, <2>2 DEF Typed, Issued
  <2> QED
    BY <1>3, <2>1, <2>3
<1>12. PrimaryInOrder'
  <2>1. InOrder(Primary)' /\ Len(executed'[Primary]) \in {Len(issued) - 1, Len(issued)}
    <3>1. CASE n = Primary
      <4>1. InOrder(Primary)'
        BY <1>2, <1>3, <1>11, <3>1 DEF PrimaryInOrder
      <4>2. Len(issued) \in Nat /\ s \in 0 .. Len(issued) - 1
        BY <1>2, <1>3 DEF Typed, Issued
      <4>3. Len(executed[n]) \in {Len(issued) - 1, Len(issued)}
        BY <1>2, <3>1 DEF PrimaryInOrder
      <4>4. Len(executed'[n]) = Len(issued)
        BY <1>3, <1>11, <3>1, <4>2, <4>3
      <4> QED
        BY <3>1, <4>1, <4>4
    <3>2. CASE n # Primary
      <4>1. executed'[Primary] = executed[Primary] /\ (InOrder(Primary)' <=> InOrder(Primary))
        BY <1>3, <1>5, <3>2, RuccoinAssumption
      <4> QED
        BY <1>2, <4>1 DEF PrimaryInOrder
    <3> QED
      BY <3>1, <3>2
  <2> QED
    BY <1>2, <1>3, <1>4, <2>1 DEF PrimaryInOrder
<1>13. ChainsInOrder'
  <2> SUFFICES ASSUME NEW m \in Nodes \ (restarted \cup aborted'), InOrder(m)'
               PROVE  /\ Len(chain'[m]) = Len(executed'[m]) + 1
                      /\ \A i \in 1 .. Len(chain'[m]) : chain'[m][i] = PrevHash(i - 1)
    BY <1>1 DEF ChainsInOrder
  <2>1. m \notin aborted
    BY <1>1
  <2>2. CASE m # n
    BY SMTT(30), <1>2, <1>3, <1>5, <1>9, <2>1, <2>2 DEF ChainsInOrder
  <2>3. CASE m = n
    <3> DEFINE c == chain[n]
    <3>1. InOrder(n) /\ s = Len(executed[n]) /\ chain'[n] = Append(c, s)
      BY <1>3, <1>9, <2>3
    <3>2. /\ Len(c) = Len(executed[n]) + 1
          /\ \A i \in 1 .. Len(c) : c[i] = PrevHash(i - 1)
      BY <1>2, <2>1, <2>3, <3>1 DEF ChainsInOrder
    <3>3. IsSequence(c)
      BY <1>2 DEF LedgerTyped, IsSequence
    <3>4. /\ Len(chain'[n]) = Len(c) + 1
          /\ \A i \in 1 .. Len(c) : chain'[n][i] = c[i]
          /\ chain'[n][Len(c) + 1] = s
      BY <3>1, <3>3, AppendAny
    <3> HIDE DEF c
    <3>5. Len(chain'[n]) = Len(executed'[n]) + 1
      BY <1>3, <3>2, <3>4
    <3>6. PrevHash((Len(c) + 1) - 1) = s
      BY <1>3, <3>1, <3>2 DEF PrevHash
    <3>7. \A i \in 1 .. Len(chain'[n]) : i \in 1 .. Len(c) \/ i = Len(c) + 1
      BY <1>3, <3>2, <3>4
    <3>8. \A i \in 1 .. Len(chain'[n]) : chain'[n][i] = PrevHash(i - 1)
      BY <3>2, <3>4, <3>6, <3>7
    <3> QED
      BY <2>3, <3>5, <3>8
  <2> QED
    BY <2>2, <2>3
<1>14. NoHalves' => \E sums : LedgerOf(sums)'
  <2> SUFFICES ASSUME NoHalves' PROVE \E sums : LedgerOf(sums)'
    OBVIOUS
  <2>1. NoHalves
    BY <1>1 DEF NoHalves
  <2>14. PICK sums : LedgerOf(sums)
    BY <2>1 DEF LedgerInv
  <2>15. /\ sums \in [SUBSET Issued -> Balances]
         /\ \A D \in SUBSET Issued : \A r \in Issued \ D :
               sums[D \cup {r}] = UpdateBlance(sums[D], issued[r + 1].txs)
    BY <2>14 DEF LedgerOf, IsLedger
  <2>16. IsLedger(sums)'
    BY <1>3, <1>4, <2>14 DEF LedgerOf, IsLedger
  <2>17. BalancesAre(sums)'
    <3> SUFFICES ASSUME NEW m \in Nodes \ restarted PROVE balance'[m] = sums[Pbft!Done(m)']
      BY <1>1 DEF BalancesAre
    <3>1. balance[m] = sums[Pbft!Done(m)]
      BY <2>14 DEF LedgerOf, BalancesAre
    <3>2. CASE m # n
      BY <1>5, <1>8, <3>1, <3>2
    <3>3. CASE m = n
      <4>1. Pbft!Done(n) \in SUBSET Issued
        BY <1>2 DEF LedgerTyped
      <4>2. sums[Pbft!Done(n) \cup {s}] = UpdateBlance(sums[Pbft!Done(n)], txs)
        BY <1>3, <2>15, <4>1 DEF txs
      <4> QED
        BY <1>3, <1>8, <3>1, <3>3, <4>2
    <3> QED
      BY <3>2, <3>3
  <2>18. Approvals(sums)'
    <3>1. \A r \in Issued : \A m \in approved[r] \ Misled' : m \in approved[r] \ Misled
      BY <1>6
    <3> QED
      BY <1>1, <1>3, <1>4, <2>14, <3>1 DEF LedgerOf, Approvals
  <2>19. Covered(sums)'
    <3> SUFFICES ASSUME Cardinality(Misled) < Quorum, NoneWrittenUp,
                        NEW k \in 0 .. Len(executed'[Primary])
                 PROVE  NonNegative(sums[0 .. k - 1])
      BY <1>1, <1>6 DEF Covered, NoneWrittenUp
    <3>1. \A j \in 0 .. Len(executed[Primary]) : NonNegative(sums[0 .. j - 1])
      BY <2>14 DEF LedgerOf, Covered
    <3>2. CASE k \in 0 .. Len(executed[Primary])
      BY <3>1, <3>2
    <3>3. CASE k \notin 0 .. Len(executed[Primary])
      <4>1. n = Primary
        BY <1>3, <3>3, RuccoinAssumption
      <4>2. s \in Nat /\ s = Len(executed[Primary]) /\ k = s + 1
        BY <1>3, <1>11, <3>3, <4>1
      <4>3. PICK m \in approved[s] : m \notin Misled
        <5>1. approved[s] \subseteq Nodes
          BY <1>2 DEF LedgerTyped
        <5> QED
          BY <1>1, <5>1, OneOfQuorum
      <4>4. PICK c : CheckBlock(sums[0 .. s - 1], c, issued[s + 1])
        BY <1>3, <2>14, <4>3 DEF LedgerOf, Approvals
      <4>5. 0 .. s - 1 \in SUBSET Issued /\ s \notin 0 .. s - 1 /\ (0 .. s - 1) \cup {s} = 0 .. s
        BY <1>3, <4>2 DEF Issued
      <4>6. sums[0 .. s - 1] \in Balances
        BY <2>15, <4>5
      <4>7. \A a \in Accounts : sums[0 .. s - 1][a] >= 0
        BY <3>1, <4>2 DEF NonNegative
      <4>8. \A tx \in accepted : /\ tx.value \in Int /\ tx.value >= 0
                                   /\ 2 * (tx.value % Scale) < Scale
        BY <1>2, <1>7 DEF Typed, NoneWrittenUp
      <4>9. \A a \in Accounts : UpdateBlance(sums[0 .. s - 1], txs)[a] >= 0
        BY <1>7, <4>4, <4>6, <4>7, <4>8, CheckedIsCovered DEF txs
      <4>10. sums[0 .. s] = UpdateBlance(sums[0 .. s - 1], txs)
        BY <1>3, <2>15, <4>5 DEF txs
      <4>11. k - 1 = s
        BY <4>2
      <4> QED
        BY <4>9, <4>10, <4>11 DEF NonNegative
    <3> QED
      BY <3>2, <3>3
  <2> QED
    BY <2>16, <2>17, <2>18, <2>19 DEF LedgerOf
<1> QED
  BY <1>10, <1>12, <1>13, <1>14 DEF LedgerInv

\* A restart: from then on the replica is counted out.
LEMMA LedgerRestart ==
  ASSUME Inv, LedgerInv, NEW n \in Nodes, Restart(n)
  PROVE  LedgerInv'
<1>1. /\ n # Primary
      /\ restarted' = restarted \cup {n}
      /\ balance' = [balance EXCEPT ![n] = InitBalance]
      /\ chain' = [chain EXCEPT ![n] = ReadBlockChainHash(n)]
      /\ aborted' = aborted \ {n}
      /\ UNCHANGED <<issued, executed, pool, accepted, asked, approved>>
  BY DEF Restart
<1>2. Typed /\ LedgerTyped /\ PrimaryInOrder /\ ChainsInOrder
  BY DEF Inv, LedgerInv
<1>3. Issued' = Issued
  BY <1>1 DEF Issued
<1>4. \A m : (Pbft!Done(m)' = Pbft!Done(m)) /\ (InOrder(m)' <=> InOrder(m))
  BY <1>1 DEF Pbft!Done, InOrder
<1>5. /\ Misled \subseteq Misled'
      /\ Cardinality(Misled') < Quorum => Cardinality(Misled) < Quorum
  BY <1>1, <1>4, MisledGrows
<1>6. LedgerTyped'
  <2>1. balance' \in [Nodes -> Balances]
    <3>1. balance \in [Nodes -> Balances] /\ InitBalance \in Balances
      BY <1>2, RuccoinAssumption DEF LedgerTyped, Balances
    <3> QED
      BY <1>1, <3>1
  <2>2. chain' \in [Nodes -> Seq(Seqs \cup {Genesis})]
    <3>1. ReadBlockChainHash(n) \in Seq(Seqs \cup {Genesis})
      BY <1>2, ReadBlockChainHashType
    <3>2. chain \in [Nodes -> Seq(Seqs \cup {Genesis})]
      BY <1>2 DEF LedgerTyped
    <3> QED
      BY <1>1, <3>1, <3>2
  <2> QED
    BY <1>1, <1>2, <1>3, <1>4, <2>1, <2>2 DEF LedgerTyped
<1>7. PrimaryInOrder'
  BY <1>1, <1>2, <1>3, <1>4 DEF PrimaryInOrder
<1>8. \A m \in Nodes \ {n} : chain'[m] = chain[m] /\ balance'[m] = balance[m]
  BY <1>1, <1>2 DEF LedgerTyped
<1>9. ChainsInOrder'
  <2>1. \A m \in Nodes \ (restarted' \cup aborted') : m # n /\ m \notin restarted /\ m \notin aborted
    BY <1>1
  <2> QED
    BY <1>1, <1>2, <1>4, <1>8, <2>1 DEF ChainsInOrder
<1>10. NoHalves' => \E sums : LedgerOf(sums)'
  <2> SUFFICES ASSUME NoHalves' PROVE \E sums : LedgerOf(sums)'
    OBVIOUS
  <2>1. NoHalves
    BY <1>1 DEF NoHalves
  <2>10. PICK sums : LedgerOf(sums)
    BY <2>1 DEF LedgerInv
  <2>11. IsLedger(sums)'
    BY <1>1, <1>3, <2>10 DEF LedgerOf, IsLedger
  <2>12. BalancesAre(sums)'
    BY <1>1, <1>4, <1>8, <2>10 DEF LedgerOf, BalancesAre
  <2>13. Approvals(sums)'
    <3>1. \A r \in Issued : \A m \in approved[r] \ Misled' : m \in approved[r] \ Misled
      BY <1>5
    <3> QED
      BY <1>1, <1>3, <2>10, <3>1 DEF LedgerOf, Approvals
  <2>14. Covered(sums)'
    BY <1>1, <1>5, <2>10 DEF LedgerOf, Covered, NoneWrittenUp
  <2> QED
    BY <2>11, <2>12, <2>13, <2>14 DEF LedgerOf
<1> QED
  BY <1>6, <1>7, <1>9, <1>10 DEF LedgerInv

\* Every step keeps the ledgers.
LEMMA LedgerStep == Inv /\ Inv' /\ LedgerInv /\ [Next]_vars => LedgerInv'
<1> SUFFICES ASSUME Inv, Inv', LedgerInv, [Next]_vars PROVE LedgerInv'
  OBVIOUS
<1>1. ASSUME NEW tx \in Txs, AddTransx(tx) PROVE LedgerInv'
  BY <1>1, LedgerQuiet DEF AddTransx
<1>2. CASE Publish
  BY <1>2, LedgerPublish
<1>3. ASSUME NEW n \in Nodes, NEW s \in Seqs, CheckProposal(n, s) PROVE LedgerInv'
  BY <1>3, LedgerCheck
<1>4. ASSUME NEW n \in Nodes, NEW s \in Seqs, CommitProposal(n, s) PROVE LedgerInv'
  BY <1>4, LedgerCommit
<1>5. ASSUME NEW n \in Nodes, Restart(n) PROVE LedgerInv'
  BY <1>5, LedgerRestart
<1>6. CASE UNCHANGED vars
  BY <1>6, LedgerQuiet DEF vars, coinvars
<1> QED
  BY <1>1, <1>2, <1>3, <1>4, <1>5, <1>6 DEF Next

\* The ledgers are right throughout.
LEMMA AlwaysLedgerInv == Spec => [](Inv /\ LedgerInv)
<1>1. Init => Inv /\ LedgerInv
  BY InvInit, LedgerInit
<1>2. (Inv /\ LedgerInv) /\ [Next]_vars => (Inv /\ LedgerInv)'
  BY InvStep, LedgerStep
<1> QED
  BY <1>1, <1>2, PTL DEF Spec

\* Type correctness.
THEOREM Types == Spec => []TypeOK
<1>1. ASSUME Inv, LedgerInv PROVE TypeOK
  <2>1. \A i \in 1 .. Len(issued) : issued[i].txs \in Seq(Txs)
    <3>1. issued \in Seq(Blocks)
      BY <1>1 DEF Inv, Typed
    <3>2. \A i \in 1 .. Len(issued) : issued[i] \in Blocks
      BY <3>1
    <3> QED
      BY <3>2 DEF Blocks
  <2>2. pool \subseteq accepted /\ lost \subseteq accepted /\ accepted \subseteq Txs
    BY <1>1 DEF Inv, Typed
  <2>3. balance \in [Nodes -> [Accounts -> Int]] /\ chain \in [Nodes -> Seq(Seqs \cup {Genesis})]
    BY <1>1 DEF LedgerInv, LedgerTyped, Balances
  <2>4. \A s \in Seqs : approved[s] \subseteq asked[s] /\ asked[s] \subseteq Nodes
    BY <1>1 DEF LedgerInv, LedgerTyped
  <2>5. aborted \subseteq Nodes /\ restarted \subseteq Nodes \ {Primary}
    BY <1>1 DEF LedgerInv, LedgerTyped
  <2> QED
    BY <2>1, <2>2, <2>3, <2>4, <2>5 DEF TypeOK
<1> QED
  BY AlwaysLedgerInv, <1>1, PTL

\* Coin nodes that have executed the same blocks agree about the balances, whatever
\* order each has executed them in, if no value is half-way between two amounts.
THEOREM LedgersAgree == Spec => []SameBalances
<1>1. ASSUME LedgerInv PROVE SameBalances
  <2> SUFFICES ASSUME NoHalves PROVE SameBalances
    BY DEF SameBalances
  <2>1. PICK sums : BalancesAre(sums)
    BY <1>1 DEF LedgerInv, LedgerOf
  <2> QED
    BY <2>1 DEF SameBalances, BalancesAre
<1> QED
  BY AlwaysLedgerInv, <1>1, PTL

\* The primary's ledger is not overdrawn while fewer replicas than a quorum have
\* been restarted or have skipped a block, and nobody was sent a negative value or
\* one that is written as more than it is.
THEOREM NothingOverdrawn == Spec => []NoOverdraft
<1>1. ASSUME Inv, LedgerInv PROVE NoOverdraft
  <2> SUFFICES ASSUME Cardinality(Misled) < Quorum, NoneWrittenUp,
                      NEW a \in Accounts
               PROVE  balance[Primary][a] >= 0
    BY DEF NoOverdraft, NoneWrittenUp
  <2>0. NoHalves
    <3>1. \A tx \in accepted : tx.value \in Int
      BY <1>1, TxsAssumption DEF Inv, Typed
    <3> QED
      BY <3>1, WrittenDown DEF NoHalves, NoneWrittenUp
  <2>1. PICK sums : BalancesAre(sums) /\ Covered(sums)
    BY <1>1, <2>0 DEF LedgerInv, LedgerOf
  <2>2. Primary \in Nodes \ restarted /\ IsSequence(executed[Primary]) /\ InOrder(Primary)
    BY <1>1, RuccoinAssumption DEF LedgerInv, LedgerTyped, PrimaryInOrder
  <2>3. /\ Len(executed[Primary]) \in 0 .. Len(executed[Primary])
        /\ balance[Primary] = sums[0 .. Len(executed[Primary]) - 1]
    BY <2>1, <2>2, DoneInOrder DEF BalancesAre
  <2> QED
    BY <2>1, <2>3 DEF Covered, NonNegative
<1> QED
  BY AlwaysLedgerInv, <1>1, PTL

-----------------------------------------------------------------------------
(***************************************************************************)
(* The coins.                                                              *)
(***************************************************************************)
CoinsInv == NoHalves => (\A n \in Nodes : CreatedAt(n) \in Seq(Int)) /\ CoinsKept

\* Nothing is executed at the start.
LEMMA CoinsInit == Init => CoinsInv
<1> SUFFICES ASSUME Init PROVE CoinsInv
  OBVIOUS
<1>1. \A n \in Nodes : executed[n] = <<>> /\ balance[n] = InitBalance
  BY DEF Init, Pbft!OInit
<1>2. \A n \in Nodes : CreatedAt(n) = <<>>
  BY <1>1 DEF CreatedAt
<1>3. Coins(InitBalance) \in Int
  <2>1. IsFiniteSet(Accounts) /\ InitBalance \in Balances
    BY RuccoinAssumption DEF Balances
  <2>2. <<>> \in Seq({}) /\ \A tx \in {} : tx.value \in Int /\ ~ Halfway(tx.value)
    OBVIOUS
  <2> QED
    BY <2>1, <2>2, CoinsOfBlock
<1>4. Total(<<>>) = 0
  <2>1. <<>> \in Seq(Int) /\ Len(<<>>) = 0
    OBVIOUS
  <2>2. PICK h : AddsUp(h, <<>>)
    BY <2>1, TotalFold
  <2> QED
    BY <2>1, <2>2 DEF AddsUp
<1>5. \A n \in Nodes : CreatedAt(n) \in Seq(Int)
  <2>1. <<>> \in Seq(Int)
    OBVIOUS
  <2> QED
    BY <1>2, <2>1
<1>6. CoinsKept
  BY <1>1, <1>2, <1>3, <1>4 DEF CoinsKept
<1> QED
  BY <1>5, <1>6 DEF CoinsInv

\* A commit adds to the coins of the replica what the block creates.
LEMMA CoinsCommit ==
  ASSUME Inv, LedgerInv, CoinsInv, NEW n \in Nodes, NEW s \in Seqs, CommitProposal(n, s)
  PROVE  CoinsInv'
<1> DEFINE txs == issued[s + 1].txs
           e == [seq |-> s, req |-> issued[s + 1]]
           new == Created(txs)
<1>1. /\ Pbft!Execute(n, s)
      /\ executed' = [executed EXCEPT ![n] = Append(@, e)]
      /\ balance' = [balance EXCEPT ![n] = UpdateBlance(@, txs)]
      /\ restarted' = restarted /\ accepted' = accepted
  BY DEF CommitProposal, Pbft!Execute
<1> SUFFICES ASSUME NoHalves PROVE CoinsInv'
  BY <1>1 DEF CoinsInv, NoHalves
<1>2. Typed /\ LedgerTyped
  BY DEF Inv, LedgerInv
<1>3. s \in Issued
  BY <1>1, <1>2, ExecuteAt
<1>4. /\ executed = [m \in Nodes |-> executed[m]] /\ \A m \in Nodes : IsSequence(executed[m])
      /\ balance \in [Nodes -> Balances]
  BY <1>2 DEF LedgerTyped
<1>5. /\ txs \in Seq(accepted) /\ IsFiniteSet(Accounts)
      /\ \A tx \in accepted : tx.value \in Int /\ ~ Halfway(tx.value)
  BY <1>3, BlockIs, RuccoinAssumption, TxsAssumption DEF NoHalves, Inv, Typed
<1>6. InitBalance \in Balances
  BY RuccoinAssumption DEF Balances
<1>7. e.req.txs = txs
  OBVIOUS
<1> HIDE DEF txs, e
<1>8. /\ new \in Int
      /\ Coins(InitBalance) \in Int
      /\ \A b \in Balances : Coins(b) \in Int /\ Coins(UpdateBlance(b, txs)) = Coins(b) + new
  BY <1>5, <1>6, CoinsOfBlock
<1>9. \A m \in Nodes \ {n} : executed'[m] = executed[m] /\ balance'[m] = balance[m]
  BY <1>1, <1>4
<1>10. executed'[n] = Append(executed[n], e) /\ balance'[n] = UpdateBlance(balance[n], txs)
  BY <1>1, <1>4
<1>11. \A m \in Nodes \ {n} : CreatedAt(m)' = CreatedAt(m)
  BY <1>9 DEF CreatedAt
<1> DEFINE q == CreatedAt(n)
<1>12. q \in Seq(Int)
  BY DEF CoinsInv
<1>13. CreatedAt(n)' = Append(q, new)
  <2> DEFINE x == executed[n]
             y == executed'[n]
             k == Len(x)
  <2>1. /\ k \in Nat /\ Len(y) = k + 1
        /\ \A i \in 1 .. k : y[i] = x[i]
        /\ y[k + 1] = e
        /\ IsSequence(x) /\ IsSequence(y)
    BY <1>4, <1>10, AppendAny
  <2>2. DOMAIN x = 1 .. k /\ DOMAIN y = 1 .. k + 1
    BY <2>1, LenProperties DEF IsSequence
  <2>3. q = [i \in 1 .. k |-> Created(x[i].req.txs)]
    BY <2>2 DEF CreatedAt
  <2>4. CreatedAt(n)' = [i \in 1 .. k + 1 |-> Created(y[i].req.txs)]
    BY <2>2 DEF CreatedAt
  <2>5. Len(q) = k
    BY <1>12, <2>1, <2>3
  <2> HIDE DEF x, y, k, q, new
  <2> DEFINE more == Append(q, new)
  <2>6. more = [i \in 1 .. k + 1 |-> IF i = k + 1 THEN new ELSE q[i]]
    <3>1. /\ more \in Seq(Int) /\ Len(more) = k + 1 /\ more[k + 1] = new
          /\ \A i \in 1 .. k : more[i] = q[i]
      BY <1>8, <1>12, <2>5, AppendProperties
    <3> HIDE DEF more
    <3>2. more = [i \in 1 .. k + 1 |-> more[i]]
      BY <3>1
    <3>3. \A i \in 1 .. k + 1 : i = k + 1 \/ i \in 1 .. k
      BY <2>1
    <3> QED
      BY <3>1, <3>2, <3>3
  <2>7. ASSUME NEW i \in 1 .. k + 1
        PROVE  Created(y[i].req.txs) = IF i = k + 1 THEN new ELSE q[i]
    <3>1. CASE i = k + 1
      BY <1>7, <2>1, <3>1 DEF new
    <3>2. CASE i # k + 1
      <4>1. i \in 1 .. k
        BY <2>1, <3>2
      <4> QED
        BY <2>1, <2>3, <3>2, <4>1
    <3> QED
      BY <3>1, <3>2
  <2> QED
    BY <2>4, <2>6, <2>7
<1>14. /\ Total(q) \in Int
       /\ Total(CreatedAt(n)') = Total(q) + new
       /\ CreatedAt(n)' \in Seq(Int)
  <2> HIDE DEF q, new
  <2>1. Total(q) \in Int /\ Total(Append(q, new)) = Total(q) + new
    BY <1>8, <1>12, TotalAppend
  <2>2. Append(q, new) \in Seq(Int)
    BY <1>8, <1>12, AppendProperties
  <2> QED
    BY <1>13, <2>1, <2>2
<1> HIDE DEF new, q
<1>15. CoinsKept'
  <2> SUFFICES ASSUME NEW m \in Nodes \ restarted
               PROVE  Coins(balance'[m]) = Coins(InitBalance) + Total(CreatedAt(m)')
    BY <1>1 DEF CoinsKept
  <2>1. Coins(balance[m]) = Coins(InitBalance) + Total(CreatedAt(m))
    BY DEF CoinsInv, CoinsKept
  <2>2. CASE m # n
    BY <1>9, <1>11, <2>1, <2>2
  <2>3. CASE m = n
    <3> DEFINE old == Coins(balance[n])
               start == Coins(InitBalance)
               sum == Total(q)
    <3>1. Coins(balance'[n]) = old + new
      BY <1>4, <1>8, <1>10
    <3>2. old = start + sum
      BY <2>1, <2>3 DEF q
    <3>3. start \in Int /\ sum \in Int /\ new \in Int /\ Total(CreatedAt(n)') = sum + new
      BY <1>8, <1>14
    <3> HIDE DEF old, start, sum
    <3>4. Coins(balance'[n]) = start + Total(CreatedAt(n)')
      BY <3>1, <3>2, <3>3
    <3> QED
      BY <2>3, <3>4 DEF start
  <2> QED
    BY <2>2, <2>3
<1>16. \A m \in Nodes : CreatedAt(m)' \in Seq(Int)
  BY <1>11, <1>14 DEF CoinsInv
<1> QED
  BY <1>15, <1>16 DEF CoinsInv

\* Every step keeps the coins.
LEMMA CoinsStep == Inv /\ LedgerInv /\ CoinsInv /\ [Next]_vars => CoinsInv'
<1> SUFFICES ASSUME Inv, LedgerInv, CoinsInv, [Next]_vars PROVE CoinsInv'
  OBVIOUS
<1>1. ASSUME UNCHANGED <<executed, balance, restarted>>, accepted \subseteq accepted'
      PROVE  CoinsInv'
  BY <1>1 DEF CoinsInv, CoinsKept, CreatedAt, NoHalves
<1>2. ASSUME NEW tx \in Txs, AddTransx(tx) PROVE CoinsInv'
  BY <1>1, <1>2 DEF AddTransx
<1>3. CASE Publish
  BY <1>1, <1>3 DEF Publish, Pbft!Issue, coinvars
<1>4. ASSUME NEW n \in Nodes, NEW s \in Seqs, CheckProposal(n, s) PROVE CoinsInv'
  BY <1>1, <1>4 DEF CheckProposal
<1>5. ASSUME NEW n \in Nodes, NEW s \in Seqs, CommitProposal(n, s) PROVE CoinsInv'
  BY <1>5, CoinsCommit
<1>6. ASSUME NEW n \in Nodes, Restart(n) PROVE CoinsInv'
  <2>1. /\ restarted' = restarted \cup {n} /\ executed' = executed /\ accepted' = accepted
        /\ balance' = [balance EXCEPT ![n] = InitBalance]
        /\ balance \in [Nodes -> Balances]
    BY <1>6 DEF Restart, LedgerInv, LedgerTyped
  <2>2. \A m \in Nodes \ restarted' : m \in Nodes \ restarted /\ balance'[m] = balance[m]
    BY <2>1
  <2>3. \A m \in Nodes : CreatedAt(m)' = CreatedAt(m)
    BY <2>1 DEF CreatedAt
  <2> QED
    BY <2>1, <2>2, <2>3 DEF CoinsInv, CoinsKept, NoHalves
<1>7. CASE UNCHANGED vars
  BY <1>1, <1>7 DEF vars, coinvars
<1> QED
  BY <1>2, <1>3, <1>4, <1>5, <1>6, <1>7 DEF Next

\* The coins of a node that was not restarted are those of the start and what
\* transactions to their own sender have created, as written, if no value is
\* half-way between two amounts.
THEOREM CoinsAreKept == Spec => []CoinsKept
<1>1. Init => CoinsInv
  BY CoinsInit
<1>2. (Inv /\ LedgerInv) /\ CoinsInv /\ [Next]_vars => CoinsInv'
  BY CoinsStep
<1>3. CoinsInv => CoinsKept
  BY DEF CoinsInv, CoinsKept
<1> QED
  BY AlwaysLedgerInv, <1>1, <1>2, <1>3, PTL DEF Spec

-----------------------------------------------------------------------------
(***************************************************************************)
(* Refusals.                                                               *)
(***************************************************************************)
\* Only blocks that are proposed are asked about, and what was executed
\* anywhere has its votes.
VotesInv ==
    /\ \A s \in Seqs \ Issued : asked[s] = {}
    /\ \A n \in Nodes : \A s \in Pbft!Done(n) : Voted(s)

\* A vote is not taken back.
LEMMA VotesGrow ==
  ASSUME LedgerInv, NEW n \in Nodes, NEW s \in Seqs, CheckProposal(n, s), NEW r \in Seqs, Voted(r)
  PROVE  Voted(r)'
<1>1. /\ approved \in [Seqs -> SUBSET Nodes]
      /\ approved' = [approved EXCEPT ![s] =
            IF CheckBlock(balance[n], chain[n], issued[s + 1]) THEN @ \cup {n} ELSE @]
  BY DEF CheckProposal, LedgerInv, LedgerTyped
<1>2. approved[r] \subseteq approved'[r] /\ approved'[r] \subseteq Nodes
  BY <1>1
<1>3. IsFiniteSet(Nodes) /\ Cardinality(Nodes) \in Nat
  BY RuccoinAssumption, FS_CardinalityType
<1>4. IsFiniteSet(approved'[r])
  BY <1>2, <1>3, FS_Subset
<1>5. /\ Cardinality(approved[r]) \in Nat /\ Cardinality(approved'[r]) \in Nat
      /\ Cardinality(approved[r]) <= Cardinality(approved'[r])
  BY <1>2, <1>4, FS_Subset, FS_CardinalityType
<1>6. Quorum \in Int
  BY <1>3 DEF Quorum, F
<1> QED
  BY <1>5, <1>6 DEF Voted

\* Nobody is asked at the start.
LEMMA VotesInit == Init => VotesInv
BY DEF Init, Pbft!OInit, VotesInv, Pbft!Done

\* Every step keeps the votes.
LEMMA VotesStep == Inv /\ Inv' /\ LedgerInv /\ VotesInv /\ [Next]_vars => VotesInv'
<1> SUFFICES ASSUME Inv, Inv', LedgerInv, VotesInv, [Next]_vars PROVE VotesInv'
  OBVIOUS
<1>0. \A n \in Nodes : Pbft!Done(n) \subseteq Issued
  BY DEF LedgerInv, LedgerTyped
<1>00. Issued \subseteq Seqs
  BY RuccoinAssumption DEF Inv, Typed, Issued, Seqs
<1>1. ASSUME UNCHANGED <<asked, approved, executed>>, Issued \subseteq Issued' PROVE VotesInv'
  BY <1>1 DEF VotesInv, Voted, Pbft!Done
<1>2. ASSUME NEW tx \in Txs, AddTransx(tx) PROVE VotesInv'
  BY <1>1, <1>2 DEF AddTransx, Issued
<1>3. CASE Publish
  <2>1. UNCHANGED <<asked, approved, executed>> /\ issued' = Append(issued, PackBlock)
    BY <1>3 DEF Publish, Pbft!Issue, coinvars
  <2>2. Len(issued) \in Nat /\ Len(issued') = Len(issued) + 1
    <3>1. IsSequence(issued)
      BY DEF Inv, Typed, IsSequence
    <3> QED
      BY <2>1, <3>1, AppendAny
  <2>3. Issued \subseteq Issued'
    BY <2>2 DEF Issued
  <2> QED
    BY <1>1, <2>1, <2>3
<1>4. ASSUME NEW n \in Nodes, NEW s \in Seqs, CheckProposal(n, s) PROVE VotesInv'
  <2>1. /\ s < Len(issued) /\ issued' = issued /\ executed' = executed
        /\ asked' = [asked EXCEPT ![s] = @ \cup {n}]
        /\ asked \in [Seqs -> SUBSET Nodes]
    BY <1>4 DEF CheckProposal, LedgerInv, LedgerTyped
  <2>2. s \in Issued /\ Issued' = Issued
    BY <2>1 DEF Inv, Typed, Issued, Seqs
  <2>3. \A r \in Seqs \ Issued' : asked'[r] = {}
    BY <2>1, <2>2 DEF VotesInv
  <2>4. \A m \in Nodes : Pbft!Done(m)' = Pbft!Done(m)
    BY <2>1 DEF Pbft!Done
  <2>5. ASSUME NEW m \in Nodes, NEW r \in Pbft!Done(m)' PROVE Voted(r)'
    <3>1. r \in Pbft!Done(m)
      BY <2>4
    <3>2. r \in Seqs /\ Voted(r)
      BY <1>0, <1>00, <3>1 DEF VotesInv
    <3> QED
      BY <1>4, <3>2, VotesGrow
  <2> QED
    BY <2>3, <2>5 DEF VotesInv
<1>5. ASSUME NEW n \in Nodes, NEW s \in Seqs, CommitProposal(n, s) PROVE VotesInv'
  <2>1. Voted(s) /\ Pbft!Execute(n, s) /\ UNCHANGED <<asked, approved>>
    BY <1>5 DEF CommitProposal
  <2>2. /\ issued' = issued
        /\ Pbft!Done(n)' = Pbft!Done(n) \cup {s}
        /\ \A m \in Nodes \ {n} : executed'[m] = executed[m]
    BY <2>1, ExecuteAt DEF Inv, LedgerInv
  <2>3. \A m \in Nodes \ {n} : Pbft!Done(m)' = Pbft!Done(m)
    BY <2>2 DEF Pbft!Done
  <2>4. \A r : Voted(r)' <=> Voted(r)
    BY <2>1 DEF Voted
  <2>5. ASSUME NEW m \in Nodes, NEW r \in Pbft!Done(m)' PROVE Voted(r)'
    <3>1. r \in Pbft!Done(m) \/ r = s
      BY <2>2, <2>3
    <3> QED
      BY <2>1, <2>4, <3>1 DEF VotesInv
  <2>6. \A r \in Seqs \ Issued' : asked'[r] = {}
    BY <2>1, <2>2 DEF VotesInv, Issued
  <2> QED
    BY <2>5, <2>6 DEF VotesInv
<1>6. ASSUME NEW n \in Nodes, Restart(n) PROVE VotesInv'
  BY <1>1, <1>6 DEF Restart, Issued
<1>7. CASE UNCHANGED vars
  BY <1>1, <1>7 DEF vars, coinvars, Issued
<1> QED
  BY <1>2, <1>3, <1>4, <1>5, <1>6, <1>7 DEF Next

\* A block that too many replicas have refused is executed nowhere, and no other
\* block is proposed.
THEOREM RefusedStaysLast == Spec => []RefusedIsLast
<1>1. Init => VotesInv
  BY VotesInit
<1>2. Inv /\ Inv' /\ LedgerInv /\ VotesInv /\ [Next]_vars => VotesInv'
  BY VotesStep
<1>3. ASSUME Inv, LedgerInv, VotesInv PROVE RefusedIsLast
  <2> SUFFICES ASSUME NEW s \in Seqs,
                      Cardinality(asked[s] \ approved[s]) > Cardinality(Nodes) - Quorum
               PROVE  s = Len(issued) - 1 /\ \A n \in Nodes : s \notin Pbft!Done(n)
    BY DEF RefusedIsLast
  <2> DEFINE R == asked[s] \ approved[s]
             V == approved[s]
  <2>1. R \in SUBSET Nodes /\ V \in SUBSET Nodes /\ R \cap V = {} /\ R \subseteq asked[s]
    BY <1>3 DEF LedgerInv, LedgerTyped
  <2>2. IsFiniteSet(Nodes)
    BY RuccoinAssumption
  <2>3. /\ Quorum \in Int /\ Cardinality(R) > Cardinality(Nodes) - Quorum
        /\ Cardinality(Nodes) \in Nat
    BY <2>2, FS_CardinalityType DEF Quorum, F
  <2> HIDE DEF R
  <2>4. IsFiniteSet(R) /\ IsFiniteSet(V) /\ Cardinality(R) \in Nat /\ Cardinality(V) \in Nat
    BY <2>1, <2>2, FS_Subset, FS_CardinalityType
  <2>5. ~ Voted(s)
    <3>1. Cardinality(R \cup V) = Cardinality(R) + Cardinality(V) - Cardinality(R \cap V)
      BY <2>4, FS_Union
    <3>2. Cardinality(R \cap V) = 0
      BY <2>1, FS_EmptySet
    <3>3. R \cup V \in SUBSET Nodes
      BY <2>1
    <3>4. Cardinality(R \cup V) <= Cardinality(Nodes)
      BY <2>2, <3>3, FS_Subset
    <3>5. Cardinality(V) < Quorum
      BY <2>3, <2>4, <3>1, <3>2, <3>4
    <3> QED
      BY <2>3, <2>4, <3>5 DEF Voted
  <2>6. \A n \in Nodes : s \notin Pbft!Done(n)
    BY <1>3, <2>5 DEF VotesInv
  <2>7. R # {}
    <3>1. Cardinality(Nodes) # 0
      BY <2>2, FS_EmptySet, RuccoinAssumption
    <3>2. \A k \in Nat \ {0} : 2 * ((k - 1) \div 3) + 1 <= k
      OBVIOUS
    <3>3. Quorum <= Cardinality(Nodes)
      BY <2>3, <3>1, <3>2 DEF Quorum, F
    <3>4. Cardinality(R) > 0
      BY <2>3, <2>4, <3>3
    <3>5. Cardinality({}) = 0
      BY FS_EmptySet
    <3> QED
      BY <3>4, <3>5
  <2>8. s \in Issued
    BY <1>3, <2>1, <2>7 DEF VotesInv
  <2>9. Pending(s)
    BY <2>6, <2>8, RuccoinAssumption DEF Pending, Issued
  <2>10. s = Len(issued) - 1
    BY <1>3, <2>9 DEF Inv, OneByOne
  <2> QED
    BY <2>6, <2>10
<1>4. Spec => []VotesInv
  BY AlwaysInv, AlwaysLedgerInv, <1>1, <1>2, PTL DEF Spec
<1> QED
  BY AlwaysLedgerInv, <1>3, <1>4, PTL
=============================================================================
