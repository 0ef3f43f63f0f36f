------------------------------ MODULE LedgerProofs ------------------------------
(***************************************************************************)
(* Facts about the operators of Ledger, for blocks of every length: what a *)
(* block does to the balances, and what CheckBlock has found out about it. *)
(***************************************************************************)
EXTENDS Ledger, FoldProofs

-----------------------------------------------------------------------------
(***************************************************************************)
(* Amounts as they are written.                                            *)
(***************************************************************************)
\* An amount is so many micro-coins and a part of one.
LEMMA Parts ==
  ASSUME NEW x \in Int
  PROVE  /\ x \div Scale \in Int
         /\ x % Scale \in 0 .. Scale - 1
         /\ x = Scale * (x \div Scale) + (x % Scale)
BY ScaleAssumption

\* Something is written, at most half a micro-coin off.
LEMMA WrittenIs ==
  ASSUME NEW x \in Int
  PROVE  /\ Written(x) \in Int
         /\ Halfway(x) \/ /\ - Scale < 2 * (x - Scale * Written(x))
                          /\ 2 * (x - Scale * Written(x)) < Scale
<1> DEFINE d == x \div Scale
           r == x % Scale
<1>1. d \in Int /\ r \in 0 .. Scale - 1 /\ x = Scale * d + r
  BY Parts
<1>2. Written(x) = IF 2 * r < Scale \/ (2 * r = Scale /\ d % 2 = 0) THEN d ELSE d + 1
  BY DEF Written
<1>3. Halfway(x) <=> 2 * r = Scale
  BY DEF Halfway
<1> HIDE DEF d, r
<1>4. Scale * (d + 1) = Scale * d + Scale
  BY <1>1, ScaleAssumption
<1>5. CASE 2 * r < Scale
  <2>1. Written(x) = d
    BY <1>2, <1>5
  <2> QED
    BY <1>1, <1>5, <2>1, ScaleAssumption
<1>6. CASE 2 * r > Scale
  <2>1. Written(x) = d + 1
    BY <1>1, <1>2, <1>6, ScaleAssumption
  <2> QED
    BY <1>1, <1>4, <1>6, <2>1, ScaleAssumption
<1>7. CASE 2 * r = Scale
  BY <1>1, <1>2, <1>3, <1>7
<1> QED
  BY <1>1, <1>5, <1>6, <1>7, ScaleAssumption

\* A multiple of Scale that is less than Scale from 0 is 0.
LEMMA MultipleIsZero ==
  ASSUME NEW k \in Int, - Scale < Scale * k, Scale * k < Scale
  PROVE  k = 0
<1>1. CASE k > 0
  <2>1. Scale * k >= Scale
    BY <1>1, ScaleAssumption
  <2> QED
    BY <2>1, ScaleAssumption
<1>2. CASE k < 0
  <2>1. Scale * k <= - Scale
    BY <1>2, ScaleAssumption
  <2> QED
    BY <2>1, ScaleAssumption
<1> QED
  BY <1>1, <1>2

\* The nearest amount that can be written is the one that is written.
LEMMA Nearest ==
  ASSUME NEW x \in Int, NEW k \in Int,
         - Scale < 2 * (x - Scale * k), 2 * (x - Scale * k) < Scale
  PROVE  Written(x) = k
<1> DEFINE w == Written(x)
<1>1. w \in Int
  BY WrittenIs
<1>2. ~ Halfway(x)
  <2> DEFINE d == x \div Scale
             r == x % Scale
  <2>1. d \in Int /\ r \in 0 .. Scale - 1 /\ x = Scale * d + r
    BY Parts
  <2>2. Halfway(x) <=> 2 * r = Scale
    BY DEF Halfway
  <2> HIDE DEF d, r
  <2> SUFFICES ASSUME 2 * r = Scale PROVE FALSE
    BY <2>2
  <2>3. Scale * (d - k) = Scale * d - Scale * k
    BY <2>1, ScaleAssumption
  <2> DEFINE m == Scale * (d - k)
  <2>4. m \in Int /\ m = Scale * d - Scale * k
    BY <2>1, <2>3, ScaleAssumption
  <2>5. - Scale < m /\ m < Scale
    BY <2>1, <2>4, ScaleAssumption
  <2>6. d - k = 0
    BY <2>1, <2>5, MultipleIsZero
  <2>7. m = 0
    BY <2>6, ScaleAssumption
  <2> HIDE DEF m
  <2> QED
    BY <2>1, <2>4, <2>7, ScaleAssumption
<1>3. - Scale < 2 * (x - Scale * w) /\ 2 * (x - Scale * w) < Scale
  BY <1>2, WrittenIs
<1> HIDE DEF w
<1>4. Scale * (w - k) = Scale * w - Scale * k
  BY <1>1, ScaleAssumption
<1> DEFINE m == Scale * (w - k)
           p == Scale * w
           q == Scale * k
<1>5. /\ p \in Int /\ q \in Int /\ m = p - q
      /\ - Scale < 2 * (x - p) /\ 2 * (x - p) < Scale
      /\ - Scale < 2 * (x - q) /\ 2 * (x - q) < Scale
  BY <1>1, <1>3, <1>4, ScaleAssumption
<1>6. - Scale < m /\ m < Scale
  <2> HIDE DEF m, p, q
  <2> QED
    BY <1>5, ScaleAssumption
<1>7. w - k = 0
  BY <1>1, <1>6, MultipleIsZero
<1> QED
  BY <1>1, <1>7 DEF w

\* A value that is not half-way changes every balance by the same amount.
LEMMA WrittenAdds ==
  ASSUME NEW b \in Int, NEW v \in Int, ~ Halfway(v)
  PROVE  /\ Written(v) \in Int
         /\ Written(Scale * b + v) = b + Written(v)
         /\ Written(Scale * b - v) = b - Written(v)
<1> DEFINE w == Written(v)
<1>1. w \in Int /\ - Scale < 2 * (v - Scale * w) /\ 2 * (v - Scale * w) < Scale
  BY WrittenIs
<1> HIDE DEF w
<1>2. /\ Scale * (b + w) = Scale * b + Scale * w
      /\ Scale * (b - w) = Scale * b - Scale * w
      /\ Scale * b \in Int /\ Scale * w \in Int
  BY <1>1, ScaleAssumption
<1>3. /\ Scale * b + v \in Int /\ Scale * b - v \in Int
      /\ (Scale * b + v) - Scale * (b + w) = v - Scale * w
      /\ (Scale * b - v) - Scale * (b - w) = - (v - Scale * w)
  BY <1>1, <1>2
<1>4. Written(Scale * b + v) = b + w
  BY <1>1, <1>3, Nearest
<1>5. Written(Scale * b - v) = b - w
  BY <1>1, <1>2, <1>3, ScaleAssumption, Nearest
<1> QED
  BY <1>1, <1>4, <1>5 DEF w

\* What CheckBlock compares is not less than what is taken from the balance.
LEMMA WrittenDown ==
  ASSUME NEW v \in Int, v >= 0, 2 * (v % Scale) < Scale
  PROVE  /\ ~ Halfway(v)
         /\ Written(v) \in Int
         /\ Written(v) >= 0
         /\ Scale * Written(v) <= v
<1> DEFINE d == v \div Scale
           r == v % Scale
<1>1. d \in Int /\ r \in 0 .. Scale - 1 /\ v = Scale * d + r
  BY Parts
<1>2. Written(v) = d /\ ~ Halfway(v)
  BY <1>1, ScaleAssumption DEF Written, Halfway
<1> HIDE DEF d, r
<1>3. d >= 0
  <2> SUFFICES ASSUME d <= - 1 PROVE FALSE
    BY <1>1
  <2>1. Scale * d <= - Scale
    BY <1>1, ScaleAssumption
  <2> QED
    BY <1>1, <2>1, ScaleAssumption
<1> QED
  BY <1>1, <1>2, <1>3, ScaleAssumption

-----------------------------------------------------------------------------
(***************************************************************************)
(* UpdateBlance.  Transactions are from a set T; their value may be any    *)
(* number of parts of a micro-coin, but where what is executed first       *)
(* should make no difference, none is half-way between two micro-coins.    *)
(***************************************************************************)
Balances == [Accounts -> Int]

\* The balances a transfer writes.
LEMMA TransferWrites ==
  ASSUME NEW x \in Balances, NEW tx, Executable(tx), tx.value \in Int
  PROVE  /\ tx.from \in Accounts /\ tx.to \in Accounts
         /\ Transfer(x, tx) \in Balances
         /\ \A a \in Accounts :
               Transfer(x, tx)[a] =
                  IF a = tx.to THEN Written(Scale * x[tx.to] + tx.value)
                  ELSE IF a = tx.from THEN Written(Scale * x[tx.from] - tx.value) ELSE x[a]
<1> DEFINE debit == Written(Scale * x[tx.from] - tx.value)
           credit == Written(Scale * x[tx.to] + tx.value)
           y == [x EXCEPT ![tx.from] = debit]
           z == [y EXCEPT ![tx.to] = credit]
<1>1. /\ tx.from \in Accounts /\ tx.to \in Accounts
      /\ x = [a \in Accounts |-> x[a]]
      /\ \A a \in Accounts : x[a] \in Int
  BY DEF Executable, Balances
<1>2. debit \in Int /\ credit \in Int
  <2>1. Scale * x[tx.from] - tx.value \in Int /\ Scale * x[tx.to] + tx.value \in Int
    BY <1>1, ScaleAssumption
  <2> QED
    BY <2>1, WrittenIs
<1>3. Transfer(x, tx) = z
  BY DEF Transfer
<1> HIDE DEF debit, credit
<1>4. y = [a \in Accounts |-> IF a = tx.from THEN debit ELSE x[a]]
  BY <1>1
<1>5. z = [a \in Accounts |-> IF a = tx.to THEN credit
                              ELSE IF a = tx.from THEN debit ELSE x[a]]
  BY <1>1, <1>4
<1> HIDE DEF y, z
<1>6. z \in Balances
  BY <1>1, <1>2, <1>5 DEF Balances
<1> QED
  BY <1>1, <1>3, <1>5, <1>6 DEF debit, credit

\* What a transaction adds to an account.
Gain(tx, a) ==
    IF tx.to = a THEN Written(tx.value) ELSE IF tx.from = a THEN - Written(tx.value) ELSE 0

\* A transfer to the sender itself only adds.
LEMMA TransferIs ==
  ASSUME NEW x \in Balances, NEW tx, Executable(tx), tx.value \in Int, ~ Halfway(tx.value)
  PROVE  /\ Transfer(x, tx) \in Balances
         /\ \A a \in Accounts :
               /\ Gain(tx, a) \in Int
               /\ x[a] \in Int
               /\ Transfer(x, tx)[a] = x[a] + Gain(tx, a)
<1>1. \A a \in Accounts : x[a] \in Int
  BY DEF Balances
<1>2. /\ tx.from \in Accounts /\ tx.to \in Accounts
      /\ Transfer(x, tx) \in Balances
      /\ \A a \in Accounts :
            Transfer(x, tx)[a] =
               IF a = tx.to THEN Written(Scale * x[tx.to] + tx.value)
               ELSE IF a = tx.from THEN Written(Scale * x[tx.from] - tx.value) ELSE x[a]
  BY TransferWrites
<1> DEFINE w == Written(tx.value)
<1>3. /\ w \in Int
      /\ Written(Scale * x[tx.to] + tx.value) = x[tx.to] + w
      /\ Written(Scale * x[tx.from] - tx.value) = x[tx.from] - w
  BY <1>1, <1>2, WrittenAdds
<1> SUFFICES ASSUME NEW a \in Accounts
             PROVE  Gain(tx, a) \in Int /\ Transfer(x, tx)[a] = x[a] + Gain(tx, a)
  BY <1>1, <1>2
<1>4. Gain(tx, a) = IF tx.to = a THEN w ELSE IF tx.from = a THEN - w ELSE 0
  BY DEF Gain
<1> DEFINE t == Transfer(x, tx)
<1>5. t[a] = IF a = tx.to THEN x[tx.to] + w ELSE IF a = tx.from THEN x[tx.from] - w ELSE x[a]
  BY <1>2, <1>3
<1> HIDE DEF w, t
<1>6. Gain(tx, a) \in Int /\ t[a] = x[a] + Gain(tx, a)
  BY <1>1, <1>2, <1>3, <1>4, <1>5
<1> QED
  BY <1>6 DEF t

\* The balances on the way when UpdateBlance executes the transactions q.
IsExecution(h, b, q) ==
    /\ h \in [0 .. Len(q) -> Balances]
    /\ h[0] = b
    /\ h[Len(q)] = FoldLeft(Transfer, b, q)
    /\ \A k \in 1 .. Len(q) : h[k] = Transfer(h[k - 1], q[k])

\* UpdateBlance goes through the transactions one by one.
LEMMA TransferFold ==
  ASSUME NEW T, \A tx \in T : Executable(tx) /\ tx.value \in Int,
         NEW q \in Seq(T), NEW b \in Balances
  PROVE  \E h : IsExecution(h, b, q)
<1> DEFINE n == Len(q)
           step == [k \in 1 .. n |-> [x \in Balances |-> Transfer(x, q[k])]]
           Fold(h) == h = [s \in SUBSET DOMAIN q |->
                             IF s = {} THEN b ELSE Transfer(h[s \ {Max(s)}], q[Max(s)])]
<1>1. n \in Nat /\ DOMAIN q = 1 .. n /\ \A k \in 1 .. n : q[k] \in T
  OBVIOUS
<1>2. ASSUME NEW x \in Balances, NEW tx \in T PROVE Transfer(x, tx) \in Balances
  BY TransferWrites
<1>3. step \in [1 .. n -> [Balances -> Balances]]
  BY <1>1, <1>2
<1>4. \A k \in 1 .. n, x \in Balances : step[k][x] = Transfer(x, q[k])
  OBVIOUS
<1> HIDE DEF step
<1>5. \A g \in [SUBSET (1 .. n) -> Balances] : \A s \in SUBSET (1 .. n) :
         s # {} => step[Max(s)][g[s \ {Max(s)}]] = Transfer(g[s \ {Max(s)}], q[Max(s)])
  <2> SUFFICES ASSUME NEW g \in [SUBSET (1 .. n) -> Balances],
                      NEW s \in SUBSET (1 .. n), s # {}
               PROVE  step[Max(s)][g[s \ {Max(s)}]] = Transfer(g[s \ {Max(s)}], q[Max(s)])
    OBVIOUS
  <2>1. Max(s) \in 1 .. n
    BY <1>1, MaxIs
  <2>2. g[s \ {Max(s)}] \in Balances
    OBVIOUS
  <2> QED
    BY <1>4, <2>1, <2>2
<1>6. PICK g : IsIteration(g, Balances, b, n, step)
  BY <1>1, <1>3, Iteration
<1>7. \E h : Fold(h)
  <2>1. /\ g \in [SUBSET (1 .. n) -> Balances]
        /\ \A s \in SUBSET (1 .. n) : g[s] = IF s = {} THEN b ELSE step[Max(s)][g[s \ {Max(s)}]]
    BY <1>6 DEF IsIteration
  <2>2. \A s \in SUBSET DOMAIN q : g[s] = IF s = {} THEN b ELSE Transfer(g[s \ {Max(s)}], q[Max(s)])
    BY <1>1, <1>5, <2>1
  <2>3. Fold(g)
    BY <1>1, <2>1, <2>2
  <2> QED
    BY <2>3
<1> DEFINE c == CHOOSE h : Fold(h)
<1>8. FoldLeft(Transfer, b, q) = c[1 .. n]
  BY <1>1, Zenon DEF FoldLeft, MapThenFoldSet
<1>9. Fold(c)
  BY <1>7, Zenon
<1> HIDE DEF c
<1>10. /\ c[{}] = b
       /\ \A s \in SUBSET (1 .. n) : s # {} => c[s] = Transfer(c[s \ {Max(s)}], q[Max(s)])
  BY <1>1, <1>9
<1>11. FollowsSteps(c, Balances, b, n, step)
  <2>1. \A s \in SUBSET (1 .. n) : s # {} => Max(s) \in 1 .. n
    BY <1>1, MaxIs
  <2> QED
    BY <1>4, <1>10, <2>1 DEF FollowsSteps
<1>12. PICK h : IsTrace(h, Balances, b, n, step) /\ h[n] = c[1 .. n]
  <2>1. n \in Nat /\ b \in Balances
    BY <1>1
  <2> HIDE DEF n, Fold
  <2>2. ComesTo(Balances, b, n, step, c[1 .. n])
    BY <1>3, <1>11, <2>1, Unrolled
  <2> QED
    BY <2>2 DEF ComesTo
<1>13. /\ h \in [0 .. n -> Balances]
       /\ h[0] = b
       /\ \A k \in 1 .. n : h[k] = step[k][h[k - 1]]
  BY <1>12 DEF IsTrace
<1>14. \A k \in 1 .. n : h[k] = Transfer(h[k - 1], q[k])
  <2>1. \A k \in 1 .. n : h[k - 1] \in Balances
    BY <1>1, <1>13
  <2> QED
    BY <1>4, <1>13, <2>1
<1> QED
  BY <1>8, <1>12, <1>13, <1>14 DEF IsExecution

\* The transactions executed before an assertion stops the process.
LEMMA ExecutablePrefixIs ==
  ASSUME NEW T, NEW txs \in Seq(T)
  PROVE  \E m \in 0 .. Len(txs) :
            /\ ExecutablePrefix(txs) = SubSeq(txs, 1, m)
            /\ \A i \in 1 .. m : Executable(txs[i])
            /\ (\A i \in 1 .. Len(txs) : Executable(txs[i])) => m = Len(txs)
<1> DEFINE Bad(i) == i \in 1 .. Len(txs) /\ ~ Executable(txs[i])
           First(i) == Bad(i) /\ \A j \in 1 .. i - 1 : Executable(txs[j])
<1>1. Len(txs) \in Nat
  OBVIOUS
<1>2. CASE \A i \in 1 .. Len(txs) : Executable(txs[i])
  <2>1. ExecutablePrefix(txs) = txs
    BY <1>2 DEF ExecutablePrefix
  <2>2. SubSeq(txs, 1, Len(txs)) = txs
    OBVIOUS
  <2>3. Len(txs) \in 0 .. Len(txs) /\ ExecutablePrefix(txs) = SubSeq(txs, 1, Len(txs))
    BY <1>1, <2>1, <2>2
  <2> QED
    BY <1>2, <2>3
<1>3. CASE \E i : Bad(i)
  <2> DEFINE B == {i \in Nat : Bad(i)}
  <2>1. B \subseteq Nat /\ B # {}
    BY <1>1, <1>3
  <2>2. PICK k \in B : \A j \in B : ~ (<<j, k>> \in OpToRel(<, Nat))
    <3> HIDE DEF B
    <3> QED
      BY <2>1, WFMin, NatLessThanWellFounded
  <2>3. k \in 1 .. Len(txs) /\ ~ Executable(txs[k])
    OBVIOUS
  <2>4. ASSUME NEW j \in 1 .. k - 1, ~ Executable(txs[j]) PROVE FALSE
    <3>1. j \in Nat /\ k \in Nat /\ j < k /\ j \in 1 .. Len(txs)
      BY <1>1, <2>3
    <3>2. j \in B
      BY <2>4, <3>1
    <3>3. <<j, k>> \in OpToRel(<, Nat)
      BY <3>1 DEF OpToRel
    <3> QED
      BY <2>2, <3>2, <3>3
  <2>5. First(k)
    BY <2>3, <2>4
  <2> DEFINE c == CHOOSE i \in 1 .. Len(txs) :
                     ~ Executable(txs[i]) /\ \A j \in 1 .. i - 1 : Executable(txs[j])
  <2>6. c \in 1 .. Len(txs) /\ \A j \in 1 .. c - 1 : Executable(txs[j])
    BY <2>5
  <2>7. ExecutablePrefix(txs) = SubSeq(txs, 1, c - 1)
    BY <1>3 DEF ExecutablePrefix
  <2>8. ~ \A i \in 1 .. Len(txs) : Executable(txs[i])
    BY <1>3
  <2> HIDE DEF c
  <2>9. c - 1 \in 0 .. Len(txs)
    BY <1>1, <2>6
  <2> QED
    BY <2>6, <2>7, <2>8, <2>9
<1> QED
  BY <1>2, <1>3

\* Transactions of T whose addresses all have a balance.
Payments(T) == {tx \in T : Executable(tx)}

\* The first transactions of a block.
LEMMA PrefixOf ==
  ASSUME NEW T, NEW txs \in Seq(T), NEW m \in 0 .. Len(txs)
  PROVE  /\ SubSeq(txs, 1, m) \in Seq(T)
         /\ Len(SubSeq(txs, 1, m)) = m
         /\ \A i \in 1 .. m : SubSeq(txs, 1, m)[i] = txs[i]
BY SubSeqProperties

\* What UpdateBlance executes.
LEMMA ExecutedPart ==
  ASSUME NEW T, NEW txs \in Seq(T)
  PROVE  \E m \in 0 .. Len(txs) :
            /\ ExecutablePrefix(txs) \in Seq(Payments(T))
            /\ Len(ExecutablePrefix(txs)) = m
            /\ \A i \in 1 .. m : ExecutablePrefix(txs)[i] = txs[i]
            /\ (\A i \in 1 .. Len(txs) : Executable(txs[i])) => m = Len(txs)
<1>1. PICK m \in 0 .. Len(txs) :
         /\ ExecutablePrefix(txs) = SubSeq(txs, 1, m)
         /\ \A i \in 1 .. m : Executable(txs[i])
         /\ (\A i \in 1 .. Len(txs) : Executable(txs[i])) => m = Len(txs)
  BY ExecutablePrefixIs
<1> DEFINE q == ExecutablePrefix(txs)
<1>2. q \in Seq(T) /\ Len(q) = m /\ \A i \in 1 .. m : q[i] = txs[i]
  BY <1>1, PrefixOf
<1> HIDE DEF q
<1>3. \A i \in 1 .. Len(q) : q[i] \in Payments(T)
  BY <1>1, <1>2 DEF Payments
<1>4. q \in Seq(Payments(T))
  <2>1. q = [i \in 1 .. Len(q) |-> q[i]] /\ Len(q) \in Nat
    BY <1>2
  <2>2. q \in [1 .. Len(q) -> Payments(T)]
    BY <1>3, <2>1
  <2> QED
    BY <2>1, <2>2, SeqDef
<1> QED
  BY <1>1, <1>2, <1>4 DEF q

\* UpdateBlance leaves balances.
LEMMA UpdateBlanceTyped ==
  ASSUME NEW T, \A tx \in T : tx.value \in Int, NEW txs \in Seq(T), NEW b \in Balances
  PROVE  UpdateBlance(b, txs) \in Balances
<1> DEFINE q == ExecutablePrefix(txs)
           P == Payments(T)
<1>1. PICK m \in 0 .. Len(txs) : q \in Seq(P) /\ Len(q) = m
  BY ExecutedPart
<1>2. \A tx \in P : Executable(tx) /\ tx.value \in Int
  BY DEF Payments
<1>3. UpdateBlance(b, txs) = FoldLeft(Transfer, b, q)
  BY DEF UpdateBlance
<1> HIDE DEF q, P
<1>4. PICK h : IsExecution(h, b, q)
  BY <1>1, <1>2, TransferFold
<1>5. Len(q) \in 0 .. Len(q)
  BY <1>1
<1> QED
  BY <1>3, <1>4, <1>5 DEF IsExecution

\* What a block adds to the balances is the same whatever they are.
HasEffect(txs, d) ==
    /\ d \in Balances
    /\ \A b \in Balances : UpdateBlance(b, txs) = [a \in Accounts |-> b[a] + d[a]]

\* UpdateBlance adds to the balances.
LEMMA UpdateBlanceAdds ==
  ASSUME NEW T, \A tx \in T : tx.value \in Int /\ ~ Halfway(tx.value), NEW txs \in Seq(T)
  PROVE  \E d : HasEffect(txs, d)
<1> DEFINE q == ExecutablePrefix(txs)
           P == Payments(T)
<1>1. PICK m \in 0 .. Len(txs) : q \in Seq(P) /\ Len(q) = m
  BY ExecutedPart
<1>2. \A tx \in P : Executable(tx) /\ tx.value \in Int /\ ~ Halfway(tx.value)
  BY DEF Payments
<1> HIDE DEF q, P
<1> DEFINE zero == [a \in Accounts |-> 0]
<1>3. zero \in Balances
  BY DEF Balances
<1>4. m \in Nat /\ Len(q) = m
  BY <1>1
<1>5. PICK z : IsExecution(z, zero, q)
  <2> HIDE DEF zero
  <2> QED
    BY <1>1, <1>2, <1>3, TransferFold
<1>6. /\ z \in [0 .. m -> Balances]
      /\ z[0] = zero
      /\ \A k \in 1 .. m : z[k] = Transfer(z[k - 1], q[k])
  BY <1>4, <1>5 DEF IsExecution
<1> DEFINE d == z[m]
<1>7. d \in Balances
  BY <1>4, <1>6
<1>8. ASSUME NEW b \in Balances PROVE UpdateBlance(b, txs) = [a \in Accounts |-> b[a] + d[a]]
  <2>0. PICK h : IsExecution(h, b, q)
    BY <1>1, <1>2, TransferFold
  <2>1. /\ h \in [0 .. m -> Balances]
        /\ h[0] = b
        /\ h[m] = FoldLeft(Transfer, b, q)
        /\ \A k \in 1 .. m : h[k] = Transfer(h[k - 1], q[k])
    BY <1>4, <2>0 DEF IsExecution
  <2> DEFINE N == {k \in 0 .. m : \A a \in Accounts : h[k][a] = b[a] + z[k][a]}
             id == [k \in 0 .. m |-> k]
  <2>2. 0 \in N
    <3>1. \A a \in Accounts : b[a] \in Int
      BY DEF Balances
    <3> QED
      BY <1>4, <1>6, <2>1, <3>1
  <2>3. ASSUME NEW k \in 1 .. m, k - 1 \in N PROVE k \in N
    <3>1. h[k] = Transfer(h[k - 1], q[k]) /\ z[k] = Transfer(z[k - 1], q[k])
      BY <1>6, <2>1
    <3>2. k - 1 \in 0 .. m /\ h[k - 1] \in Balances /\ z[k - 1] \in Balances
      BY <1>4, <1>6, <2>1
    <3>3. q[k] \in P /\ Executable(q[k]) /\ q[k].value \in Int /\ ~ Halfway(q[k].value)
      BY <1>1, <1>2, <1>4
    <3>4. ASSUME NEW a \in Accounts PROVE h[k][a] = b[a] + z[k][a]
      <4>1. \A x \in Balances : x[a] \in Int /\ Transfer(x, q[k])[a] = x[a] + Gain(q[k], a)
        BY <3>3, TransferIs
      <4>2. h[k - 1][a] = b[a] + z[k - 1][a]
        BY <2>3
      <4>3. h[k - 1][a] \in Int /\ z[k - 1][a] \in Int /\ b[a] \in Int /\ Gain(q[k], a) \in Int
        BY <3>2, <3>3, TransferIs DEF Balances
      <4>4. h[k][a] = h[k - 1][a] + Gain(q[k], a) /\ z[k][a] = z[k - 1][a] + Gain(q[k], a)
        BY <3>1, <3>2, <4>1
      <4> QED
        BY <4>2, <4>3, <4>4
    <3> QED
      BY <3>4
  <2>4. \A k \in 0 .. m : id[k] \in N
    <3> HIDE DEF N
    <3>1. \A k \in 1 .. m : k - 1 \in 0 .. m
      BY <1>4
    <3>2. id[0] \in N /\ \A k \in 1 .. m : id[k - 1] \in N => id[k] \in N
      BY <1>4, <2>2, <2>3, <3>1
    <3> HIDE DEF id
    <3> QED
      BY <1>4, <3>2, Along
  <2>5. m \in N
    BY <1>4, <2>4
  <2>6. h[m] \in Balances
    BY <1>4, <2>1
  <2>7. h[m] = [a \in Accounts |-> b[a] + d[a]]
    BY <2>5, <2>6 DEF Balances
  <2> QED
    BY <2>1, <2>7 DEF UpdateBlance, q
<1> QED
  BY <1>7, <1>8 DEF HasEffect

\* UpdateBlance leaves balances, and it does not matter which of two blocks is
\* executed first.
LEMMA UpdateBlancesCommute ==
  ASSUME NEW T, \A tx \in T : tx.value \in Int /\ ~ Halfway(tx.value),
         NEW t1 \in Seq(T), NEW t2 \in Seq(T), NEW b \in Balances
  PROVE  /\ UpdateBlance(b, t1) \in Balances
         /\ UpdateBlance(UpdateBlance(b, t1), t2) = UpdateBlance(UpdateBlance(b, t2), t1)
<1>1. PICK d1 : HasEffect(t1, d1)
  BY UpdateBlanceAdds
<1>2. PICK d2 : HasEffect(t2, d2)
  BY UpdateBlanceAdds
<1>3. d1 \in Balances /\ d2 \in Balances
  BY <1>1, <1>2 DEF HasEffect
<1>4. ASSUME NEW d \in Balances, NEW x \in Balances
      PROVE  [a \in Accounts |-> x[a] + d[a]] \in Balances
  BY DEF Balances
<1>5. \A x \in Balances : /\ UpdateBlance(x, t1) = [a \in Accounts |-> x[a] + d1[a]]
                          /\ UpdateBlance(x, t2) = [a \in Accounts |-> x[a] + d2[a]]
  BY <1>1, <1>2 DEF HasEffect
<1>6. UpdateBlance(b, t1) \in Balances /\ UpdateBlance(b, t2) \in Balances
  BY <1>3, <1>4, <1>5
<1>7. UpdateBlance(UpdateBlance(b, t1), t2) = [a \in Accounts |-> UpdateBlance(b, t1)[a] + d2[a]]
  BY <1>5, <1>6
<1>8. UpdateBlance(UpdateBlance(b, t2), t1) = [a \in Accounts |-> UpdateBlance(b, t2)[a] + d1[a]]
  BY <1>5, <1>6
<1>9. ASSUME NEW a \in Accounts
      PROVE  UpdateBlance(b, t1)[a] + d2[a] = UpdateBlance(b, t2)[a] + d1[a]
  <2>1. UpdateBlance(b, t1)[a] = b[a] + d1[a] /\ UpdateBlance(b, t2)[a] = b[a] + d2[a]
    BY <1>5
  <2>2. b[a] \in Int /\ d1[a] \in Int /\ d2[a] \in Int
    BY <1>3 DEF Balances
  <2> QED
    BY <2>1, <2>2
<1> QED
  BY <1>6, <1>7, <1>8, <1>9

\* UpdateBlance is a Transfer for every transaction, one after the other.
LEMMA UpdateBlanceByOne ==
  ASSUME NEW T, \A tx \in T : Executable(tx) /\ tx.value \in Int,
         NEW txs \in Seq(T), NEW b \in Balances
  PROVE  /\ UpdateBlance(b, SubSeq(txs, 1, 0)) = b
         /\ UpdateBlance(b, SubSeq(txs, 1, Len(txs))) = UpdateBlance(b, txs)
         /\ \A k \in 0 .. Len(txs) : UpdateBlance(b, SubSeq(txs, 1, k)) \in Balances
         /\ \A k \in 1 .. Len(txs) :
               UpdateBlance(b, SubSeq(txs, 1, k))
                 = Transfer(UpdateBlance(b, SubSeq(txs, 1, k - 1)), txs[k])
<1>1. ASSUME NEW q \in Seq(T) PROVE UpdateBlance(b, q) = FoldLeft(Transfer, b, q)
  <2>1. \A i \in 1 .. Len(q) : Executable(q[i])
    OBVIOUS
  <2>2. ExecutablePrefix(q) = q
    BY <2>1 DEF ExecutablePrefix
  <2> QED
    BY <2>2 DEF UpdateBlance
<1> DEFINE q(k) == SubSeq(txs, 1, k)
<1>2. Len(txs) \in Nat
  OBVIOUS
<1>3. ASSUME NEW k \in 0 .. Len(txs)
      PROVE  q(k) \in Seq(T) /\ Len(q(k)) = k /\ \A i \in 1 .. k : q(k)[i] = txs[i]
  BY PrefixOf
<1> HIDE DEF q
<1>4. ASSUME NEW k \in 0 .. Len(txs)
      PROVE  \E h : /\ h \in [0 .. k -> Balances]
                    /\ h[0] = b
                    /\ h[k] = UpdateBlance(b, q(k))
                    /\ \A i \in 1 .. k : h[i] = Transfer(h[i - 1], txs[i])
  <2>1. PICK h : IsExecution(h, b, q(k))
    BY <1>3, TransferFold
  <2>2. q(k) \in Seq(T) /\ Len(q(k)) = k /\ \A i \in 1 .. k : q(k)[i] = txs[i]
    BY <1>3
  <2>3. UpdateBlance(b, q(k)) = FoldLeft(Transfer, b, q(k))
    BY <1>1, <2>2
  <2>4. h \in [0 .. k -> Balances] /\ h[0] = b /\ h[k] = UpdateBlance(b, q(k))
    BY <2>1, <2>2, <2>3 DEF IsExecution
  <2>5. \A i \in 1 .. k : h[i] = Transfer(h[i - 1], txs[i])
    BY <2>1, <2>2 DEF IsExecution
  <2> QED
    BY <2>4, <2>5
<1>5. UpdateBlance(b, q(0)) = b
  <2>1. 0 \in 0 .. Len(txs)
    BY <1>2
  <2> QED
    BY <1>4, <2>1
<1>6. ASSUME NEW k \in 0 .. Len(txs) PROVE UpdateBlance(b, q(k)) \in Balances
  BY <1>4
<1>7. ASSUME NEW k \in 1 .. Len(txs)
      PROVE  UpdateBlance(b, q(k)) = Transfer(UpdateBlance(b, q(k - 1)), txs[k])
  <2>1. k \in 0 .. Len(txs) /\ k - 1 \in 0 .. Len(txs) /\ k - 1 \in Nat /\ k \in 1 .. k
    OBVIOUS
  <2>2. PICK h : /\ h \in [0 .. k -> Balances]
                 /\ h[0] = b
                 /\ h[k] = UpdateBlance(b, q(k))
                 /\ \A i \in 1 .. k : h[i] = Transfer(h[i - 1], txs[i])
    BY <1>4, <2>1
  <2>3. PICK g : /\ g \in [0 .. k - 1 -> Balances]
                 /\ g[0] = b
                 /\ g[k - 1] = UpdateBlance(b, q(k - 1))
                 /\ \A i \in 1 .. k - 1 : g[i] = Transfer(g[i - 1], txs[i])
    BY <1>4, <2>1
  <2> DEFINE E == {i \in 0 .. k - 1 : g[i] = h[i]}
             id == [i \in 0 .. k - 1 |-> i]
  <2>4. id[0] \in E /\ \A i \in 1 .. k - 1 : id[i - 1] \in E => id[i] \in E
    <3>1. \A i \in 1 .. k - 1 : i - 1 \in 0 .. k - 1 /\ i \in 0 .. k - 1 /\ i \in 1 .. k
      BY <2>1
    <3> QED
      BY <2>1, <2>2, <2>3, <3>1
  <2>5. \A i \in 0 .. k - 1 : id[i] \in E
    <3> HIDE DEF E, id
    <3> QED
      BY <2>1, <2>4, Along
  <2>6. g[k - 1] = h[k - 1]
    BY <2>1, <2>5
  <2> QED
    BY <2>1, <2>2, <2>3, <2>6
<1>8. q(Len(txs)) = txs
  BY DEF q
<1> QED
  BY <1>5, <1>6, <1>7, <1>8 DEF q

(***************************************************************************)
(* What a set of the first N blocks makes of the balances, in whatever     *)
(* order they are executed; block s is blocks[s + 1].                      *)
(***************************************************************************)
AreSums(sums, N, base, blocks) ==
    /\ sums \in [SUBSET (0 .. N - 1) -> Balances]
    /\ sums[{}] = base
    /\ \A D \in SUBSET (0 .. N - 1) : \A s \in (0 .. N - 1) \ D :
          sums[D \cup {s}] = UpdateBlance(sums[D], blocks[s + 1].txs)

\* Sums for one block more.
Extend(more, sums, N, base, blocks) ==
    /\ AreSums(more, N + 1, base, blocks)
    /\ \A D \in SUBSET (0 .. N - 1) : more[D] = sums[D]

\* There are some, because the block may as well be executed before the others.
LEMMA SumsGrow ==
  ASSUME NEW T, \A tx \in T : tx.value \in Int /\ ~ Halfway(tx.value),
         NEW N \in Nat, NEW blocks, \A s \in 0 .. N : blocks[s + 1].txs \in Seq(T),
         NEW base, NEW sums, AreSums(sums, N, base, blocks)
  PROVE  \E more : Extend(more, sums, N, base, blocks)
<1> DEFINE Old == 0 .. N - 1
           All == 0 .. N
           txs == blocks[N + 1].txs
           old(D) == D \ {N}
           more == [D \in SUBSET All |->
                       IF N \in D THEN UpdateBlance(sums[old(D)], txs) ELSE sums[D]]
<1>1. (N + 1) - 1 = N
  OBVIOUS
<1>2. /\ sums \in [SUBSET Old -> Balances]
      /\ sums[{}] = base
      /\ \A D \in SUBSET Old : \A s \in Old \ D :
            sums[D \cup {s}] = UpdateBlance(sums[D], blocks[s + 1].txs)
  BY DEF AreSums
<1>3. /\ N \notin Old /\ N \in All /\ txs \in Seq(T)
      /\ \A s \in All : s \in Old \/ s = N
      /\ \A s \in Old : s \in All /\ s # N
  OBVIOUS
<1> HIDE DEF Old, All, txs
<1>4. \A D \in SUBSET All : old(D) \in SUBSET Old /\ (N \notin D => D = old(D))
  BY <1>3
<1> HIDE DEF old
<1>5. /\ more = [D \in SUBSET All |-> more[D]]
      /\ \A D \in SUBSET All :
            /\ N \in D => more[D] = UpdateBlance(sums[old(D)], txs)
            /\ N \notin D => more[D] = sums[D]
  OBVIOUS
<1> HIDE DEF more
<1>6. \A D \in SUBSET All : more[D] \in Balances
  <2> TAKE D \in SUBSET All
  <2>1. sums[old(D)] \in Balances
    BY <1>2, <1>4
  <2>2. UpdateBlance(sums[old(D)], txs) \in Balances
    BY <1>3, <2>1, UpdateBlancesCommute
  <2> QED
    BY <1>4, <1>5, <2>1, <2>2
<1>7. more \in [SUBSET All -> Balances]
  BY <1>5, <1>6
<1>8. \A D \in SUBSET Old : D \in SUBSET All /\ N \notin D /\ more[D] = sums[D]
  BY <1>3, <1>5
<1>9. ASSUME NEW D \in SUBSET All, NEW s \in All \ D
      PROVE  more[D \cup {s}] = UpdateBlance(more[D], blocks[s + 1].txs)
  <2>1. D \cup {s} \in SUBSET All
    OBVIOUS
  <2>2. CASE s = N
    <3>1. old(D \cup {s}) = D /\ N \in D \cup {s} /\ N \notin D
      BY <2>2 DEF old
    <3> QED
      BY <1>5, <2>1, <2>2, <3>1 DEF txs
  <2>3. CASE s # N
    <3>1. s \in Old /\ blocks[s + 1].txs \in Seq(T)
      BY <1>3, <2>3 DEF All
    <3>2. old(D \cup {s}) = old(D) \cup {s} /\ s \notin old(D) /\ old(D) \in SUBSET Old
      BY <1>4, <2>3 DEF old
    <3>3. sums[old(D) \cup {s}] = UpdateBlance(sums[old(D)], blocks[s + 1].txs)
      BY <1>2, <3>1, <3>2
    <3>4. CASE N \in D
      <4>1. more[D] = UpdateBlance(sums[old(D)], txs)
        BY <1>5, <3>4
      <4>2. more[D \cup {s}] = UpdateBlance(sums[old(D) \cup {s}], txs)
        BY <1>5, <2>1, <3>2, <3>4
      <4>3. sums[old(D)] \in Balances
        BY <1>2, <3>2
      <4>4. UpdateBlance(UpdateBlance(sums[old(D)], blocks[s + 1].txs), txs)
              = UpdateBlance(UpdateBlance(sums[old(D)], txs), blocks[s + 1].txs)
        BY <1>3, <3>1, <4>3, UpdateBlancesCommute
      <4> QED
        BY <3>3, <4>1, <4>2, <4>4
    <3>5. CASE N \notin D
      <4>1. old(D) = D /\ N \notin D \cup {s}
        BY <1>4, <2>3, <3>5
      <4>2. more[D] = sums[D] /\ more[D \cup {s}] = sums[D \cup {s}]
        BY <1>5, <2>1, <3>5, <4>1
      <4> QED
        BY <3>3, <4>1, <4>2
    <3> QED
      BY <3>4, <3>5
  <2> QED
    BY <2>2, <2>3
<1>10. more[{}] = base
  BY <1>2, <1>8
<1>11. AreSums(more, N + 1, base, blocks)
  BY <1>1, <1>7, <1>9, <1>10 DEF AreSums, All
<1> QED
  BY <1>8, <1>11 DEF Old, Extend

-----------------------------------------------------------------------------
(***************************************************************************)
(* The pool, and what PackBlock takes from it.                             *)
(***************************************************************************)
\* Transactions with a time stamp and a sender that can be compared.
Stamped(T) == \A tx \in T : tx.stamp \in Nat /\ tx.from \in Nat

\* Of two transactions with different keys, one is before the other.
LEMMA BeforeIsTotal ==
  ASSUME NEW T, Stamped(T)
  PROVE  /\ \A t1, t2 \in T : SameKey(t1, t2) \/ Before(t1, t2) \/ Before(t2, t1)
         /\ \A t1, t2, t3 \in T : Before(t1, t2) /\ Before(t2, t3) => Before(t1, t3)
         /\ \A t \in T : SameKey(t, t)
         /\ \A t1, t2, t3 \in T : SameKey(t1, t2) /\ SameKey(t2, t3) => SameKey(t1, t3)
         /\ \A t1, t2 \in T : SameKey(t1, t2) => SameKey(t2, t1)
BY DEF Stamped, SameKey, Before

\* A pool is one still after an insertion or a removal, as is every part of it.
LEMMA PoolsArePools ==
  ASSUME NEW T, Stamped(T), NEW S \in SUBSET T, IsPool(S)
  PROVE  /\ \A tx \in T : IsPool(PoolInsert(S, tx))
         /\ \A txs : IsPool(PoolRemove(S, txs))
         /\ \A R \in SUBSET S : IsPool(R)
<1>1. ASSUME NEW R \in SUBSET S PROVE IsPool(R)
  BY FS_Subset DEF IsPool
<1>2. ASSUME NEW tx \in T PROVE IsPool(PoolInsert(S, tx))
  <2>1. CASE \E t \in S : SameKey(t, tx)
    BY <2>1 DEF PoolInsert
  <2>2. CASE ~ \E t \in S : SameKey(t, tx)
    <3>1. PoolInsert(S, tx) = S \cup {tx}
      BY <2>2 DEF PoolInsert
    <3>2. IsFiniteSet(S \cup {tx})
      BY FS_AddElement DEF IsPool
    <3>3. \A t \in S : ~ SameKey(t, tx) /\ ~ SameKey(tx, t)
      BY <2>2, BeforeIsTotal
    <3> QED
      BY <3>1, <3>2, <3>3 DEF IsPool
  <2> QED
    BY <2>1, <2>2
<1>3. ASSUME NEW txs PROVE PoolRemove(S, txs) \in SUBSET S
  BY DEF PoolRemove
<1> QED
  BY <1>1, <1>2, <1>3

\* A pool that is not empty has a last transaction.
LEMMA LastOfPool ==
  ASSUME NEW T, Stamped(T), NEW S \in SUBSET T, IsPool(S), S # {}
  PROVE  \E t \in S : \A u \in S \ {t} : Before(u, t)
<1> DEFINE HasLast(R) == \E t \in R : \A u \in R \ {t} : Before(u, t)
           P(n) == \A R \in SUBSET T : IsPool(R) /\ Cardinality(R) = n /\ R # {} => HasLast(R)
<1>1. P(0)
  BY FS_EmptySet DEF IsPool
<1>2. ASSUME NEW n \in Nat, P(n) PROVE P(n + 1)
  <2> SUFFICES ASSUME NEW R \in SUBSET T, IsPool(R), Cardinality(R) = n + 1
               PROVE  HasLast(R)
    OBVIOUS
  <2>1. PICK x \in R : TRUE
    BY FS_EmptySet DEF IsPool
  <2> DEFINE Q == R \ {x}
  <2>2. IsPool(Q) /\ Q \in SUBSET T
    BY PoolsArePools
  <2>3. Cardinality(Q) = n
    <3>1. IsFiniteSet(R) /\ (n + 1) - 1 = n
      BY DEF IsPool
    <3>2. Cardinality(R \ {x}) = (n + 1) - 1
      BY <2>1, <3>1, FS_RemoveElement
    <3> QED
      BY <3>1, <3>2
  <2>4. CASE Q = {}
    BY <2>1, <2>4
  <2>5. CASE Q # {}
    <3>1. PICK t \in Q : \A u \in Q \ {t} : Before(u, t)
      BY <1>2, <2>2, <2>3, <2>5
    <3>2. ~ SameKey(x, t)
      BY <3>1 DEF IsPool
    <3>3. CASE Before(x, t)
      BY <3>1, <3>3
    <3>4. CASE Before(t, x)
      <4>1. \A u \in R \ {x} : Before(u, x)
        BY <3>1, <3>4, <2>1, BeforeIsTotal
      <4> QED
        BY <2>1, <4>1
    <3> QED
      BY <2>1, <3>1, <3>2, <3>3, <3>4, BeforeIsTotal
  <2> QED
    BY <2>4, <2>5
<1>3. \A n \in Nat : P(n)
  <2> HIDE DEF P
  <2> DEFINE N == {n \in Nat : P(n)}
  <2>1. N \in SUBSET Nat /\ 0 \in N /\ \A n \in N : n + 1 \in N
    BY <1>1, <1>2
  <2>2. N = Nat
    BY <2>1, NatInd
  <2> QED
    BY <2>2
<1>4. Cardinality(S) \in Nat
  BY FS_CardinalityType DEF IsPool
<1> QED
  BY <1>3, <1>4

\* A pool can be put in order.
IsOrderOf(q, S) ==
    /\ q \in [1 .. Cardinality(S) -> S]
    /\ \A i, j \in 1 .. Cardinality(S) : i < j => Before(q[i], q[j])

\* There is such an order.
LEMMA OrderExists ==
  ASSUME NEW T, Stamped(T), NEW S \in SUBSET T, IsPool(S)
  PROVE  \E q : IsOrderOf(q, S)
<1> DEFINE P(n) == \A R \in SUBSET T : IsPool(R) /\ Cardinality(R) = n => \E q : IsOrderOf(q, R)
<1>1. P(0)
  <2> SUFFICES ASSUME NEW R \in SUBSET T, IsPool(R), Cardinality(R) = 0
               PROVE  \E q : IsOrderOf(q, R)
    OBVIOUS
  <2>1. [i \in 1 .. 0 |-> i] \in [1 .. 0 -> R]
    OBVIOUS
  <2>2. IsOrderOf([i \in 1 .. 0 |-> i], R)
    BY <2>1 DEF IsOrderOf
  <2> QED
    BY <2>2
<1>2. ASSUME NEW n \in Nat, P(n) PROVE P(n + 1)
  <2> SUFFICES ASSUME NEW R \in SUBSET T, IsPool(R), Cardinality(R) = n + 1
               PROVE  \E q : IsOrderOf(q, R)
    OBVIOUS
  <2>1. R # {}
    BY FS_EmptySet DEF IsPool
  <2>2. PICK t \in R : \A u \in R \ {t} : Before(u, t)
    BY <2>1, LastOfPool
  <2> DEFINE Q == R \ {t}
  <2>3. IsPool(Q) /\ Q \in SUBSET T
    BY PoolsArePools
  <2>4. Cardinality(Q) = n
    <3>1. IsFiniteSet(R) /\ (n + 1) - 1 = n
      BY DEF IsPool
    <3>2. Cardinality(R \ {t}) = (n + 1) - 1
      BY <2>2, <3>1, FS_RemoveElement
    <3> QED
      BY <3>1, <3>2
  <2>5. PICK q : IsOrderOf(q, Q)
    BY <1>2, <2>3, <2>4
  <2>6. q \in [1 .. n -> Q] /\ \A i, j \in 1 .. n : i < j => Before(q[i], q[j])
    BY <2>4, <2>5 DEF IsOrderOf
  <2> DEFINE r == [i \in 1 .. n + 1 |-> IF i = n + 1 THEN t ELSE q[i]]
  <2>7. r \in [1 .. n + 1 -> R]
    BY <2>6
  <2>8. ASSUME NEW i \in 1 .. n + 1, NEW j \in 1 .. n + 1, i < j PROVE Before(r[i], r[j])
    <3>1. i \in 1 .. n /\ r[i] = q[i] /\ q[i] \in R \ {t}
      BY <2>6, <2>8
    <3>2. CASE j = n + 1
      BY <2>2, <3>1, <3>2
    <3>3. CASE j # n + 1
      BY <2>6, <2>8, <3>1, <3>3
    <3> QED
      BY <3>2, <3>3
  <2> HIDE DEF r
  <2>9. IsOrderOf(r, R)
    BY <2>7, <2>8 DEF IsOrderOf
  <2> QED
    BY <2>9
<1>3. \A n \in Nat : P(n)
  <2> HIDE DEF P
  <2> DEFINE N == {n \in Nat : P(n)}
  <2>1. N \in SUBSET Nat /\ 0 \in N /\ \A n \in N : n + 1 \in N
    BY <1>1, <1>2
  <2>2. N = Nat
    BY <2>1, NatInd
  <2> QED
    BY <2>2
<1>4. Cardinality(S) \in Nat
  BY FS_CardinalityType DEF IsPool
<1> QED
  BY <1>3, <1>4

\* A block has transactions of the pool, and one at least if the pool has one.
LEMMA PackTxsIs ==
  ASSUME NEW T, Stamped(T), NEW S \in SUBSET T, IsPool(S), MaxTxPerBlock \in Nat
  PROVE  PackTxs(S) \in Seq(S) /\ (S # {} => Len(PackTxs(S)) > 0)
<1>1. \E q : IsOrderOf(q, S)
  BY OrderExists
<1> DEFINE n == Cardinality(S)
<1>2. n \in Nat /\ (S # {} => n > 0)
  BY FS_CardinalityType, FS_EmptySet DEF IsPool
<1>3. Ordered(S) \in [1 .. n -> S]
  <2>1. \E q \in [1 .. n -> S] : \A i, j \in DOMAIN q : i < j => Before(q[i], q[j])
    BY <1>1 DEF IsOrderOf
  <2> QED
    BY <2>1 DEF Ordered
<1> DEFINE m == IF n <= MaxTxPerBlock + 1 THEN n ELSE MaxTxPerBlock + 1
<1>4. m \in 0 .. n /\ (S # {} => m > 0)
  BY <1>2
<1>5. PackTxs(S) = SubSeq(Ordered(S), 1, m)
  BY DEF PackTxs
<1> HIDE DEF n, m
<1>6. Ordered(S) \in Seq(S) /\ Len(Ordered(S)) = n
  BY <1>2, <1>3, SeqDef
<1> QED
  BY <1>4, <1>5, <1>6, PrefixOf

-----------------------------------------------------------------------------
(***************************************************************************)
(* CheckBlock.                                                             *)
(***************************************************************************)
\* One more transaction in the sum of Debits.
AddDebit(sum, tx, a) == IF tx.from = a THEN sum + tx.value ELSE sum

\* The sums on the way when Debits adds up what the transactions q take from a.
IsSumming(h, q, a) ==
    /\ h \in [0 .. Len(q) -> Int]
    /\ h[0] = 0
    /\ h[Len(q)] = Debits(q, Len(q), a)
    /\ \A k \in 1 .. Len(q) : h[k] = AddDebit(h[k - 1], q[k], a)

\* Debits goes through the transactions one by one.
LEMMA DebitsFold ==
  ASSUME NEW T, \A tx \in T : tx.value \in Int, NEW q \in Seq(T), NEW a
  PROVE  \E h : IsSumming(h, q, a)
<1> DEFINE n == Len(q)
           step == [k \in 1 .. n |-> [x \in Int |-> AddDebit(x, q[k], a)]]
           Fold(h) == h = [s \in SUBSET DOMAIN q |->
                             IF s = {} THEN 0 ELSE AddDebit(h[s \ {Max(s)}], q[Max(s)], a)]
<1>1. n \in Nat /\ DOMAIN q = 1 .. n /\ \A k \in 1 .. n : q[k] \in T
  OBVIOUS
<1>2. ASSUME NEW x \in Int, NEW tx \in T PROVE AddDebit(x, tx, a) \in Int
  BY DEF AddDebit
<1>3. step \in [1 .. n -> [Int -> Int]]
  BY <1>1, <1>2
<1>4. \A k \in 1 .. n, x \in Int : step[k][x] = AddDebit(x, q[k], a)
  OBVIOUS
<1> HIDE DEF step
<1>5. \A g \in [SUBSET (1 .. n) -> Int] : \A s \in SUBSET (1 .. n) :
         s # {} => step[Max(s)][g[s \ {Max(s)}]] = AddDebit(g[s \ {Max(s)}], q[Max(s)], a)
  <2> SUFFICES ASSUME NEW g \in [SUBSET (1 .. n) -> Int],
                      NEW s \in SUBSET (1 .. n), s # {}
               PROVE  step[Max(s)][g[s \ {Max(s)}]] = AddDebit(g[s \ {Max(s)}], q[Max(s)], a)
    OBVIOUS
  <2>1. Max(s) \in 1 .. n
    BY <1>1, MaxIs
  <2>2. g[s \ {Max(s)}] \in Int
    OBVIOUS
  <2> QED
    BY <1>4, <2>1, <2>2
<1>6. PICK g : IsIteration(g, Int, 0, n, step)
  <2> HIDE DEF n, Fold
  <2>1. n \in Nat /\ 0 \in Int
    BY <1>1
  <2> QED
    BY <1>3, <2>1, Iteration
<1>7. \E h : Fold(h)
  <2>1. /\ g \in [SUBSET (1 .. n) -> Int]
        /\ \A s \in SUBSET (1 .. n) : g[s] = IF s = {} THEN 0 ELSE step[Max(s)][g[s \ {Max(s)}]]
    BY <1>6 DEF IsIteration
  <2>2. \A s \in SUBSET DOMAIN q : g[s] = IF s = {} THEN 0 ELSE AddDebit(g[s \ {Max(s)}], q[Max(s)], a)
    BY <1>1, <1>5, <2>1
  <2>3. Fold(g)
    BY <1>1, <2>1, <2>2
  <2> QED
    BY <2>3
<1> DEFINE c == CHOOSE h : Fold(h)
<1>8. Debits(q, n, a) = c[1 .. n]
  <2>1. SubSeq(q, 1, n) = q
    OBVIOUS
  <2>2. FoldLeft(LAMBDA sum, tx : IF tx.from = a THEN sum + tx.value ELSE sum, 0, q) = c[1 .. n]
    BY <1>1, Zenon DEF FoldLeft, MapThenFoldSet, AddDebit
  <2> QED
    BY <2>1, <2>2, Zenon DEF Debits
<1>9. Fold(c)
  BY <1>7, Zenon
<1> HIDE DEF c
<1>10. /\ c[{}] = 0
       /\ \A s \in SUBSET (1 .. n) : s # {} => c[s] = AddDebit(c[s \ {Max(s)}], q[Max(s)], a)
  BY <1>1, <1>9
<1>11. FollowsSteps(c, Int, 0, n, step)
  <2>1. \A s \in SUBSET (1 .. n) : s # {} => Max(s) \in 1 .. n
    BY <1>1, MaxIs
  <2> QED
    BY <1>4, <1>10, <2>1 DEF FollowsSteps
<1>12. PICK h : IsTrace(h, Int, 0, n, step) /\ h[n] = c[1 .. n]
  <2> DEFINE Z == Int
             zero == 0
  <2>1. /\ n \in Nat /\ zero \in Z
        /\ step \in [1 .. n -> [Z -> Z]]
        /\ FollowsSteps(c, Z, zero, n, step)
    BY <1>1, <1>3, <1>11
  <2> HIDE DEF n, Fold, Z, zero
  <2>2. ComesTo(Z, zero, n, step, c[1 .. n])
    BY <2>1, Unrolled
  <2>3. ComesTo(Int, 0, n, step, c[1 .. n])
    BY <2>2 DEF Z, zero
  <2> QED
    BY <2>3 DEF ComesTo
<1>13. /\ h \in [0 .. n -> Int]
       /\ h[0] = 0
       /\ \A k \in 1 .. n : h[k] = step[k][h[k - 1]]
  BY <1>12 DEF IsTrace
<1>14. \A k \in 1 .. n : h[k] = AddDebit(h[k - 1], q[k], a)
  <2>1. \A k \in 1 .. n : h[k - 1] \in Int
    BY <1>1, <1>13
  <2> QED
    BY <1>4, <1>13, <2>1
<1> QED
  BY <1>8, <1>12, <1>13, <1>14 DEF IsSumming

\* What the first k transactions take from an account, from what those before do.
LEMMA DebitsIs ==
  ASSUME NEW T, \A tx \in T : tx.value \in Int, NEW txs \in Seq(T), NEW a
  PROVE  /\ Debits(txs, 0, a) = 0
         /\ \A k \in 0 .. Len(txs) : Debits(txs, k, a) \in Int
         /\ \A k \in 1 .. Len(txs) :
               Debits(txs, k, a) = AddDebit(Debits(txs, k - 1, a), txs[k], a)
<1> DEFINE q(k) == SubSeq(txs, 1, k)
<1>1. ASSUME NEW k \in 0 .. Len(txs)
      PROVE  /\ q(k) \in Seq(T)
             /\ Len(q(k)) = k
             /\ \A i \in 1 .. k : q(k)[i] = txs[i]
             /\ Debits(q(k), k, a) = Debits(txs, k, a)
  <2>1. q(k) \in Seq(T) /\ Len(q(k)) = k /\ \A i \in 1 .. k : q(k)[i] = txs[i]
    BY PrefixOf
  <2>2. SubSeq(q(k), 1, k) = q(k)
    BY <2>1
  <2> QED
    BY <2>1, <2>2, Zenon DEF Debits
<1> HIDE DEF q
<1>2. ASSUME NEW k \in 0 .. Len(txs)
      PROVE  \E h : /\ h \in [0 .. k -> Int]
                    /\ h[0] = 0
                    /\ h[k] = Debits(txs, k, a)
                    /\ \A i \in 1 .. k : h[i] = AddDebit(h[i - 1], txs[i], a)
  <2>1. PICK h : IsSumming(h, q(k), a)
    BY <1>1, DebitsFold
  <2>2. Len(q(k)) = k /\ Debits(q(k), k, a) = Debits(txs, k, a)
    BY <1>1
  <2>3. h \in [0 .. k -> Int] /\ h[0] = 0 /\ h[k] = Debits(txs, k, a)
    BY <2>1, <2>2 DEF IsSumming
  <2>4. \A i \in 1 .. k : h[i] = AddDebit(h[i - 1], txs[i], a)
    BY <1>1, <2>1, <2>2 DEF IsSumming
  <2> QED
    BY <2>3, <2>4
<1>3. Debits(txs, 0, a) = 0
  <2>1. 0 \in 0 .. Len(txs)
    OBVIOUS
  <2> QED
    BY <1>2, <2>1
<1>4. ASSUME NEW k \in 0 .. Len(txs) PROVE Debits(txs, k, a) \in Int
  BY <1>2
<1>5. ASSUME NEW k \in 1 .. Len(txs)
      PROVE  Debits(txs, k, a) = AddDebit(Debits(txs, k - 1, a), txs[k], a)
  <2>1. k \in 0 .. Len(txs) /\ k - 1 \in 0 .. Len(txs) /\ k - 1 \in Nat /\ k \in 1 .. k
    OBVIOUS
  <2>2. PICK h : /\ h \in [0 .. k -> Int]
                 /\ h[0] = 0
                 /\ h[k] = Debits(txs, k, a)
                 /\ \A i \in 1 .. k : h[i] = AddDebit(h[i - 1], txs[i], a)
    BY <1>2, <2>1
  <2>3. PICK g : /\ g \in [0 .. k - 1 -> Int]
                 /\ g[0] = 0
                 /\ g[k - 1] = Debits(txs, k - 1, a)
                 /\ \A i \in 1 .. k - 1 : g[i] = AddDebit(g[i - 1], txs[i], a)
    BY <1>2, <2>1
  <2> DEFINE E == {i \in 0 .. k - 1 : g[i] = h[i]}
             id == [i \in 0 .. k - 1 |-> i]
  <2>4. id[0] \in E /\ \A i \in 1 .. k - 1 : id[i - 1] \in E => id[i] \in E
    <3>1. \A i \in 1 .. k - 1 : i - 1 \in 0 .. k - 1 /\ i \in 0 .. k - 1 /\ i \in 1 .. k
      BY <2>1
    <3> QED
      BY <2>1, <2>2, <2>3, <3>1
  <2>5. \A i \in 0 .. k - 1 : id[i] \in E
    <3> HIDE DEF E, id
    <3> QED
      BY <2>1, <2>4, Along
  <2>6. g[k - 1] = h[k - 1]
    BY <2>1, <2>5
  <2> QED
    BY <2>1, <2>2, <2>3, <2>6
<1> QED
  BY <1>3, <1>4, <1>5

\* A block that passes CheckBlock overdraws no account when it is executed on the
\* balances it was checked against, if no value is negative or written as more than
\* it is.
LEMMA CheckedIsCovered ==
  ASSUME NEW T,
         \A tx \in T : tx.value \in Int /\ tx.value >= 0 /\ 2 * (tx.value % Scale) < Scale,
         NEW block, block.txs \in Seq(T), NEW c,
         NEW b \in Balances, \A a \in Accounts : b[a] >= 0,
         CheckBlock(b, c, block)
  PROVE  \A a \in Accounts : UpdateBlance(b, block.txs)[a] >= 0
<1> DEFINE txs == block.txs
           q == ExecutablePrefix(txs)
<1>1. PICK m \in 0 .. Len(txs) :
         q \in Seq(Payments(T)) /\ Len(q) = m /\ \A i \in 1 .. m : q[i] = txs[i]
  BY ExecutedPart
<1>2. \A tx \in Payments(T) :
         /\ Executable(tx) /\ tx.value \in Int /\ tx.value >= 0 /\ tx \in T
         /\ 2 * (tx.value % Scale) < Scale
  BY DEF Payments
<1>3. m \in Nat /\ \A k \in 1 .. m : k \in 1 .. Len(txs) /\ k - 1 \in 0 .. m /\ txs[k] \in Payments(T)
  <2>1. \A k \in 1 .. m : q[k] \in Payments(T)
    BY <1>1, ElementOfSeq
  <2> QED
    BY <1>1, <2>1
<1>4. PICK h : IsExecution(h, b, q)
  <2> HIDE DEF q
  <2> QED
    BY <1>1, <1>2, TransferFold
<1>5. /\ h \in [0 .. m -> Balances]
      /\ h[0] = b
      /\ h[m] = UpdateBlance(b, txs)
      /\ \A k \in 1 .. m : h[k] = Transfer(h[k - 1], txs[k])
  BY <1>1, <1>4 DEF IsExecution, UpdateBlance
<1> DEFINE D(k, a) == Debits(txs, k, a)
           Covered(k) == \A a \in Accounts :
                            /\ D(k, a) <= Scale * b[a]
                            /\ Scale * h[k][a] >= Scale * b[a] - D(k, a)
<1>6. \A a : /\ D(0, a) = 0
             /\ \A k \in 0 .. Len(txs) : D(k, a) \in Int
             /\ \A k \in 1 .. Len(txs) : D(k, a) = AddDebit(D(k - 1, a), txs[k], a)
  BY DebitsIs
<1>7. \A i \in 1 .. Len(txs) : txs[i].from \in Accounts /\ D(i, txs[i].from) <= Scale * b[txs[i].from]
  BY DEF CheckBlock
<1> HIDE DEF D, txs, q
<1>8. Covered(0)
  <2>1. \A a \in Accounts : b[a] \in Int /\ b[a] >= 0
    BY DEF Balances
  <2> SUFFICES ASSUME NEW a \in Accounts
               PROVE  D(0, a) <= Scale * b[a] /\ Scale * h[0][a] >= Scale * b[a] - D(0, a)
    OBVIOUS
  <2>2. Scale * b[a] \in Int /\ Scale * b[a] >= 0
    BY <2>1, ScaleAssumption
  <2> QED
    BY <1>5, <1>6, <2>2
<1>9. ASSUME NEW k \in 1 .. m, Covered(k - 1) PROVE Covered(k)
  <2> SUFFICES ASSUME NEW a \in Accounts
               PROVE  D(k, a) <= Scale * b[a] /\ Scale * h[k][a] >= Scale * b[a] - D(k, a)
    OBVIOUS
  <2> DEFINE tx == txs[k]
  <2>1. /\ k \in 1 .. Len(txs) /\ k - 1 \in 0 .. m /\ k - 1 \in 0 .. Len(txs)
        /\ Executable(tx) /\ tx.value \in Int /\ tx.value >= 0
        /\ 2 * (tx.value % Scale) < Scale
    BY <1>2, <1>3
  <2> DEFINE w == Written(tx.value)
  <2>0. ~ Halfway(tx.value) /\ w \in Int /\ w >= 0 /\ Scale * w <= tx.value
    BY <2>1, WrittenDown
  <2>2. h[k - 1] \in Balances /\ h[k] = Transfer(h[k - 1], tx)
    BY <1>5, <2>1
  <2>3. h[k][a] = h[k - 1][a] + Gain(tx, a) /\ h[k - 1][a] \in Int /\ Gain(tx, a) \in Int
    BY <2>0, <2>1, <2>2, TransferIs
  <2>4. D(k - 1, a) <= Scale * b[a] /\ Scale * h[k - 1][a] >= Scale * b[a] - D(k - 1, a)
    BY <1>9
  <2>5. D(k, a) = AddDebit(D(k - 1, a), tx, a) /\ D(k, a) \in Int /\ D(k - 1, a) \in Int
    BY SMTT(30), <1>6, <2>1
  <2>6. b[a] \in Int
    BY DEF Balances
  <2> HIDE DEF tx, w
  <2>7. D(k, a) <= Scale * b[a]
    <3>1. CASE tx.from = a
      BY <1>7, <2>1, <3>1 DEF tx
    <3>2. CASE tx.from # a
      BY <2>4, <2>5, <3>2 DEF AddDebit
    <3> QED
      BY <3>1, <3>2
  <2> DEFINE g == Gain(tx, a)
             x == h[k - 1][a]
             y == h[k][a]
  <2>8. Scale * g >= 0 - (D(k, a) - D(k - 1, a))
    <3>1. g = IF tx.to = a THEN w ELSE IF tx.from = a THEN - w ELSE 0
      BY DEF Gain, w
    <3> DEFINE p == Scale * w
    <3>2. p \in Int /\ p >= 0 /\ p <= tx.value /\ Scale * (- w) = - p /\ Scale * 0 = 0
      BY <2>0, ScaleAssumption
    <3> HIDE DEF p, g
    <3>3. Scale * g \in {p, - p, 0} /\ (tx.from # a => Scale * g \in {p, 0})
      BY <2>0, <3>1, <3>2 DEF p
    <3> DEFINE s == Scale * g
    <3>4. s \in {p, - p, 0} /\ (tx.from # a => s \in {p, 0})
      BY <3>3
    <3> HIDE DEF s
    <3>5. s >= 0 - (D(k, a) - D(k - 1, a))
      <4>1. CASE tx.from = a
        <5>1. D(k, a) = D(k - 1, a) + tx.value
          BY <2>5, <4>1 DEF AddDebit
        <5>2. s \in Int /\ s >= 0 - tx.value /\ tx.value \in Int
          BY <2>1, <3>2, <3>4
        <5> QED
          BY <2>5, <5>1, <5>2
      <4>2. CASE tx.from # a
        <5>1. D(k, a) = D(k - 1, a)
          BY <2>5, <4>2 DEF AddDebit
        <5>2. s >= 0
          BY <3>2, <3>4, <4>2
        <5> QED
          BY <2>5, <5>1, <5>2
      <4> QED
        BY <4>1, <4>2
    <3> QED
      BY <3>5 DEF s
  <2>9. Scale * h[k][a] >= Scale * b[a] - D(k, a)
    <3>1. x \in Int /\ g \in Int /\ y = x + g
      BY <2>3
    <3> HIDE DEF x, g, y
    <3>2. Scale * y = Scale * x + Scale * g
      BY <3>1, ScaleAssumption
    <3> DEFINE sx == Scale * x
               sg == Scale * g
               sy == Scale * y
               sb == Scale * b[a]
    <3>3. sx \in Int /\ sg \in Int /\ sb \in Int /\ sy = sx + sg
      BY <2>6, <3>1, <3>2, ScaleAssumption
    <3>4. sx >= sb - D(k - 1, a) /\ sg >= 0 - (D(k, a) - D(k - 1, a))
      BY <2>4, <2>8 DEF x
    <3> HIDE DEF sx, sg, sy, sb
    <3>5. sy >= sb - D(k, a)
      BY <2>5, <3>3, <3>4
    <3> QED
      BY <3>5 DEF sy, sb, y
  <2> QED
    BY <2>7, <2>9
<1> DEFINE N == {k \in 0 .. m : Covered(k)}
           id == [k \in 0 .. m |-> k]
<1>10. \A k \in 0 .. m : id[k] \in N
  <2>1. id[0] \in N /\ \A k \in 1 .. m : id[k - 1] \in N => id[k] \in N
    <3> HIDE DEF Covered
    <3> QED
      BY <1>3, <1>8, <1>9
  <2> HIDE DEF N, id
  <2> QED
    BY <1>3, <2>1, Along
<1>11. Covered(m)
  <2> HIDE DEF Covered
  <2> QED
    BY <1>3, <1>10
<1>12. ASSUME NEW a \in Accounts PROVE UpdateBlance(b, txs)[a] >= 0
  <2>1. m \in 0 .. m /\ m \in 0 .. Len(txs)
    BY <1>3
  <2>2. D(m, a) \in Int /\ b[a] \in Int /\ h[m][a] \in Int
    BY <1>5, <1>6, <2>1 DEF Balances
  <2> DEFINE y == h[m][a]
  <2>3. Scale * y >= Scale * b[a] - D(m, a) /\ D(m, a) <= Scale * b[a]
    BY <1>11
  <2>4. Scale * b[a] \in Int /\ y \in Int /\ Scale * y \in Int
    BY <2>2, ScaleAssumption
  <2>5. y = UpdateBlance(b, txs)[a]
    BY <1>5
  <2> HIDE DEF y
  <2>6. Scale * y >= 0
    BY <2>2, <2>3, <2>4
  <2>7. y >= 0
    <3> SUFFICES ASSUME y <= - 1 PROVE FALSE
      BY <2>4
    <3>1. Scale * y <= - Scale
      BY <2>4, ScaleAssumption
    <3> QED
      BY <2>4, <2>6, <3>1, ScaleAssumption
  <2> QED
    BY <2>5, <2>7
<1> QED
  BY <1>12 DEF txs

-----------------------------------------------------------------------------
(***************************************************************************)
(* What a ledger adds up to.                                               *)
(***************************************************************************)
\* The sums on the way when the numbers q are added up.
AddsUp(h, q) ==
    /\ h \in [0 .. Len(q) -> Int]
    /\ h[0] = 0
    /\ h[Len(q)] = Total(q)
    /\ \A k \in 1 .. Len(q) : h[k] = h[k - 1] + q[k]

\* One more number.
Plus(sum, number) == sum + number

\* Total adds the numbers up one by one.
LEMMA TotalFold ==
  ASSUME NEW q \in Seq(Int)
  PROVE  \E h : AddsUp(h, q)
<1> DEFINE n == Len(q)
           step == [k \in 1 .. n |-> [x \in Int |-> Plus(x, q[k])]]
           Fold(h) == h = [s \in SUBSET DOMAIN q |->
                             IF s = {} THEN 0 ELSE Plus(h[s \ {Max(s)}], q[Max(s)])]
<1>1. n \in Nat /\ DOMAIN q = 1 .. n /\ \A k \in 1 .. n : q[k] \in Int
  OBVIOUS
<1>2. ASSUME NEW x \in Int, NEW y \in Int PROVE Plus(x, y) \in Int
  BY DEF Plus
<1>3. step \in [1 .. n -> [Int -> Int]]
  BY <1>1, <1>2
<1>4. \A k \in 1 .. n, x \in Int : step[k][x] = Plus(x, q[k])
  OBVIOUS
<1> HIDE DEF step
<1>5. \A g \in [SUBSET (1 .. n) -> Int] : \A s \in SUBSET (1 .. n) :
         s # {} => step[Max(s)][g[s \ {Max(s)}]] = Plus(g[s \ {Max(s)}], q[Max(s)])
  <2> SUFFICES ASSUME NEW g \in [SUBSET (1 .. n) -> Int],
                      NEW s \in SUBSET (1 .. n), s # {}
               PROVE  step[Max(s)][g[s \ {Max(s)}]] = Plus(g[s \ {Max(s)}], q[Max(s)])
    OBVIOUS
  <2>1. Max(s) \in 1 .. n
    BY <1>1, MaxIs
  <2>2. g[s \ {Max(s)}] \in Int
    OBVIOUS
  <2> QED
    BY <1>4, <2>1, <2>2
<1>6. PICK g : IsIteration(g, Int, 0, n, step)
  <2> HIDE DEF n, Fold
  <2>1. n \in Nat /\ 0 \in Int
    BY <1>1
  <2> QED
    BY <1>3, <2>1, Iteration
<1>7. \E h : Fold(h)
  <2>1. /\ g \in [SUBSET (1 .. n) -> Int]
        /\ \A s \in SUBSET (1 .. n) : g[s] = IF s = {} THEN 0 ELSE step[Max(s)][g[s \ {Max(s)}]]
    BY <1>6 DEF IsIteration
  <2>2. \A s \in SUBSET DOMAIN q : g[s] = IF s = {} THEN 0 ELSE Plus(g[s \ {Max(s)}], q[Max(s)])
    BY <1>1, <1>5, <2>1
  <2>3. Fold(g)
    BY <1>1, <2>1, <2>2
  <2> QED
    BY <2>3
<1> DEFINE c == CHOOSE h : Fold(h)
<1>8. Total(q) = c[1 .. n]
  BY <1>1, Zenon DEF Total, FoldLeft, MapThenFoldSet, Plus
<1>9. Fold(c)
  BY <1>7, Zenon
<1> HIDE DEF c
<1>10. /\ c[{}] = 0
       /\ \A s \in SUBSET (1 .. n) : s # {} => c[s] = Plus(c[s \ {Max(s)}], q[Max(s)])
  BY <1>1, <1>9
<1>11. FollowsSteps(c, Int, 0, n, step)
  <2>1. \A s \in SUBSET (1 .. n) : s # {} => Max(s) \in 1 .. n
    BY <1>1, MaxIs
  <2> QED
    BY <1>4, <1>10, <2>1 DEF FollowsSteps
<1>12. PICK h : IsTrace(h, Int, 0, n, step) /\ h[n] = c[1 .. n]
  <2> DEFINE Z == Int
             zero == 0
  <2>1. /\ n \in Nat /\ zero \in Z
        /\ step \in [1 .. n -> [Z -> Z]]
        /\ FollowsSteps(c, Z, zero, n, step)
    BY <1>1, <1>3, <1>11
  <2> HIDE DEF n, Fold, Z, zero
  <2>2. ComesTo(Z, zero, n, step, c[1 .. n])
    BY <2>1, Unrolled
  <2>3. ComesTo(Int, 0, n, step, c[1 .. n])
    BY <2>2 DEF Z, zero
  <2> QED
    BY <2>3 DEF ComesTo
<1>13. /\ h \in [0 .. n -> Int]
       /\ h[0] = 0
       /\ \A k \in 1 .. n : h[k] = step[k][h[k - 1]]
  BY <1>12 DEF IsTrace
<1>14. \A k \in 1 .. n : h[k] = h[k - 1] + q[k]
  <2>1. \A k \in 1 .. n : h[k - 1] \in Int
    BY <1>1, <1>13
  <2> QED
    BY <1>4, <1>13, <2>1 DEF Plus
<1> QED
  BY <1>8, <1>12, <1>13, <1>14 DEF AddsUp

\* The total of sums is the sum of the totals.
LEMMA TotalAdds ==
  ASSUME NEW p \in Seq(Int), NEW q \in Seq(Int), NEW r \in Seq(Int),
         Len(p) = Len(r), Len(q) = Len(r), \A k \in 1 .. Len(r) : r[k] = p[k] + q[k]
  PROVE  Total(r) = Total(p) + Total(q)
<1> DEFINE n == Len(r)
<1>1. n \in Nat /\ n \in 0 .. n /\ 0 \in 0 .. n
  OBVIOUS
<1>2. PICK f : AddsUp(f, p)
  BY TotalFold
<1>3. PICK g : AddsUp(g, q)
  BY TotalFold
<1>4. PICK h : AddsUp(h, r)
  BY TotalFold
<1>5. /\ f[0] = 0 /\ f[n] = Total(p)
      /\ \A k \in 0 .. n : f[k] \in Int
      /\ \A k \in 1 .. n : f[k] = f[k - 1] + p[k]
  BY <1>2 DEF AddsUp
<1>6. /\ g[0] = 0 /\ g[n] = Total(q)
      /\ \A k \in 0 .. n : g[k] \in Int
      /\ \A k \in 1 .. n : g[k] = g[k - 1] + q[k]
  BY <1>3 DEF AddsUp
<1>7. /\ h[0] = 0 /\ h[n] = Total(r)
      /\ \A k \in 0 .. n : h[k] \in Int
      /\ \A k \in 1 .. n : h[k] = h[k - 1] + r[k]
  BY <1>4 DEF AddsUp
<1>8. \A k \in 1 .. n : p[k] \in Int /\ q[k] \in Int /\ r[k] = p[k] + q[k]
  OBVIOUS
<1> HIDE DEF n
<1> DEFINE E == {k \in 0 .. n : h[k] = f[k] + g[k]}
           id == [k \in 0 .. n |-> k]
<1>9. 0 \in E
  BY <1>1, <1>5, <1>6, <1>7
<1>10. ASSUME NEW k \in 1 .. n, k - 1 \in E PROVE k \in E
  <2>1. k \in 0 .. n /\ k - 1 \in 0 .. n
    BY <1>1
  <2>2. h[k - 1] = f[k - 1] + g[k - 1]
    BY <1>10
  <2>3. h[k] = h[k - 1] + r[k] /\ f[k] = f[k - 1] + p[k] /\ g[k] = g[k - 1] + q[k]
    BY <1>5, <1>6, <1>7
  <2>4. /\ f[k - 1] \in Int /\ g[k - 1] \in Int /\ p[k] \in Int /\ q[k] \in Int
        /\ r[k] = p[k] + q[k]
    BY <1>5, <1>6, <1>8, <2>1
  <2> DEFINE x == f[k - 1]
             y == g[k - 1]
             u == p[k]
             v == q[k]
  <2>5. /\ x \in Int /\ y \in Int /\ u \in Int /\ v \in Int
        /\ h[k] = (x + y) + (u + v) /\ f[k] = x + u /\ g[k] = y + v
    BY <2>2, <2>3, <2>4
  <2> HIDE DEF x, y, u, v
  <2>6. h[k] = f[k] + g[k]
    BY <2>5
  <2> QED
    BY <2>1, <2>6
<1>11. \A k \in 0 .. n : id[k] \in E
  <2>1. id[0] \in E /\ \A k \in 1 .. n : id[k - 1] \in E => id[k] \in E
    <3>1. \A k \in 1 .. n : k - 1 \in 0 .. n /\ k \in 0 .. n
      BY <1>1
    <3> HIDE DEF E
    <3> QED
      BY <1>1, <1>9, <1>10, <3>1
  <2> HIDE DEF E, id
  <2> QED
    BY <1>1, <2>1, Along
<1> QED
  BY <1>1, <1>5, <1>6, <1>7, <1>11

\* A single number and zeros.
LEMMA TotalOfOne ==
  ASSUME NEW q \in Seq(Int), NEW i \in 1 .. Len(q),
         \A k \in 1 .. Len(q) : k # i => q[k] = 0
  PROVE  Total(q) = q[i]
<1> DEFINE n == Len(q)
<1>1. n \in Nat /\ n \in 0 .. n /\ 0 \in 0 .. n /\ i \in 1 .. n /\ q[i] \in Int
  OBVIOUS
<1>2. PICK h : AddsUp(h, q)
  BY TotalFold
<1>3. /\ h[0] = 0 /\ h[n] = Total(q)
      /\ \A k \in 0 .. n : h[k] \in Int
      /\ \A k \in 1 .. n : h[k] = h[k - 1] + q[k]
  BY <1>2 DEF AddsUp
<1>4. \A k \in 1 .. n : k # i => q[k] = 0
  OBVIOUS
<1> HIDE DEF n
<1> DEFINE Upto(k) == IF k < i THEN 0 ELSE q[i]
           E == {k \in 0 .. n : h[k] = Upto(k)}
           id == [k \in 0 .. n |-> k]
<1>5. 0 \in E
  BY <1>1, <1>3
<1>6. ASSUME NEW k \in 1 .. n, k - 1 \in E PROVE k \in E
  <2>1. k \in 0 .. n /\ k - 1 \in 0 .. n /\ h[k] = h[k - 1] + q[k] /\ h[k - 1] = Upto(k - 1)
    BY <1>1, <1>3, <1>6
  <2>2. CASE k = i
    <3>1. k - 1 < i /\ ~ (k < i)
      BY <1>1, <2>2
    <3> QED
      BY <1>1, <2>1, <2>2, <3>1
  <2>3. CASE k # i
    <3>1. (k - 1 < i <=> k < i) /\ q[k] = 0
      BY <1>1, <1>4, <2>3
    <3> QED
      BY <1>1, <2>1, <3>1
  <2> QED
    BY <2>2, <2>3
<1>7. \A k \in 0 .. n : id[k] \in E
  <2>1. id[0] \in E /\ \A k \in 1 .. n : id[k - 1] \in E => id[k] \in E
    <3>1. \A k \in 1 .. n : k - 1 \in 0 .. n /\ k \in 0 .. n
      BY <1>1
    <3> HIDE DEF E
    <3> QED
      BY <1>1, <1>5, <1>6, <3>1
  <2> HIDE DEF E, id
  <2> QED
    BY <1>1, <2>1, Along
<1> QED
  BY <1>1, <1>3, <1>7

\* One more number behind the others.
LEMMA TotalAppend ==
  ASSUME NEW q \in Seq(Int), NEW x \in Int
  PROVE  /\ Total(q) \in Int
         /\ Total(Append(q, x)) = Total(q) + x
<1> DEFINE n == Len(q)
           r == Append(q, x)
<1>1. /\ n \in Nat /\ r \in Seq(Int) /\ Len(r) = n + 1 /\ r[n + 1] = x
      /\ \A k \in 1 .. n : r[k] = q[k]
  OBVIOUS
<1> HIDE DEF r
<1>2. PICK f : AddsUp(f, q)
  BY TotalFold
<1>3. PICK h : AddsUp(h, r)
  BY <1>1, TotalFold
<1>4. /\ f[0] = 0 /\ f[n] = Total(q)
      /\ \A k \in 0 .. n : f[k] \in Int
      /\ \A k \in 1 .. n : f[k] = f[k - 1] + q[k]
  BY <1>2 DEF AddsUp
<1>5. /\ h[0] = 0 /\ h[n + 1] = Total(r)
      /\ \A k \in 1 .. n + 1 : h[k] = h[k - 1] + r[k]
  BY <1>1, <1>3 DEF AddsUp
<1> HIDE DEF n
<1> DEFINE E == {k \in 0 .. n : h[k] = f[k]}
           id == [k \in 0 .. n |-> k]
<1>6. 0 \in E
  BY <1>1, <1>4, <1>5
<1>7. ASSUME NEW k \in 1 .. n, k - 1 \in E PROVE k \in E
  <2>1. k \in 0 .. n /\ k \in 1 .. n + 1
    BY <1>1
  <2>2. h[k] = h[k - 1] + r[k] /\ f[k] = f[k - 1] + q[k] /\ h[k - 1] = f[k - 1] /\ r[k] = q[k]
    BY <1>1, <1>4, <1>5, <1>7, <2>1
  <2> QED
    BY <2>1, <2>2
<1>8. \A k \in 0 .. n : id[k] \in E
  <2>1. id[0] \in E /\ \A k \in 1 .. n : id[k - 1] \in E => id[k] \in E
    <3>1. \A k \in 1 .. n : k - 1 \in 0 .. n /\ k \in 0 .. n
      BY <1>1
    <3> HIDE DEF E
    <3> QED
      BY <1>1, <1>6, <1>7, <3>1
  <2> HIDE DEF E, id
  <2> QED
    BY <1>1, <2>1, Along
<1>9. h[n] = f[n]
  BY <1>1, <1>8
<1>10. n + 1 \in 1 .. n + 1 /\ (n + 1) - 1 = n /\ n \in 0 .. n
  BY <1>1
<1>11. h[n + 1] = h[n] + r[n + 1]
  BY <1>5, <1>10
<1> QED
  BY <1>1, <1>4, <1>5, <1>9, <1>10, <1>11 DEF r

\* The balances in the order of Users.
Purse(b) == [i \in DOMAIN Users |-> b[Users[i]]]

\* Every user is listed once.
LEMMA PurseIs ==
  ASSUME IsFiniteSet(Accounts), NEW b \in Balances
  PROVE  /\ Users \in Seq(Accounts)
         /\ \A i, j \in 1 .. Len(Users) : Users[i] = Users[j] => i = j
         /\ \A a \in Accounts : \E i \in 1 .. Len(Users) : Users[i] = a
         /\ Purse(b) \in Seq(Int)
         /\ Len(Purse(b)) = Len(Users)
         /\ \A i \in 1 .. Len(Users) : Purse(b)[i] = b[Users[i]]
         /\ Coins(b) = Total(Purse(b))
<1>1. /\ Users \in Seq(Accounts)
      /\ \A i, j \in 1 .. Len(Users) : Users[i] = Users[j] => i = j
      /\ \A a \in Accounts : \E i \in 1 .. Len(Users) : Users[i] = a
  BY SetToSeqIs DEF Users
<1>2. /\ Len(Users) \in Nat /\ DOMAIN Users = 1 .. Len(Users)
      /\ \A i \in 1 .. Len(Users) : Users[i] \in Accounts
  BY <1>1
<1>3. Purse(b) \in [1 .. Len(Users) -> Int]
  BY <1>2 DEF Purse, Balances
<1>4. Purse(b) \in Seq(Int) /\ Len(Purse(b)) = Len(Users)
  BY <1>2, <1>3, SeqDef
<1>5. \A i \in 1 .. Len(Users) : Purse(b)[i] = b[Users[i]]
  BY <1>2 DEF Purse
<1>6. Coins(b) = Total(Purse(b))
  BY DEF Coins, Purse
<1> QED
  BY <1>1, <1>4, <1>5, <1>6

\* What is added to the balances is added to the coins.
LEMMA CoinsAdd ==
  ASSUME IsFiniteSet(Accounts), NEW b \in Balances, NEW c \in Balances, NEW d \in Balances,
         \A a \in Accounts : d[a] = b[a] + c[a]
  PROVE  Coins(d) = Coins(b) + Coins(c)
<1> DEFINE n == Len(Users)
<1>1. /\ Purse(b) \in Seq(Int) /\ Len(Purse(b)) = n /\ Coins(b) = Total(Purse(b))
      /\ Users \in Seq(Accounts) /\ \A i \in 1 .. n : Purse(b)[i] = b[Users[i]]
  BY PurseIs
<1>2. /\ Purse(c) \in Seq(Int) /\ Len(Purse(c)) = n /\ Coins(c) = Total(Purse(c))
      /\ \A i \in 1 .. n : Purse(c)[i] = c[Users[i]]
  BY PurseIs
<1>3. /\ Purse(d) \in Seq(Int) /\ Len(Purse(d)) = n /\ Coins(d) = Total(Purse(d))
      /\ \A i \in 1 .. n : Purse(d)[i] = d[Users[i]]
  BY PurseIs
<1>4. \A i \in 1 .. n : Purse(d)[i] = Purse(b)[i] + Purse(c)[i]
  <2> SUFFICES ASSUME NEW i \in 1 .. n
               PROVE  Purse(d)[i] = Purse(b)[i] + Purse(c)[i]
    OBVIOUS
  <2>1. Users[i] \in Accounts
    BY <1>1
  <2>2. d[Users[i]] = b[Users[i]] + c[Users[i]]
    BY <2>1
  <2> QED
    BY <1>1, <1>2, <1>3, <2>2
<1>5. Total(Purse(d)) = Total(Purse(b)) + Total(Purse(c))
  <2> DEFINE p == Purse(b)
             q == Purse(c)
             r == Purse(d)
  <2>1. /\ p \in Seq(Int) /\ q \in Seq(Int) /\ r \in Seq(Int)
        /\ Len(p) = Len(r) /\ Len(q) = Len(r)
        /\ \A k \in 1 .. Len(r) : r[k] = p[k] + q[k]
    BY <1>1, <1>2, <1>3, <1>4
  <2> HIDE DEF p, q, r
  <2>2. Total(r) = Total(p) + Total(q)
    BY <2>1, TotalAdds
  <2> QED
    BY <2>2 DEF p, q, r
<1> QED
  BY <1>1, <1>2, <1>3, <1>5

\* The coins of a single account.
LEMMA CoinsOfOne ==
  ASSUME IsFiniteSet(Accounts), NEW b \in Balances, NEW a \in Accounts,
         \A x \in Accounts : x # a => b[x] = 0
  PROVE  Coins(b) = b[a]
<1> DEFINE n == Len(Users)
<1>1. /\ Purse(b) \in Seq(Int) /\ Len(Purse(b)) = n /\ Coins(b) = Total(Purse(b))
      /\ Users \in Seq(Accounts) /\ \A i \in 1 .. n : Purse(b)[i] = b[Users[i]]
      /\ \A i, j \in 1 .. n : Users[i] = Users[j] => i = j
      /\ \E i \in 1 .. n : Users[i] = a
  BY PurseIs
<1>2. PICK i \in 1 .. n : Users[i] = a
  BY <1>1
<1>3. \A k \in 1 .. n : Users[k] \in Accounts
  BY <1>1
<1>4. \A k \in 1 .. n : k # i => Purse(b)[k] = 0
  BY <1>1, <1>2, <1>3
<1> HIDE DEF n
<1>5. Total(Purse(b)) = Purse(b)[i]
  BY <1>1, <1>4, TotalOfOne
<1> QED
  BY <1>1, <1>2, <1>5

\* What a transaction to its own sender creates.
Own(tx) == IF tx.from = tx.to THEN Written(tx.value) ELSE 0

\* A transfer creates no other coins.
LEMMA CoinsTransfer ==
  ASSUME IsFiniteSet(Accounts), NEW b \in Balances, NEW tx, Executable(tx),
         tx.value \in Int, ~ Halfway(tx.value)
  PROVE  /\ Own(tx) \in Int
         /\ Coins(b) \in Int
         /\ Coins(Transfer(b, tx)) = Coins(b) + Own(tx)
<1> DEFINE gain == [a \in Accounts |-> Gain(tx, a)]
           w == Written(tx.value)
           plus == [a \in Accounts |-> IF a = tx.to THEN w ELSE 0]
           minus == [a \in Accounts |-> IF a = tx.from /\ tx.from # tx.to THEN - w ELSE 0]
           t == Transfer(b, tx)
<1>1. tx.from \in Accounts /\ tx.to \in Accounts /\ w \in Int /\ - w \in Int
  BY WrittenIs DEF Executable
<1>2. t \in Balances /\ \A a \in Accounts : Gain(tx, a) \in Int /\ t[a] = b[a] + Gain(tx, a)
  BY TransferIs
<1>3. gain \in Balances /\ \A a \in Accounts : gain[a] = Gain(tx, a)
  BY <1>2 DEF Balances
<1>0. \A a : Gain(tx, a) = IF tx.to = a THEN w ELSE IF tx.from = a THEN - w ELSE 0
  BY DEF Gain
<1>4. /\ plus \in Balances /\ plus[tx.to] = w
      /\ \A a \in Accounts : a # tx.to => plus[a] = 0
  BY <1>1 DEF Balances
<1>5. /\ minus \in Balances
      /\ minus[tx.from] = IF tx.from # tx.to THEN - w ELSE 0
      /\ \A a \in Accounts : a # tx.from => minus[a] = 0
  BY <1>1 DEF Balances
<1>6. \A a \in Accounts : gain[a] = plus[a] + minus[a]
  <2> SUFFICES ASSUME NEW a \in Accounts PROVE gain[a] = plus[a] + minus[a]
    OBVIOUS
  <2>1. gain[a] = IF tx.to = a THEN w ELSE IF tx.from = a THEN - w ELSE 0
    BY <1>0
  <2>2. plus[a] = IF a = tx.to THEN w ELSE 0
    OBVIOUS
  <2>3. minus[a] = IF a = tx.from /\ tx.from # tx.to THEN - w ELSE 0
    OBVIOUS
  <2> HIDE DEF gain, plus, minus, w
  <2> QED
    BY <1>1, <2>1, <2>2, <2>3
<1> HIDE DEF gain, plus, minus, t
<1>7. Coins(t) = Coins(b) + Coins(gain)
  BY <1>2, <1>3, CoinsAdd
<1>8. Coins(gain) = Coins(plus) + Coins(minus)
  BY <1>3, <1>4, <1>5, <1>6, CoinsAdd
<1>9. Coins(plus) = w
  BY <1>1, <1>4, CoinsOfOne
<1>10. Coins(minus) = IF tx.from # tx.to THEN - w ELSE 0
  BY <1>1, <1>5, CoinsOfOne
<1>11. Own(tx) \in Int /\ Coins(gain) = Own(tx)
  BY <1>1, <1>8, <1>9, <1>10 DEF Own
<1>12. Coins(b) \in Int
  <2>1. Purse(b) \in Seq(Int) /\ Coins(b) = Total(Purse(b))
    BY PurseIs
  <2> HIDE DEF Balances
  <2>2. 0 \in Int
    OBVIOUS
  <2> QED
    BY <2>1, <2>2, TotalAppend
<1> QED
  BY <1>7, <1>11, <1>12 DEF t

\* A block creates the coins that Created says.
LEMMA CoinsOfBlock ==
  ASSUME IsFiniteSet(Accounts), NEW T, \A tx \in T : tx.value \in Int /\ ~ Halfway(tx.value),
         NEW txs \in Seq(T), NEW b \in Balances
  PROVE  /\ Coins(b) \in Int
         /\ Created(txs) \in Int
         /\ Coins(UpdateBlance(b, txs)) = Coins(b) + Created(txs)
<1> DEFINE q == ExecutablePrefix(txs)
           n == Len(q)
           P == Payments(T)
           own == [i \in DOMAIN q |-> Own(q[i])]
<1>1. PICK m \in 0 .. Len(txs) : q \in Seq(P) /\ Len(q) = m
  BY ExecutedPart
<1>2. \A tx \in P : Executable(tx) /\ tx.value \in Int /\ ~ Halfway(tx.value)
  BY DEF Payments
<1>3. Created(txs) = Total(own) /\ UpdateBlance(b, txs) = FoldLeft(Transfer, b, q)
  BY Zenon DEF Created, Own, UpdateBlance
<1> HIDE DEF q, P
<1>4. n \in Nat /\ DOMAIN q = 1 .. n /\ \A k \in 1 .. n : q[k] \in P
  BY <1>1
<1>5. \A k \in 1 .. n : Own(q[k]) \in Int
  <2> SUFFICES ASSUME NEW k \in 1 .. n PROVE Own(q[k]) \in Int
    OBVIOUS
  <2> DEFINE v == q[k].value
  <2>1. v \in Int
    BY <1>2, <1>4
  <2>2. Own(q[k]) = IF q[k].from = q[k].to THEN Written(v) ELSE 0
    BY DEF Own
  <2> HIDE DEF v
  <2>3. Written(v) \in Int
    BY <2>1, WrittenIs
  <2> QED
    BY <2>2, <2>3
<1>6. own \in Seq(Int) /\ Len(own) = n /\ \A k \in 1 .. n : own[k] = Own(q[k])
  <2>1. own \in [1 .. n -> Int]
    BY <1>4, <1>5
  <2>2. own \in Seq(Int) /\ Len(own) = n
    BY <1>4, <2>1, SeqDef
  <2> QED
    BY <1>4, <2>2
<1> HIDE DEF own
<1>7. PICK h : IsExecution(h, b, q)
  BY <1>1, <1>2, TransferFold
<1>8. PICK g : AddsUp(g, own)
  BY <1>6, TotalFold
<1>9. /\ h[0] = b /\ h[n] = FoldLeft(Transfer, b, q)
      /\ \A k \in 0 .. n : h[k] \in Balances
      /\ \A k \in 1 .. n : h[k] = Transfer(h[k - 1], q[k])
  BY <1>7 DEF IsExecution
<1>10. /\ g[0] = 0 /\ g[n] = Total(own)
       /\ \A k \in 0 .. n : g[k] \in Int
       /\ \A k \in 1 .. n : g[k] = g[k - 1] + Own(q[k])
  BY <1>6, <1>8 DEF AddsUp
<1>11. Coins(b) \in Int
  <2>1. Purse(b) \in Seq(Int) /\ Coins(b) = Total(Purse(b))
    BY PurseIs
  <2>2. 0 \in Int
    OBVIOUS
  <2> QED
    BY <2>1, <2>2, TotalAppend
<1> HIDE DEF n
<1> DEFINE E == {k \in 0 .. n : Coins(h[k]) = Coins(b) + g[k]}
           id == [k \in 0 .. n |-> k]
<1>12. 0 \in E
  BY <1>4, <1>9, <1>10, <1>11
<1>13. ASSUME NEW k \in 1 .. n, k - 1 \in E PROVE k \in E
  <2>1. k \in 0 .. n /\ k - 1 \in 0 .. n
    BY <1>4
  <2>2. /\ h[k - 1] \in Balances /\ Executable(q[k]) /\ q[k].value \in Int
        /\ ~ Halfway(q[k].value)
    BY <1>2, <1>4, <1>9, <2>1
  <2>3. Coins(Transfer(h[k - 1], q[k])) = Coins(h[k - 1]) + Own(q[k])
    BY <2>2, CoinsTransfer
  <2>4. Coins(h[k - 1]) = Coins(b) + g[k - 1]
    BY <1>13
  <2>5. g[k - 1] \in Int /\ Own(q[k]) \in Int /\ g[k] = g[k - 1] + Own(q[k])
    BY <1>5, <1>10, <2>1
  <2>6. Coins(h[k]) = Coins(b) + g[k]
    BY <1>9, <1>11, <2>3, <2>4, <2>5
  <2> QED
    BY <2>1, <2>6
<1>14. \A k \in 0 .. n : id[k] \in E
  <2>1. id[0] \in E /\ \A k \in 1 .. n : id[k - 1] \in E => id[k] \in E
    <3>1. \A k \in 1 .. n : k - 1 \in 0 .. n /\ k \in 0 .. n
      BY <1>4
    <3> HIDE DEF E
    <3> QED
      BY <1>4, <1>12, <1>13, <3>1
  <2> HIDE DEF E, id
  <2> QED
    BY <1>4, <2>1, Along
<1>15. n \in 0 .. n /\ n \in E
  BY <1>4, <1>14
<1>16. Coins(h[n]) = Coins(b) + g[n] /\ g[n] \in Int
  BY <1>10, <1>15
<1> QED
  BY <1>3, <1>9, <1>10, <1>11, <1>16

=============================================================================
