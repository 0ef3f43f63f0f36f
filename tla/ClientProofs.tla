------------------------------ MODULE ClientProofs ------------------------------
(***************************************************************************)
(* Proofs about the client, for every number of coin nodes, users, runs of *)
(* GenUser, transactions and faults.                                       *)
(***************************************************************************)
EXTENDS Client, FoldProofs, SequenceTheorems, TLAPS

-----------------------------------------------------------------------------
(***************************************************************************)
(* The inductive invariant.                                                *)
(***************************************************************************)
Addresses == {AddressOf(k) : k \in Keys}
Records == [priv : {PrivateHex(k) : k \in Keys}, addr : Addresses]
Receipts == [no : Nat, ok : BOOLEAN]

IsSequence(q) == \E S : q \in Seq(S)

Typed ==
    /\ at \in {"ended", "read", "put", "line", "send"}
    /\ step \in Nat \ {0}
    /\ todo \in Seq(Keys)
    /\ at \in {"put", "line"} => step <= Len(todo)
    /\ file \in Seq(Records)
    /\ gens \in 0 .. MaxGens
    /\ made \in [1 .. MaxGens -> SUBSET Addresses]
    /\ unwritten \subseteq Addresses
    /\ IsSequence(sent)
    /\ at = "send" => step <= Len(NodeAddr) /\ sent # <<>>
    /\ status \in [Nodes -> {"up", "down", "hung"}]
    /\ known \in [Nodes -> SUBSET Addresses]
    /\ readGens \in [Nodes -> SUBSET (1 .. gens)]
    /\ received \in [Nodes -> Seq(Receipts)]
    /\ steady \subseteq Nodes
    /\ faults \in 0 .. MaxFaults

\* The addresses in the file, and the one whose line is to be written next.
Listed == {file[i].addr : i \in 1 .. Len(file)}
Pending == IF at = "line" THEN {Pair.addr} ELSE {}

\* What GenUser has made is in the file, but for accounts that a kill has lost.
Written ==
    /\ \A g \in 1 .. MaxGens : g > gens => made[g] = {}
    /\ gens > 0 => made[gens] \subseteq Listed \cup unwritten \cup Pending
    /\ at \in {"put", "line"} => gens > 0 /\ \A n \in Nodes : gens \notin readGens[n]

\* A node knows the accounts of the files it has read.
Known ==
    /\ \A a \in DOMAIN key : \E g \in 1 .. gens : a \in made[g]
    /\ \A n \in Nodes : \A g \in readGens[n] : made[g] \subseteq known[n] \cup unwritten

\* The numbers of the transactions a node got, against those sent to it so far.
Ordered ==
    /\ \A n \in Nodes : \A i \in 1 .. Len(received[n]) :
          /\ received[n][i].no \in 1 .. Len(sent)
          /\ \A j \in 1 .. Len(received[n]) : i < j => received[n][i].no < received[n][j].no
    /\ at = "send" =>
          \A j \in step .. Len(NodeAddr) : \A i \in 1 .. Len(received[NodeAddr[j]]) :
              received[NodeAddr[j]][i].no < Len(sent)

Got(n, t) == \E i \in 1 .. Len(received[n]) : received[n][i].no = t

\* The turn of node n in the loop of SendTransx is still to come.
Turn(n) == at = "send" /\ \E j \in step .. Len(NodeAddr) : NodeAddr[j] = n

\* A node that stays up gets everything, unless the program is killed.
Complete ==
    \A n \in steady :
        /\ sent # <<>> => status[n] = "up"
        /\ \A t \in 1 .. Len(sent) : Got(n, t) \/ t \in cut \/ (t = Len(sent) /\ Turn(n))

Inv == Typed /\ Written /\ Known /\ Ordered /\ Complete

\* An address and the text of its private key.
IsPair(a, text) == \E k \in Keys : a = AddressOf(k) /\ text = PrivateHex(k)

\* What is written of an account, and where its key is.
Kept ==
    /\ \A a \in DOMAIN key : IsPair(a, key[a])
    /\ at = "line" => AddressOf(todo[step]) \in DOMAIN key
    /\ Listed \subseteq DOMAIN key
    /\ \A n \in Nodes : known[n] \subseteq DOMAIN key

\* What was signed verifies, and so it did at the nodes.
Verified ==
    /\ \A t \in 1 .. Len(sent) : ValidateSignature(sent[t])
    /\ \A n \in Nodes : \A i \in 1 .. Len(received[n]) : received[n][i].ok

KeyInv == Kept /\ Verified

-----------------------------------------------------------------------------
(***************************************************************************)
(* Sequences that grow.                                                    *)
(***************************************************************************)
\* One more element.
LEMMA AppendOne ==
  ASSUME NEW S, NEW q \in Seq(S), NEW e \in S
  PROVE  /\ Append(q, e) \in Seq(S)
         /\ Len(Append(q, e)) = Len(q) + 1
         /\ Len(q) \in Nat
         /\ \A i \in 1 .. Len(q) : Append(q, e)[i] = q[i]
         /\ Append(q, e)[Len(q) + 1] = e
         /\ Append(q, e) # <<>>
  OBVIOUS

\* A sequence of whatever elements has a length, and is longer by one that is
\* appended.
LEMMA AppendAny ==
  ASSUME NEW q, IsSequence(q), NEW e
  PROVE  /\ Len(q) \in Nat
         /\ IsSequence(Append(q, e))
         /\ Len(Append(q, e)) = Len(q) + 1
         /\ Append(q, e) # <<>>
         /\ q # <<>> <=> Len(q) > 0
         /\ \A i \in 1 .. Len(q) : Append(q, e)[i] = q[i]
         /\ Append(q, e)[Len(q) + 1] = e
<1>1. PICK S : q \in Seq(S)
  BY DEF IsSequence
<1>2. q \in Seq(S \cup {e}) /\ e \in S \cup {e}
  BY <1>1, SeqDef
<1>3. /\ Append(q, e) \in Seq(S \cup {e})
      /\ Len(Append(q, e)) = Len(q) + 1
      /\ Append(q, e) # <<>>
      /\ Len(q) \in Nat
      /\ q # <<>> <=> Len(q) > 0
      /\ \A i \in 1 .. Len(q) : Append(q, e)[i] = q[i]
      /\ Append(q, e)[Len(q) + 1] = e
  BY <1>2, AppendProperties, EmptySeq, LenProperties
<1> QED
  BY <1>3 DEF IsSequence

\* The configuration names every node once.
LEMMA NodesListed ==
  /\ Len(NodeAddr) \in Nat \ {0}
  /\ DOMAIN NodeAddr = 1 .. Len(NodeAddr)
  /\ \A i \in 1 .. Len(NodeAddr) : NodeAddr[i] \in Nodes
  /\ \A i, j \in 1 .. Len(NodeAddr) : NodeAddr[i] = NodeAddr[j] => i = j
  /\ \A n \in Nodes : \E i \in 1 .. Len(NodeAddr) : NodeAddr[i] = n
BY ClientAssumption DEF Nodes

\* The record of a user has the user's address.
LEMMA RecordOf ==
  ASSUME NEW k \in Keys
  PROVE  /\ GenAddr(k).addr = AddressOf(k)
         /\ [priv |-> GenAddr(k).priv, addr |-> GenAddr(k).addr] \in Records
  BY DEF GenAddr, AddressOf, Records, Addresses

\* Init establishes the invariant.
LEMMA InvInit == Init => Inv
<1> SUFFICES ASSUME Init PROVE Inv
  OBVIOUS
<1>1. Typed
  <2>1. IsSequence(<<>>)
    BY DEF IsSequence
  <2> QED
    BY <2>1, ClientAssumption DEF Init, Typed
<1>2. Written
  BY DEF Init, Written
<1>3. Known
  BY DEF Init, Known
<1>4. Ordered
  BY DEF Init, Ordered
<1>5. Complete
  BY DEF Init, Complete
<1> QED
  BY <1>1, <1>2, <1>3, <1>4, <1>5 DEF Inv

-----------------------------------------------------------------------------
(***************************************************************************)
(* The steps.                                                              *)
(***************************************************************************)
\* Steps that send nothing leave what was sent and received alone.
LEMMA TrafficStays ==
  ASSUME Inv, at # "send", at' # "send", UNCHANGED <<sent, received, steady, status, cut>>
  PROVE  Ordered' /\ Complete'
<1>1. Ordered'
  BY DEF Inv, Ordered
<1>2. Complete'
  BY DEF Inv, Complete, Got, Turn
<1> QED
  BY <1>1, <1>2

\* Steps that make no users leave what was made and read alone.
LEMMA UsersStay ==
  ASSUME Inv, at' \notin {"put", "line"}, Pending \subseteq unwritten',
         unwritten \subseteq unwritten',
         UNCHANGED <<key, file, gens, made, known, readGens>>
  PROVE  Written' /\ Known'
<1>1. Listed' = Listed /\ Pending' = {}
  BY DEF Listed, Pending
<1>2. Written'
  BY <1>1 DEF Inv, Written
<1>3. Known'
  BY DEF Inv, Known
<1> QED
  BY <1>2, <1>3

\* The keys that GenUser goes through are keys.
LEMMA TodoIsKeys ==
  ASSUME NEW ks \in NewKeys
  PROVE  LET t == [i \in DOMAIN NodeAddr |-> NodeKey[NodeAddr[i]]] \o <<RewardKey>> \o ks
         IN  t \in Seq(Keys) /\ Len(t) \in Nat \ {0}
<1> DEFINE nks == [i \in DOMAIN NodeAddr |-> NodeKey[NodeAddr[i]]]
<1>1. nks \in Seq(Keys)
  BY NodesListed, ClientAssumption
<1>2. ks \in Seq(Keys)
  BY ClientAssumption DEF NewKeys
<1>3. <<RewardKey>> \in Seq(Keys) /\ Len(<<RewardKey>>) = 1
  BY ClientAssumption
<1> HIDE DEF nks
<1>4. nks \o <<RewardKey>> \in Seq(Keys) /\ Len(nks \o <<RewardKey>>) \in Nat \ {0}
  BY <1>1, <1>3, ConcatProperties, LenProperties
<1>5. /\ nks \o <<RewardKey>> \o ks \in Seq(Keys)
      /\ Len(nks \o <<RewardKey>> \o ks) \in Nat \ {0}
  BY <1>2, <1>4, ConcatProperties, LenProperties
<1> QED
  BY <1>5 DEF nks

\* GenUser keeps the invariant.
LEMMA GenUserInv == ASSUME Inv, GenUser PROVE Inv'
<1>1. /\ at = "read" /\ at' = "put"
      /\ gens < MaxGens
      /\ file' = <<>>
      /\ gens' = gens + 1
      /\ step' = 1
      /\ UNCHANGED <<key, made, unwritten, sent, status, known, readGens, received,
                     steady, cut, faults>>
  BY DEF GenUser, nodeVars
<1>2. todo' \in Seq(Keys) /\ Len(todo') \in Nat \ {0}
  <2>1. PICK ks \in NewKeys :
           todo' = [i \in DOMAIN NodeAddr |-> NodeKey[NodeAddr[i]]] \o <<RewardKey>> \o ks
    BY DEF GenUser
  <2> QED
    BY <2>1, TodoIsKeys
<1>3. gens \in 0 .. MaxGens /\ MaxGens \in Nat /\ gens' \in 1 .. MaxGens /\ gens' = gens + 1
  BY <1>1, ClientAssumption DEF Inv, Typed
<1>4. \A n \in Nodes : readGens[n] \subseteq 1 .. gens
  BY DEF Inv, Typed
<1>5. Typed'
  <2>1. file' \in Seq(Records)
    BY <1>1
  <2>2. 1 .. gens \subseteq 1 .. gens' /\ gens' \in 0 .. MaxGens
    BY <1>3
  <2>3. readGens' \in [Nodes -> SUBSET (1 .. gens')]
    BY <1>1, <2>2 DEF Inv, Typed
  <2> QED
    BY <1>1, <1>2, <2>1, <2>2, <2>3 DEF Inv, Typed
<1>6. Written'
  <2>1. \A g \in 1 .. MaxGens : g > gens => made[g] = {}
    BY DEF Inv, Written
  <2>2. \A g \in 1 .. MaxGens : g > gens' => made[g] = {}
    BY <1>3, <2>1
  <2>3. made[gens'] = {} /\ gens' > 0 /\ gens' \notin 1 .. gens
    BY <1>3, <2>1
  <2> QED
    BY <1>1, <1>4, <2>2, <2>3 DEF Written
<1>7. Known'
  <2>1. 1 .. gens \subseteq 1 .. gens'
    BY <1>3
  <2> QED
    BY <1>1, <2>1 DEF Inv, Known
<1>8. Ordered' /\ Complete'
  BY <1>1, TrafficStays
<1> QED
  BY <1>5, <1>6, <1>7, <1>8 DEF Inv

\* PutKey keeps the invariant.
LEMMA PutKeyInv == ASSUME Inv, PutKey PROVE Inv'
<1>1. /\ at = "put" /\ at' = "line"
      /\ DOMAIN key' = DOMAIN key \cup {Pair.addr}
      /\ made' = [made EXCEPT ![gens] = @ \cup {Pair.addr}]
      /\ UNCHANGED <<step, todo, file, gens, unwritten, sent, status, known, readGens,
                     received, steady, cut, faults>>
  BY DEF PutKey, nodeVars
<1>2. /\ Pair.addr \in Addresses /\ Pair' = Pair
      /\ gens \in 1 .. gens /\ gens \in 1 .. MaxGens /\ gens > 0
  <2>1. step \in 1 .. Len(todo) /\ todo[step] \in Keys /\ gens \in 0 .. MaxGens /\ MaxGens \in Nat
    BY <1>1, ClientAssumption DEF Inv, Typed
  <2>2. Pair.addr = AddressOf(todo[step])
    BY DEF Pair, AddressOf
  <2>3. gens > 0
    BY <1>1 DEF Inv, Written
  <2>4. Pair' = Pair
    BY <1>1 DEF Pair
  <2> QED
    BY <2>1, <2>2, <2>3, <2>4 DEF Addresses
<1> DEFINE a == Pair.addr
<1>3. /\ made' \in [1 .. MaxGens -> SUBSET Addresses]
      /\ made'[gens] = made[gens] \cup {a}
      /\ \A g \in 1 .. MaxGens : g # gens => made'[g] = made[g]
  <2>1. made \in [1 .. MaxGens -> SUBSET Addresses] /\ a \in Addresses
    BY <1>2 DEF Inv, Typed
  <2> HIDE DEF a
  <2>2. made' = [made EXCEPT ![gens] = @ \cup {a}]
    BY <1>1 DEF a
  <2> QED
    BY <1>2, <2>1, <2>2
<1>4. Typed'
  BY <1>1, <1>3 DEF Inv, Typed
<1>5. Pending' = {a}
  BY <1>1, <1>2 DEF Pending
<1> HIDE DEF a
<1>6. Written'
  <2>1. Listed' = Listed /\ Pending = {}
    BY <1>1 DEF Listed, Pending
  <2>2. \A g \in 1 .. MaxGens : g > gens => g # gens
    BY <1>2
  <2>3. \A g \in 1 .. MaxGens : g > gens => made'[g] = {}
    BY <1>3, <2>2 DEF Inv, Written
  <2>4. made'[gens] \subseteq Listed' \cup unwritten \cup Pending'
    BY <1>2, <1>3, <1>5, <2>1 DEF Inv, Written
  <2>5. gens > 0 /\ \A n \in Nodes : gens \notin readGens[n]
    BY <1>1 DEF Inv, Written
  <2> QED
    BY <1>1, <2>3, <2>4, <2>5 DEF Written
<1>7. Known'
  <2>1. \A g \in 1 .. gens : g \in 1 .. MaxGens
    <3>1. gens \in Nat /\ MaxGens \in Nat
      BY ClientAssumption DEF Inv, Typed
    <3> QED
      BY <1>2, <3>1
  <2>2. \A x \in DOMAIN key' : \E g \in 1 .. gens : x \in made'[g]
    <3> SUFFICES ASSUME NEW x \in DOMAIN key' PROVE \E g \in 1 .. gens : x \in made'[g]
      OBVIOUS
    <3>1. CASE x = a
      BY <1>2, <1>3, <3>1
    <3>2. CASE x \in DOMAIN key
      <4>1. PICK g \in 1 .. gens : x \in made[g]
        BY <3>2 DEF Inv, Known
      <4>2. x \in made'[g]
        BY <1>3, <2>1, <4>1
      <4> QED
        BY <4>2
    <3> QED
      BY <1>1, <3>1, <3>2 DEF a
  <2>3. ASSUME NEW n \in Nodes, NEW g \in readGens[n] PROVE made'[g] = made[g]
    <3>1. g \in 1 .. gens /\ g # gens
      BY <1>1, <2>3 DEF Inv, Typed, Written
    <3> QED
      BY <1>3, <2>1, <3>1
  <2> QED
    BY <1>1, <2>2, <2>3 DEF Inv, Known
<1>8. Ordered' /\ Complete'
  BY <1>1, TrafficStays
<1> QED
  BY <1>4, <1>6, <1>7, <1>8 DEF Inv

\* WriteLine keeps the invariant: what was pending is in the file.
LEMMA WriteLineInv == ASSUME Inv, WriteLine PROVE Inv'
<1> DEFINE e == [priv |-> Pair.priv, addr |-> Pair.addr]
<1>1. /\ at = "line"
      /\ file' = Append(file, e)
      /\ UNCHANGED <<todo, key, gens, made, unwritten, sent, status, known, readGens,
                     received, steady, cut, faults>>
  BY DEF WriteLine, nodeVars
<1>2. \/ step < Len(todo) /\ at' = "put" /\ step' = step + 1
      \/ ~ (step < Len(todo)) /\ at' = "read" /\ step' = 1
  BY DEF WriteLine
<1>3. /\ step \in 1 .. Len(todo) /\ Len(todo) \in Nat /\ todo[step] \in Keys
      /\ file \in Seq(Records)
  BY <1>1 DEF Inv, Typed
<1>4. e \in Records /\ Pending = {e.addr}
  BY <1>1, <1>3, RecordOf DEF Pair, Pending
<1> HIDE DEF e
<1>5. file' \in Seq(Records) /\ Listed \cup {e.addr} \subseteq Listed'
  <2>1. /\ file' \in Seq(Records)
        /\ Len(file) \in Nat
        /\ Len(file') = Len(file) + 1
        /\ \A i \in 1 .. Len(file) : file'[i] = file[i]
        /\ file'[Len(file) + 1] = e
    BY <1>1, <1>3, <1>4, AppendOne
  <2>2. Len(file) + 1 \in 1 .. Len(file') /\ \A i \in 1 .. Len(file) : i \in 1 .. Len(file')
    BY <2>1
  <2> QED
    BY <2>1, <2>2 DEF Listed
<1>6. Typed'
  <2>1. /\ step' \in Nat \ {0}
        /\ at' \in {"put", "line"} => step' <= Len(todo)
        /\ at' \in {"put", "read"}
    BY <1>2, <1>3
  <2> QED
    BY <1>1, <1>5, <2>1 DEF Inv, Typed
<1>7. Written'
  <2>1. gens > 0 => made[gens] \subseteq Listed' \cup unwritten
    BY <1>4, <1>5 DEF Inv, Written
  <2>2. at' \in {"put", "read"}
    BY <1>2
  <2> QED
    BY <1>1, <2>1, <2>2 DEF Inv, Written
<1>8. Known'
  BY <1>1 DEF Inv, Known
<1>9. Ordered' /\ Complete'
  BY <1>1, <1>2, TrafficStays
<1> QED
  BY <1>6, <1>7, <1>8, <1>9 DEF Inv

\* Submit keeps the invariant: everybody's turn is still to come.
LEMMA SubmitInv == ASSUME Inv, NEW from, NEW to, Submit(from, to) PROVE Inv'
<1>1. /\ at = "read" /\ at' = "send" /\ step' = 1
      /\ steady' = IF sent = <<>> THEN {n \in Nodes : status[n] = "up"} ELSE steady
      /\ UNCHANGED <<todo, key, file, gens, made, unwritten, status, known, readGens,
                     received, cut, faults>>
  BY DEF Submit
<1>2. PICK tx : sent' = Append(sent, tx)
  BY DEF Submit
<1>3. /\ Len(sent) \in Nat
      /\ IsSequence(sent')
      /\ Len(sent') = Len(sent) + 1
      /\ sent' # <<>>
      /\ sent # <<>> <=> Len(sent) > 0
  BY <1>2, AppendAny DEF Inv, Typed
<1>4. Typed'
  BY <1>1, <1>3, NodesListed DEF Inv, Typed
<1>5. Written' /\ Known'
  BY <1>1, UsersStay DEF Pending
<1>6. Ordered'
  <2>1. \A n \in Nodes : received[n] \in Seq(Receipts)
    BY DEF Inv, Typed
  <2>2. \A n \in Nodes : \A i \in 1 .. Len(received[n]) :
           received[n][i].no \in 1 .. Len(sent') /\ received[n][i].no < Len(sent')
    BY <1>3 DEF Inv, Ordered
  <2>3. \A j \in 1 .. Len(NodeAddr) : NodeAddr[j] \in Nodes
    BY NodesListed
  <2> QED
    BY <1>1, <2>2, <2>3 DEF Inv, Ordered
<1>7. Complete'
  <2> SUFFICES ASSUME NEW n \in steady'
               PROVE  /\ status'[n] = "up"
                      /\ \A t \in 1 .. Len(sent') :
                            Got(n, t)' \/ t \in cut' \/ (t = Len(sent') /\ Turn(n)')
    BY DEF Complete
  <2>1. n \in Nodes /\ status'[n] = "up"
    BY <1>1 DEF Inv, Typed, Complete
  <2>2. Turn(n)'
    BY <1>1, <2>1, NodesListed DEF Turn
  <2>3. ASSUME NEW t \in 1 .. Len(sent)
        PROVE  Got(n, t)' \/ t \in cut'
    <3>1. sent # <<>> /\ n \in steady
      BY <1>1, <1>3
    <3>2. ~ Turn(n)
      BY <1>1 DEF Turn
    <3>3. Got(n, t) \/ t \in cut
      BY <3>1, <3>2 DEF Inv, Complete
    <3> QED
      BY <1>1, <3>3 DEF Got
  <2>4. \A t \in 1 .. Len(sent') : t \in 1 .. Len(sent) \/ t = Len(sent')
    BY <1>3
  <2> QED
    BY <2>1, <2>2, <2>3, <2>4
<1> QED
  BY <1>4, <1>5, <1>6, <1>7 DEF Inv

\* Where the loop of SendTransx goes.
LEMMA NextNodeIs ==
  ASSUME Inv, at = "send", NextNode
  PROVE  /\ step \in 1 .. Len(NodeAddr)
         /\ step' \in Nat \ {0}
         /\ at' \in {"send", "read"}
         /\ at' = "send" => step' = step + 1 /\ step' <= Len(NodeAddr)
         /\ at' = "read" => step = Len(NodeAddr)
         /\ UNCHANGED <<todo, key, file, gens, made, unwritten, sent, status, known,
                        readGens, steady, cut, faults>>
<1>1. step \in Nat \ {0} /\ step <= Len(NodeAddr) /\ Len(NodeAddr) \in Nat \ {0}
  BY NodesListed DEF Inv, Typed
<1>2. UNCHANGED <<todo, key, file, gens, made, unwritten, sent, status, known,
                  readGens, steady, cut, faults>>
  BY DEF NextNode
<1>3. \/ step < Len(NodeAddr) /\ step' = step + 1 /\ at' = at
      \/ ~ (step < Len(NodeAddr)) /\ step' = 1 /\ at' = "read"
  BY DEF NextNode
<1> QED
  BY <1>1, <1>2, <1>3

\* A node that is not the one whose turn it is keeps its turn.
LEMMA TurnStays ==
  ASSUME Inv, at = "send", NextNode, NEW n, n # NodeAddr[step], Turn(n)
  PROVE  Turn(n)'
<1>1. PICK j \in step .. Len(NodeAddr) : NodeAddr[j] = n
  BY DEF Turn
<1>2. j # step /\ j \in (step + 1) .. Len(NodeAddr) /\ step < Len(NodeAddr)
  BY <1>1, NextNodeIs, NodesListed
<1>3. at' = "send" /\ step' = step + 1
  BY <1>2, NextNodeIs
<1> QED
  BY <1>1, <1>2, <1>3 DEF Turn

\* SendFails keeps the invariant: a node that is down has not been up all the time.
LEMMA SendFailsInv == ASSUME Inv, SendFails PROVE Inv'
<1>1. at = "send" /\ status[NodeAddr[step]] = "down" /\ NextNode /\ received' = received
  BY DEF SendFails
<1>2. Typed'
  BY <1>1, NextNodeIs DEF Inv, Typed
<1>3. Written' /\ Known'
  BY <1>1, NextNodeIs, UsersStay DEF Pending
<1>4. Ordered'
  <2>1. ASSUME at' = "send", NEW j \in step' .. Len(NodeAddr)
        PROVE  j \in step .. Len(NodeAddr)
    BY <1>1, <2>1, NextNodeIs, NodesListed
  <2>2. sent' = sent
    BY <1>1, NextNodeIs
  <2> QED
    BY <1>1, <2>1, <2>2 DEF Inv, Ordered
<1>5. Complete'
  <2>1. sent # <<>>
    BY <1>1 DEF Inv, Typed
  <2>2. ASSUME NEW n \in steady PROVE n # NodeAddr[step]
    BY <1>1, <2>1 DEF Inv, Complete
  <2>3. ASSUME NEW n \in steady, NEW t \in 1 .. Len(sent)
        PROVE  Got(n, t)' \/ t \in cut \/ (t = Len(sent) /\ Turn(n)')
    <3>1. Got(n, t) \/ t \in cut \/ (t = Len(sent) /\ Turn(n))
      BY DEF Inv, Complete
    <3> QED
      BY <1>1, <2>2, <3>1, TurnStays DEF Got
  <2> QED
    BY <1>1, <2>3, NextNodeIs DEF Inv, Complete
<1> QED
  BY <1>2, <1>3, <1>4, <1>5 DEF Inv

\* SendTransx keeps the invariant: the node gets a number larger than it had.
LEMMA SendTransxInv == ASSUME Inv, SendTransx PROVE Inv'
<1> DEFINE n == NodeAddr[step]
           e == [no |-> Len(sent), ok |-> ValidateSignature(Last(sent))]
<1>1. at = "send" /\ NextNode /\ received' = [received EXCEPT ![n] = Append(@, e)]
  BY DEF SendTransx
<1>2. n \in Nodes /\ received[n] \in Seq(Receipts) /\ received \in [Nodes -> Seq(Receipts)]
  BY <1>1, NextNodeIs, NodesListed DEF Inv, Typed
<1>3. Len(sent) \in Nat \ {0} /\ sent # <<>>
  BY <1>1, AppendAny DEF Inv, Typed
<1>4. e \in Receipts /\ e.no = Len(sent)
  BY <1>3 DEF Receipts, ValidateSignature, ECDSA_verify
<1> HIDE DEF e
<1>5. /\ received'[n] = Append(received[n], e)
      /\ \A m \in Nodes : m # n => received'[m] = received[m]
  BY <1>1, <1>2
<1>6. /\ received'[n] \in Seq(Receipts)
      /\ Len(received[n]) \in Nat
      /\ Len(received'[n]) = Len(received[n]) + 1
      /\ \A i \in 1 .. Len(received[n]) : received'[n][i] = received[n][i]
      /\ received'[n][Len(received[n]) + 1].no = Len(sent)
  BY <1>2, <1>4, <1>5, AppendOne
<1>7. Typed'
  <2>1. received' \in [Nodes -> Seq(Receipts)]
    BY <1>1, <1>2, <1>6
  <2> HIDE DEF n
  <2> QED
    BY <1>1, <2>1, NextNodeIs DEF Inv, Typed
<1>8. Written' /\ Known'
  BY <1>1, NextNodeIs, UsersStay DEF Pending
<1>9. Ordered'
  <2>1. \A i \in 1 .. Len(received[n]) : received[n][i].no < Len(sent) /\ received[n][i].no \in 1 .. Len(sent)
    BY SMTT(30), <1>1, <1>2, NextNodeIs DEF Inv, Ordered
  <2>2. \A i \in 1 .. Len(received'[n]) : i \in 1 .. Len(received[n]) \/ i = Len(received[n]) + 1
    BY <1>6
  <2>3. \A i \in 1 .. Len(received'[n]) :
          /\ received'[n][i].no \in 1 .. Len(sent)
          /\ \A j \in 1 .. Len(received'[n]) : i < j => received'[n][i].no < received'[n][j].no
    <3> SUFFICES ASSUME NEW i \in 1 .. Len(received'[n])
                 PROVE  /\ received'[n][i].no \in 1 .. Len(sent)
                        /\ \A j \in 1 .. Len(received'[n]) : i < j => received'[n][i].no < received'[n][j].no
      OBVIOUS
    <3>1. CASE i = Len(received[n]) + 1
      BY SMTT(30), <1>3, <1>6, <3>1
    <3>2. CASE i \in 1 .. Len(received[n])
      <4>1. received'[n][i] = received[n][i] /\ received[n][i].no \in 1 .. Len(sent)
        BY <1>6, <2>1, <3>2
      <4>2. ASSUME NEW j \in 1 .. Len(received'[n]), i < j
            PROVE  received'[n][i].no < received'[n][j].no
        <5>1. CASE j = Len(received[n]) + 1
          BY <1>6, <2>1, <3>2, <4>1, <5>1
        <5>2. CASE j \in 1 .. Len(received[n])
          <6>1. received'[n][j] = received[n][j]
            BY <1>6, <5>2
          <6>2. received[n][i].no < received[n][j].no
            BY <1>2, <3>2, <4>2, <5>2 DEF Inv, Ordered
          <6> QED
            BY <4>1, <6>1, <6>2
        <5> QED
          BY <2>2, <5>1, <5>2
      <4> QED
        BY <4>1, <4>2
    <3> QED
      BY <2>2, <3>1, <3>2
  <2>4. ASSUME at' = "send", NEW j \in step' .. Len(NodeAddr)
        PROVE  /\ NodeAddr[j] # n
               /\ NodeAddr[j] \in Nodes
               /\ j \in step .. Len(NodeAddr)
    BY <1>1, <2>4, NextNodeIs, NodesListed
  <2>5. ASSUME NEW m \in Nodes
        PROVE  \A i \in 1 .. Len(received'[m]) :
                 /\ received'[m][i].no \in 1 .. Len(sent')
                 /\ \A j \in 1 .. Len(received'[m]) : i < j => received'[m][i].no < received'[m][j].no
    <3>1. sent' = sent
      BY <1>1, NextNodeIs
    <3>2. CASE m = n
      BY <2>3, <3>1, <3>2
    <3>3. CASE m # n
      BY <1>5, <3>1, <3>3 DEF Inv, Ordered
    <3> QED
      BY <3>2, <3>3
  <2>6. ASSUME at' = "send", NEW j \in step' .. Len(NodeAddr)
        PROVE  \A i \in 1 .. Len(received'[NodeAddr[j]]) : received'[NodeAddr[j]][i].no < Len(sent')
    <3>1. sent' = sent /\ received'[NodeAddr[j]] = received[NodeAddr[j]] /\ j \in step .. Len(NodeAddr)
      BY <1>1, <1>5, <2>4, <2>6, NextNodeIs
    <3> QED
      BY <1>1, <3>1 DEF Inv, Ordered
  <2> QED
    BY <2>5, <2>6 DEF Ordered
<1>10. Complete'
  <2>1. ASSUME NEW m \in steady, NEW t \in 1 .. Len(sent)
        PROVE  Got(m, t)' \/ t \in cut \/ (t = Len(sent) /\ Turn(m)')
    <3>1. Got(m, t) \/ t \in cut \/ (t = Len(sent) /\ Turn(m))
      BY DEF Inv, Complete
    <3>2. m \in Nodes
      BY DEF Inv, Typed
    <3>3. ASSUME Got(m, t) PROVE Got(m, t)'
      <4>1. CASE m # n
        BY <1>5, <3>2, <3>3, <4>1 DEF Got
      <4>2. CASE m = n
        BY SMTT(30), <1>6, <3>3, <4>2 DEF Got
      <4> QED
        BY <4>1, <4>2
    <3>4. ASSUME m = n PROVE Got(m, Len(sent))'
      <4>1. sent' = sent
        BY <1>1, NextNodeIs
      <4>2. \E i \in 1 .. Len(received'[m]) : received'[m][i].no = Len(sent)
        BY <1>6, <3>4
      <4> QED
        BY <4>1, <4>2 DEF Got
    <3>5. ASSUME m # n, Turn(m) PROVE Turn(m)'
      BY <1>1, <3>5, TurnStays
    <3>6. sent' = sent
      BY <1>1, NextNodeIs
    <3>7. m = n /\ t = Len(sent) => Got(m, t)'
      BY <3>4, <3>6 DEF Got
    <3> QED
      BY <3>1, <3>3, <3>5, <3>7
  <2> QED
    BY <1>1, <2>1, NextNodeIs DEF Inv, Complete
<1> QED
  BY <1>7, <1>8, <1>9, <1>10 DEF Inv

\* The end of the program and its start keep the invariant.
LEMMA QuitInv == ASSUME Inv, Quit \/ Start PROVE Inv'
<1>1. /\ at' \in {"ended", "read"}
      /\ step' \in Nat \ {0}
      /\ faults' \in 0 .. MaxFaults
      /\ cut \subseteq cut'
      /\ at = "send" => Len(sent) \in cut'
      /\ unwritten' = unwritten \cup Pending
      /\ UNCHANGED <<todo, key, file, gens, made, sent, status, known, readGens,
                     received, steady>>
  <2>1. step \in Nat \ {0} /\ faults \in 0 .. MaxFaults /\ MaxFaults \in Nat
    BY ClientAssumption DEF Inv, Typed
  <2>2. CASE Start
    BY <2>1, <2>2 DEF Start, nodeVars, Pending
  <2>3. CASE Quit
    <3>1. /\ at' = "ended" /\ step' = step /\ faults' = faults + 1 /\ faults < MaxFaults
          /\ cut' = IF at = "send" THEN cut \cup {Len(sent)} ELSE cut
          /\ unwritten' = unwritten \cup Pending
          /\ UNCHANGED <<todo, key, file, gens, made, sent, status, known, readGens,
                         received, steady>>
      BY <2>3 DEF Quit, nodeVars, Pending
    <3> QED
      BY <2>1, <3>1
  <2> QED
    BY <2>2, <2>3
<1>2. Typed'
  <2>1. Pending \subseteq Addresses
    <3>1. ASSUME at = "line" PROVE Pair.addr \in Addresses
      <4>1. todo[step] \in Keys /\ Pair.addr = AddressOf(todo[step])
        BY <3>1 DEF Inv, Typed, Pair, AddressOf
      <4> QED
        BY <4>1 DEF Addresses
    <3> QED
      BY <3>1 DEF Pending
  <2> QED
    BY <1>1, <2>1 DEF Inv, Typed
<1>3. Written' /\ Known'
  BY <1>1, UsersStay
<1>4. Ordered'
  BY <1>1 DEF Inv, Ordered
<1>5. Complete'
  BY <1>1 DEF Inv, Complete, Got, Turn
<1> QED
  BY <1>2, <1>3, <1>4, <1>5 DEF Inv

\* The start of a coin node keeps the invariant: the file is read.
LEMMA StartNodeInv == ASSUME Inv, NEW n \in Nodes, StartNode(n) PROVE Inv'
<1>1. /\ status[n] = "down"
      /\ status' = [status EXCEPT ![n] = "up"]
      /\ known' = [known EXCEPT ![n] = @ \cup {file[i].addr : i \in DOMAIN file}]
      /\ readGens' = [readGens EXCEPT ![n] = @ \cup Closed]
      /\ UNCHANGED <<at, step, todo, key, file, gens, made, unwritten, sent, cut, received,
                     steady, faults>>
  BY Zenon DEF StartNode, clientVars
<1>2. {file[i].addr : i \in DOMAIN file} = Listed
  <2>1. DOMAIN file = 1 .. Len(file)
    BY DEF Inv, Typed
  <2> QED
    BY <2>1 DEF Listed
<1>3. Listed \subseteq Addresses
  <2>1. ASSUME NEW i \in 1 .. Len(file) PROVE file[i].addr \in Addresses
    <3>1. file[i] \in Records
      BY DEF Inv, Typed
    <3> QED
      BY <3>1 DEF Records
  <2> QED
    BY <2>1 DEF Listed
<1>4. /\ known' \in [Nodes -> SUBSET Addresses]
      /\ known'[n] = known[n] \cup Listed
      /\ \A m \in Nodes : known[m] \subseteq known'[m]
  BY <1>1, <1>2, <1>3 DEF Inv, Typed
<1>5. /\ Closed \subseteq 1 .. gens
      /\ Closed # {} => Closed = {gens} /\ gens > 0 /\ at \notin {"put", "line"}
  BY DEF Inv, Typed, Closed
<1>6. /\ readGens' \in [Nodes -> SUBSET (1 .. gens)]
      /\ readGens'[n] = readGens[n] \cup Closed
      /\ \A m \in Nodes : m # n => readGens'[m] = readGens[m]
  BY <1>1, <1>5 DEF Inv, Typed
<1>7. Typed'
  BY <1>1, <1>4, <1>6 DEF Inv, Typed
<1>8. Written'
  <2>1. Listed' = Listed /\ Pending' = Pending
    BY <1>1 DEF Listed, Pending, Pair
  <2>2. at \in {"put", "line"} => \A m \in Nodes : readGens'[m] = readGens[m]
    BY <1>5, <1>6
  <2> QED
    BY <1>1, <2>1, <2>2 DEF Inv, Written
<1>9. Known'
  <2>1. ASSUME NEW m \in Nodes, NEW g \in readGens'[m]
        PROVE  made[g] \subseteq known'[m] \cup unwritten
    <3>1. CASE g \in readGens[m]
      BY <1>4, <3>1 DEF Inv, Known
    <3>2. CASE m = n /\ g \in Closed
      <4>1. g = gens /\ gens > 0 /\ Pending = {}
        BY <1>5, <3>2 DEF Pending
      <4>2. made[gens] \subseteq Listed \cup unwritten
        BY <4>1 DEF Inv, Written
      <4> QED
        BY <1>4, <3>2, <4>1, <4>2
    <3> QED
      BY <1>6, <2>1, <3>1, <3>2
  <2> QED
    BY <1>1, <2>1 DEF Inv, Known
<1>10. Ordered'
  BY <1>1 DEF Inv, Ordered
<1>11. Complete'
  BY <1>1 DEF Inv, Typed, Complete, Got, Turn
<1> QED
  BY <1>7, <1>8, <1>9, <1>10, <1>11 DEF Inv

\* A node that fails is no longer one that has been up all the time.
LEMMA FailNodeInv ==
  ASSUME Inv, NEW n \in Nodes, FailNode(n, "down") \/ FailNode(n, "hung")
  PROVE  Inv'
<1>1. /\ \E s \in {"down", "hung"} : status' = [status EXCEPT ![n] = s]
      /\ steady' = steady \ {n}
      /\ faults' \in 0 .. MaxFaults
      /\ UNCHANGED <<at, step, todo, key, file, gens, made, unwritten, sent, cut, known, readGens,
                     received>>
  BY SMTT(30), ClientAssumption DEF FailNode, clientVars, Inv, Typed
<1>2. Typed'
  BY <1>1 DEF Inv, Typed
<1>3. Written' /\ Known'
  <2>1. Listed' = Listed /\ Pending' = Pending
    BY <1>1 DEF Listed, Pending, Pair
  <2> QED
    BY <1>1, <2>1 DEF Inv, Written, Known
<1>4. Ordered'
  BY <1>1 DEF Inv, Ordered
<1>5. Complete'
  BY <1>1 DEF Inv, Typed, Complete, Got, Turn
<1> QED
  BY <1>2, <1>3, <1>4, <1>5 DEF Inv

\* Every step keeps the invariant.
LEMMA InvStep == Inv /\ [Next]_vars => Inv'
<1> SUFFICES ASSUME Inv, [Next]_vars PROVE Inv'
  OBVIOUS
<1>1. CASE GenUser
  BY <1>1, GenUserInv
<1>2. CASE Working
  BY <1>2, PutKeyInv, WriteLineInv, SendTransxInv, SendFailsInv DEF Working
<1>3. ASSUME NEW from \in DOMAIN key, NEW to \in Recipients, Submit(from, to) PROVE Inv'
  BY <1>3, SubmitInv
<1>4. CASE Quit \/ Start
  BY <1>4, QuitInv
<1>5. ASSUME NEW n \in Nodes, StartNode(n) PROVE Inv'
  BY <1>5, StartNodeInv
<1>6. ASSUME NEW n \in Nodes, FailNode(n, "down") \/ FailNode(n, "hung") PROVE Inv'
  BY <1>6, FailNodeInv
<1>7. CASE UNCHANGED vars
  <2>1. Typed' /\ Ordered'
    BY <1>7 DEF vars, Inv, Typed, Ordered
  <2>2. Listed' = Listed /\ Pending' = Pending
    BY <1>7 DEF vars, Listed, Pending, Pair
  <2>3. Written' /\ Known'
    BY <1>7, <2>2 DEF vars, Inv, Written, Known
  <2>4. Complete'
    BY <1>7 DEF vars, Inv, Complete, Got, Turn
  <2> QED
    BY <2>1, <2>3, <2>4 DEF Inv
<1> QED
  BY <1>1, <1>2, <1>3, <1>4, <1>5, <1>6, <1>7 DEF Next

\* The invariant holds throughout.
LEMMA AlwaysInv == Spec => []Inv
  BY InvInit, InvStep, PTL DEF Spec

-----------------------------------------------------------------------------
(***************************************************************************)
(* Keys, addresses and signatures come through their texts unchanged.      *)
(***************************************************************************)
\* Hex is read back by Unhex.
LEMMA HexRead ==
  ASSUME NEW bytes \in Seq(Bytes)
  PROVE  /\ Unhex(Hex(bytes)) = bytes
         /\ Hex(bytes) \in Seq(Nat)
         /\ Len(Hex(bytes)) = 2 * Len(bytes)
         /\ \A i \in 1 .. Len(bytes) :
               Hex(bytes)[2 * i - 1] * HexBase + Hex(bytes)[2 * i] = bytes[i]
<1> DEFINE text == Hex(bytes)
<1>1. text = FlattenSeq([i \in DOMAIN bytes |-> <<bytes[i] \div HexBase, bytes[i] % HexBase>>])
  BY DEF Hex
<1>2. HexBase \in Nat /\ HexBase > 0 /\ bytes \in Seq(0 .. HexBase * HexBase - 1)
  BY SigningAssumption DEF Bytes
<1> HIDE DEF text
<1>3. /\ text \in Seq(0 .. HexBase - 1)
      /\ Len(text) = 2 * Len(bytes)
      /\ [i \in 1 .. (Len(text) \div 2) |-> text[2 * i - 1] * HexBase + text[2 * i]] = bytes
  BY <1>1, <1>2, BytesRead
<1>4. text \in Seq(Nat)
  BY <1>2, <1>3
<1>5. Unhex(text) = bytes
  BY <1>3, Zenon DEF Unhex
<1>6. ASSUME NEW i \in 1 .. Len(bytes) PROVE text[2 * i - 1] * HexBase + text[2 * i] = bytes[i]
  <2>1. Len(text) \div 2 = Len(bytes)
    BY <1>3
  <2> QED
    BY <1>3, <2>1, Zenon
<1> QED
  BY <1>3, <1>4, <1>5, <1>6 DEF text

\* A private key is one byte or two.
LEMMA KeyBytes ==
  ASSUME NEW k \in Keys
  PROVE  LET B == HexBase * HexBase
         IN  /\ k \in Nat /\ B \in Nat /\ B > 4 /\ Bytes = 0 .. B - 1
             /\ k \div B \in Bytes /\ k % B \in Bytes
             /\ k = (k \div B) * B + (k % B)
<1> DEFINE B == HexBase * HexBase
<1>1. k \in Nat /\ HexBase \in Nat /\ HexBase >= 3 /\ k \div B \in Bytes
  BY SigningAssumption
<1>2. B \in Nat /\ B > 4
  <2>1. HexBase * HexBase \in Nat
    BY <1>1
  <2>2. HexBase * HexBase >= 3 * 3
    BY <1>1, ProductGrows
  <2> QED
    BY <2>1, <2>2
<1>3. Bytes = 0 .. B - 1
  BY DEF Bytes
<1>4. k % B \in 0 .. B - 1 /\ k = (k \div B) * B + (k % B)
  <2> HIDE DEF B
  <2> QED
    BY <1>1, <1>2, DivMod
<1> QED
  BY <1>1, <1>2, <1>3, <1>4

\* The bytes of a public key.
LEMMA PointRead ==
  ASSUME NEW k \in Keys
  PROVE  Unhex(GenAddr(k).addr) = Point(k)
<1> DEFINE B == HexBase * HexBase
<1>1. k \div B \in Bytes /\ k % B \in Bytes /\ 4 \in Bytes
  <2>1. B \in Nat /\ B > 4 /\ Bytes = 0 .. B - 1
    BY KeyBytes
  <2>2. 4 \in Bytes
    <3> HIDE DEF B
    <3> QED
      BY <2>1
  <2> QED
    BY <2>2, KeyBytes
<1>2. Point(k) = <<4, k \div B, k % B>>
  BY DEF Point
<1> HIDE DEF B
<1>3. Point(k) \in Seq(Bytes)
  BY <1>1, <1>2
<1>4. GenAddr(k).addr = Hex(Point(k))
  BY DEF GenAddr
<1> QED
  BY <1>3, <1>4, HexRead

\* A private key is the number its text says.
LEMMA KeyRead ==
  ASSUME NEW k \in Keys
  PROVE  HexToPrivate(GenAddr(k).priv) = k
<1> DEFINE B == HexBase * HexBase
<1>1. ASSUME NEW bytes \in Seq(Bytes)
      PROVE  /\ Len(bytes) = 1 => HexToPrivate(Hex(bytes)) = bytes[1]
             /\ Len(bytes) = 2 => HexToPrivate(Hex(bytes)) = bytes[1] * B + bytes[2]
  <2>1. HexBase \in Nat /\ bytes \in Seq(Nat)
    BY SigningAssumption DEF Bytes
  <2> QED
    BY <2>1, HexRead, NumberRead DEF HexToPrivate
<1>2. GenAddr(k).priv = IF k \in Bytes THEN Hex(<<k>>) ELSE Hex(<<k \div B, k % B>>)
  BY DEF GenAddr, PrivateHex
<1>3. k \div B \in Bytes /\ k % B \in Bytes /\ k = (k \div B) * B + (k % B)
  BY KeyBytes
<1> HIDE DEF B
<1>4. CASE k \in Bytes
  <2> DEFINE bytes == <<k>>
  <2>1. bytes \in Seq(Bytes) /\ Len(bytes) = 1 /\ bytes[1] = k
    BY <1>4
  <2>2. GenAddr(k).priv = Hex(bytes)
    BY <1>2, <1>4
  <2> HIDE DEF bytes
  <2> QED
    BY <1>1, <2>1, <2>2
<1>5. CASE k \notin Bytes
  <2> DEFINE bytes == <<k \div B, k % B>>
  <2>1. bytes \in Seq(Bytes) /\ Len(bytes) = 2 /\ bytes[1] = k \div B /\ bytes[2] = k % B
    BY <1>3
  <2>2. GenAddr(k).priv = Hex(bytes)
    BY <1>2, <1>5
  <2> HIDE DEF bytes
  <2> QED
    BY <1>1, <1>3, <2>1, <2>2
<1> QED
  BY <1>4, <1>5

\* A transaction that is signed with the key of the address it is from verifies.
LEMMA SignedVerifies ==
  ASSUME NEW tx, NEW r \in Seq(Bytes), IsPair(tx.from, GetPrivateKey(tx.from))
  PROVE  ValidateSignature(SignateTx(tx, r))
<1>1. PICK k \in Keys : tx.from = AddressOf(k) /\ GetPrivateKey(tx.from) = PrivateHex(k)
  BY DEF IsPair
<1> DEFINE signed == SignateTx(tx, r)
           digest == GetHash(tx)
           part == Leftmost(digest)
<1>2. GetHash(signed) = digest
  BY DEF SignateTx, GetHash
<1>3. signed.from = tx.from /\ signed.signature = CalSignature(tx, PrivateHex(k), r)
  BY <1>1 DEF SignateTx
<1>4. CalSignature(tx, PrivateHex(k), r) = [r |-> Hex(r), s |-> <<r, k, part>>]
  <2>1. HexToPrivate(PrivateHex(k)) = k
    BY KeyRead DEF GenAddr
  <2>2. CalSignature(tx, PrivateHex(k), r) = [[r |-> r, s |-> <<r, k, part>>] EXCEPT !.r = Hex(@)]
    BY <2>1 DEF CalSignature, SigText, ECDSA_sign
  <2> HIDE DEF digest, part
  <2> QED
    BY <2>2
<1>10. part = Leftmost(digest)
  OBVIOUS
<1> HIDE DEF digest, signed, part
<1>5. SigBytes([r |-> Hex(r), s |-> <<r, k, part>>]) = [r |-> r, s |-> <<r, k, part>>]
  <2>1. Unhex(Hex(r)) = r
    BY HexRead
  <2> QED
    BY SMTT(30), <2>1 DEF SigBytes
<1>6. Unhex(signed.from) = Point(k)
  BY <1>1, <1>3, PointRead DEF AddressOf
<1>7. SigBytes(signed.signature).r = r /\ SigBytes(signed.signature).s = <<r, k, part>>
  BY <1>3, <1>4, <1>5
<1>8. ECDSA_verify(digest, SigBytes(signed.signature), Point(k))
  BY <1>7, <1>10 DEF ECDSA_verify
<1>9. ValidateSignature(signed)
  BY <1>2, <1>6, <1>8 DEF ValidateSignature
<1> QED
  BY <1>9 DEF signed

-----------------------------------------------------------------------------
(***************************************************************************)
(* The keys are kept, and what is signed verifies, at every step.          *)
(***************************************************************************)
\* There is nothing to keep at the start.
LEMMA KeyInvInit == Init => KeyInv
  BY EmptySeq DEF Init, KeyInv, Kept, Verified, Listed

\* PutKey puts the key of its user under the user's address.
LEMMA PutKeyKeeps == ASSUME Inv, KeyInv, PutKey PROVE KeyInv'
<1>1. /\ at = "put"
      /\ key' = [a \in DOMAIN key \cup {Pair.addr} |-> IF a = Pair.addr THEN Pair.priv ELSE key[a]]
      /\ UNCHANGED <<step, todo, file, sent, known, received>>
  BY DEF PutKey, nodeVars
<1>2. step \in 1 .. Len(todo) /\ todo[step] \in Keys
  BY <1>1 DEF Inv, Typed
<1>3. Pair.addr = AddressOf(todo[step]) /\ Pair.priv = PrivateHex(todo[step])
  BY DEF Pair, GenAddr, AddressOf
<1>4. \A a \in DOMAIN key' : IsPair(a, key'[a])
  <2> SUFFICES ASSUME NEW a \in DOMAIN key \cup {Pair.addr} PROVE IsPair(a, key'[a])
    BY <1>1
  <2>1. CASE a = Pair.addr
    BY <1>1, <1>2, <1>3, <2>1 DEF IsPair
  <2>2. CASE a # Pair.addr
    BY <1>1, <2>2 DEF KeyInv, Kept
  <2> QED
    BY <2>1, <2>2
<1>5. DOMAIN key' = DOMAIN key \cup {AddressOf(todo[step])}
  BY <1>1, <1>3
<1>6. Listed' = Listed
  BY <1>1 DEF Listed
<1>7. Kept'
  BY <1>1, <1>4, <1>5, <1>6 DEF KeyInv, Kept
<1>8. Verified'
  BY <1>1 DEF KeyInv, Verified
<1> QED
  BY <1>7, <1>8 DEF KeyInv

\* WriteLine writes an account whose key has been put.
LEMMA WriteLineKeeps == ASSUME Inv, KeyInv, WriteLine PROVE KeyInv'
<1> DEFINE e == [priv |-> Pair.priv, addr |-> Pair.addr]
<1>1. /\ at = "line" /\ at' \in {"put", "read"}
      /\ file' = Append(file, e)
      /\ UNCHANGED <<todo, key, sent, known, received>>
  BY DEF WriteLine, nodeVars
<1>2. step \in 1 .. Len(todo) /\ todo[step] \in Keys /\ file \in Seq(Records)
  BY <1>1 DEF Inv, Typed
<1>3. e \in Records /\ e.addr = AddressOf(todo[step])
  BY <1>2, RecordOf DEF Pair
<1> HIDE DEF e
<1>4. /\ Len(file') = Len(file) + 1 /\ Len(file) \in Nat
      /\ \A i \in 1 .. Len(file) : file'[i] = file[i]
      /\ file'[Len(file) + 1] = e
  BY <1>1, <1>2, <1>3, AppendOne
<1>5. Listed' \subseteq DOMAIN key
  <2> SUFFICES ASSUME NEW i \in 1 .. Len(file') PROVE file'[i].addr \in DOMAIN key
    BY DEF Listed
  <2>1. CASE i \in 1 .. Len(file)
    BY <1>4, <2>1 DEF KeyInv, Kept, Listed
  <2>2. CASE i = Len(file) + 1
    BY <1>1, <1>3, <1>4, <2>2 DEF KeyInv, Kept
  <2> QED
    BY <1>4, <2>1, <2>2
<1>6. Kept'
  BY <1>1, <1>5 DEF KeyInv, Kept
<1>7. Verified'
  BY <1>1 DEF KeyInv, Verified
<1> QED
  BY <1>6, <1>7 DEF KeyInv

\* Submit signs with the key of the sender.
LEMMA SubmitVerifies ==
  ASSUME Inv, KeyInv, NEW from, NEW to, Submit(from, to) PROVE KeyInv'
<1>1. /\ at' = "send"
      /\ GetPrivateKey(from) # <<>>
      /\ UNCHANGED <<todo, key, file, known, received>>
  BY DEF Submit
<1> DEFINE tx == [time_stamp |-> Len(sent) + 1, from |-> from, to |-> to, value |-> 1]
<1>2. PICK r \in Nonces : sent' = Append(sent, SignateTx(tx, r))
  BY DEF Submit
<1>3. ValidateSignature(SignateTx(tx, r))
  <2>1. from \in DOMAIN key /\ GetPrivateKey(from) = key[from]
    BY <1>1 DEF GetPrivateKey
  <2>2. IsPair(from, GetPrivateKey(from))
    BY <2>1 DEF KeyInv, Kept
  <2>3. tx.from = from /\ r \in Seq(Bytes)
    BY ClientAssumption
  <2> HIDE DEF tx
  <2> QED
    BY <2>2, <2>3, SignedVerifies
<1> DEFINE e == SignateTx(tx, r)
<1> HIDE DEF e
<1>4. /\ sent' = Append(sent, e) /\ ValidateSignature(e)
      /\ Len(sent) \in Nat
      /\ Len(sent') = Len(sent) + 1
      /\ \A i \in 1 .. Len(sent) : sent'[i] = sent[i]
      /\ sent'[Len(sent) + 1] = e
  <2>1. sent' = Append(sent, e) /\ ValidateSignature(e)
    BY <1>2, <1>3 DEF e
  <2> QED
    BY <2>1, AppendAny DEF Inv, Typed
<1>5. ASSUME NEW t \in 1 .. Len(sent') PROVE ValidateSignature(sent'[t])
  <2>1. CASE t \in 1 .. Len(sent)
    <3>1. ValidateSignature(sent[t]) /\ sent'[t] = sent[t]
      BY <1>4, <2>1 DEF KeyInv, Verified
    <3> QED
      BY <3>1
  <2>2. CASE t = Len(sent) + 1
    <3>1. sent'[t] = e
      BY <1>4, <2>2
    <3> QED
      BY <1>4, <3>1
  <2> QED
    BY <1>4, <2>1, <2>2
<1>6. Verified'
  BY <1>1, <1>5 DEF KeyInv, Verified, ValidateSignature, GetHash
<1>7. Listed' = Listed
  BY <1>1 DEF Listed
<1>8. Kept'
  BY <1>1, <1>7 DEF KeyInv, Kept
<1> QED
  BY <1>6, <1>8 DEF KeyInv

\* SendTransx calls AddTransx with the last transaction that was signed.
LEMMA SendTransxVerifies == ASSUME Inv, KeyInv, SendTransx PROVE KeyInv'
<1> DEFINE n == NodeAddr[step]
           e == [no |-> Len(sent), ok |-> ValidateSignature(Last(sent))]
<1>1. at = "send" /\ NextNode /\ received' = [received EXCEPT ![n] = Append(@, e)]
  BY DEF SendTransx
<1>2. n \in Nodes /\ received[n] \in Seq(Receipts) /\ received \in [Nodes -> Seq(Receipts)]
  BY <1>1, NextNodeIs, NodesListed DEF Inv, Typed
<1>3. Len(sent) \in 1 .. Len(sent)
  BY <1>1, AppendAny DEF Inv, Typed
<1>4. ValidateSignature(Last(sent))
  BY <1>3 DEF KeyInv, Verified, Last
<1>5. e \in Receipts /\ e.ok
  BY <1>3, <1>4 DEF Receipts, ValidateSignature, ECDSA_verify
<1> HIDE DEF e
<1>6. /\ received'[n] = Append(received[n], e)
      /\ \A m \in Nodes : m # n => received'[m] = received[m]
  BY <1>1, <1>2
<1>7. /\ Len(received[n]) \in Nat
      /\ Len(received'[n]) = Len(received[n]) + 1
      /\ \A i \in 1 .. Len(received[n]) : received'[n][i] = received[n][i]
      /\ received'[n][Len(received[n]) + 1] = e
  BY <1>2, <1>5, <1>6, AppendOne
<1>8. ASSUME NEW m \in Nodes, NEW i \in 1 .. Len(received'[m]) PROVE received'[m][i].ok
  <2>1. CASE m # n
    BY <1>6, <2>1 DEF KeyInv, Verified
  <2>2. CASE m = n
    <3>1. i \in 1 .. Len(received[n]) \/ i = Len(received[n]) + 1
      BY <1>7, <2>2
    <3>2. CASE i \in 1 .. Len(received[n])
      BY <1>2, <1>7, <2>2, <3>2 DEF KeyInv, Verified
    <3>3. CASE i = Len(received[n]) + 1
      BY <1>5, <1>7, <2>2, <3>3
    <3> QED
      BY <3>1, <3>2, <3>3
  <2> QED
    BY <2>1, <2>2
<1>9. at' # "line" /\ UNCHANGED <<sent, todo, key, file, known>>
  BY <1>1, NextNodeIs
<1>10. Verified'
  BY <1>8, <1>9 DEF KeyInv, Verified
<1>11. Listed' = Listed
  BY <1>9 DEF Listed
<1>12. Kept'
  BY <1>9, <1>11 DEF KeyInv, Kept
<1> QED
  BY <1>10, <1>12 DEF KeyInv

\* A node that starts knows what the file lists.
LEMMA StartNodeKeeps == ASSUME Inv, KeyInv, NEW n \in Nodes, StartNode(n) PROVE KeyInv'
<1>1. /\ known' = [known EXCEPT ![n] = @ \cup {file[i].addr : i \in DOMAIN file}]
      /\ UNCHANGED <<at, step, todo, key, file, sent, received>>
  BY DEF StartNode, clientVars
<1>2. {file[i].addr : i \in DOMAIN file} = Listed
  <2>1. DOMAIN file = 1 .. Len(file)
    BY DEF Inv, Typed
  <2> QED
    BY <2>1 DEF Listed
<1>3. \A m \in Nodes : known'[m] \subseteq DOMAIN key
  BY <1>1, <1>2 DEF Inv, Typed, KeyInv, Kept
<1>4. Listed' = Listed
  BY <1>1 DEF Listed
<1>5. Kept'
  BY <1>1, <1>3, <1>4 DEF KeyInv, Kept
<1>6. Verified'
  BY <1>1 DEF KeyInv, Verified
<1> QED
  BY <1>5, <1>6 DEF KeyInv

\* The other steps write no account and sign nothing.
LEMMA OthersKeep ==
  ASSUME KeyInv, at' = "line" => at = "line" /\ UNCHANGED <<step, todo>>,
         file' \in {file, <<>>}, UNCHANGED <<key, sent, known, received>>
  PROVE  KeyInv'
<1>1. Listed' \subseteq Listed
  <2>1. Len(<<>>) = 0
    BY EmptySeq
  <2> QED
    BY <2>1 DEF Listed
<1>2. Kept'
  BY <1>1 DEF KeyInv, Kept
<1>3. Verified'
  BY DEF KeyInv, Verified
<1> QED
  BY <1>2, <1>3 DEF KeyInv

\* Every step keeps the keys and verifies.
LEMMA KeyInvStep == Inv /\ KeyInv /\ [Next]_vars => KeyInv'
<1> SUFFICES ASSUME Inv, KeyInv, [Next]_vars PROVE KeyInv'
  OBVIOUS
<1>1. CASE GenUser
  BY <1>1, OthersKeep DEF GenUser, nodeVars
<1>2. CASE SendFails
  BY <1>2, NextNodeIs, OthersKeep DEF SendFails
<1>3. CASE Quit \/ Start
  BY <1>3, OthersKeep DEF Quit, Start, nodeVars
<1>4. ASSUME NEW n \in Nodes, FailNode(n, "down") \/ FailNode(n, "hung") PROVE KeyInv'
  BY <1>4, OthersKeep DEF FailNode, clientVars
<1>5. CASE UNCHANGED vars
  BY <1>5, OthersKeep DEF vars
<1>6. CASE PutKey \/ WriteLine \/ SendTransx
  BY <1>6, PutKeyKeeps, WriteLineKeeps, SendTransxVerifies
<1>7. ASSUME NEW from \in DOMAIN key, NEW to \in Recipients, Submit(from, to) PROVE KeyInv'
  BY <1>7, SubmitVerifies
<1>8. ASSUME NEW n \in Nodes, StartNode(n) PROVE KeyInv'
  BY <1>8, StartNodeKeeps
<1> QED
  BY <1>1, <1>2, <1>3, <1>4, <1>5, <1>6, <1>7, <1>8 DEF Next, Working

\* And so it is throughout.
LEMMA AlwaysKeyInv == Spec => []KeyInv
  BY AlwaysInv, KeyInvInit, KeyInvStep, PTL DEF Spec

-----------------------------------------------------------------------------
(***************************************************************************)
(* The theorems.                                                           *)
(***************************************************************************)
\* The variables of the client keep their types.
THEOREM TypeCorrect == Spec => []TypeOK
<1>1. ASSUME Inv PROVE TypeOK
  <2>1. DOMAIN todo = 1 .. Len(todo) /\ \A i \in DOMAIN todo : todo[i] \in Keys
    BY <1>1 DEF Inv, Typed
  <2>2. at \in {"put", "line"} => step \in DOMAIN todo
    BY <1>1, <2>1 DEF Inv, Typed
  <2>3. at = "send" => step \in DOMAIN NodeAddr /\ sent # <<>>
    BY <1>1, NodesListed DEF Inv, Typed
  <2>4. \A n \in Nodes : \A i \in DOMAIN received[n] : received[n][i].no \in 1 .. Len(sent)
    <3>1. \A n \in Nodes : DOMAIN received[n] = 1 .. Len(received[n])
      BY <1>1 DEF Inv, Typed
    <3> QED
      BY <1>1, <3>1 DEF Inv, Ordered
  <2>5. \A n \in Nodes : readGens[n] \subseteq 1 .. gens
    BY <1>1 DEF Inv, Typed
  <2> QED
    BY <1>1, <2>1, <2>2, <2>3, <2>4, <2>5 DEF Inv, Typed, TypeOK
<1> QED
  BY AlwaysInv, <1>1, PTL

\* A coin node gets what the user types in order and never twice, and one that
\* stays up misses nothing but what a kill of the client has cut short.
THEOREM NobodyIsMissed == Spec => []NobodyMissed
<1>1. ASSUME Inv PROVE NobodyMissed
  <2> SUFFICES ASSUME NEW n \in Nodes
               PROVE  /\ \A i, j \in DOMAIN received[n] : i < j => received[n][i].no < received[n][j].no
                      /\ n \in steady =>
                            \A t \in 1 .. Len(sent) :
                                \/ \E i \in DOMAIN received[n] : received[n][i].no = t
                                \/ t = Len(sent) /\ at = "send"
                                \/ t \in cut
    BY DEF NobodyMissed
  <2>1. DOMAIN received[n] = 1 .. Len(received[n])
    BY <1>1 DEF Inv, Typed
  <2> QED
    BY <1>1, <2>1 DEF Inv, Ordered, Complete, Got, Turn
<1> QED
  BY AlwaysInv, <1>1, PTL

\* However often users were made, wherever that was cut short, and whatever nodes
\* were running: an account is unknown to a coin node only if the node read none of
\* the files of the runs that made it, or a kill took the account's line.
THEOREM SendersAreKnown == Spec => []SendersKnown
<1>1. ASSUME Inv PROVE SendersKnown
  BY <1>1 DEF Inv, Known, SendersKnown
<1> QED
  BY AlwaysInv, <1>1, PTL

\* Every account in the file or at a coin node is one the client can sign for,
\* wherever the making of users was cut short.
THEOREM KeysAreKept == Spec => []KeysKept
<1>1. ASSUME Inv, KeyInv PROVE KeysKept
  <2>1. {file[i].addr : i \in DOMAIN file} = Listed
    BY <1>1 DEF Inv, Typed, Listed
  <2>2. ASSUME NEW a \in DOMAIN key PROVE Unhex(a) = Point(HexToPrivate(key[a]))
    <3>1. PICK k \in Keys : a = AddressOf(k) /\ key[a] = PrivateHex(k)
      BY <1>1 DEF KeyInv, Kept, IsPair
    <3> QED
      BY <3>1, PointRead, KeyRead DEF AddressOf, GenAddr
  <2>3. Listed \cup UNION {known[n] : n \in Nodes} \subseteq DOMAIN key
    BY <1>1 DEF KeyInv, Kept
  <2> QED
    BY <2>1, <2>2, <2>3 DEF KeysKept
<1> QED
  BY AlwaysInv, AlwaysKeyInv, <1>1, PTL

\* Every transaction that reaches a coin node passes the check of its signature.
THEOREM EverythingVerifies == Spec => []SentVerifies
<1>1. ASSUME Inv, KeyInv PROVE SentVerifies
  BY <1>1 DEF Inv, Typed, KeyInv, Verified, SentVerifies
<1> QED
  BY AlwaysInv, AlwaysKeyInv, <1>1, PTL
=============================================================================
