--------------------------- MODULE PbftReplicaProofs ---------------------------
(***************************************************************************)
(* Proofs about the threads of a PBFT process, for every number of         *)
(* replicas, threads and proposals, whatever votes overlapping updates     *)
(* lose and whatever calls to the coin node fail, at the primary and       *)
(* elsewhere.                                                              *)
(***************************************************************************)
EXTENDS PbftReplica, FiniteSetTheorems, TLAPS

-----------------------------------------------------------------------------
(***************************************************************************)
(* The inductive invariant.                                                *)
(***************************************************************************)
\* Each handler has places of its own.
InHandler ==
    \A m \in Calls :
        /\ pc[m] \in {"find", "add", "fill", "ask"} => m.mtype = "Preprepare"
        /\ pc[m] \in {"insert", "load", "store", "tally", "act"} => m.mtype # "Preprepare"
        /\ pc[m] = "call" => m.mtype = "Commit"

\* This process sends each of its messages once: what sends it happens once.
SentInTurn ==
    \A s \in Seqs :
        /\ pc[Call("Prepare", Me, s)] # "unsent" => pc[Call("Preprepare", Primary, s)] = "done"
        /\ pc[Call("Commit", Me, s)] # "unsent" => prepared[s]
        /\ Me = Primary /\ client[s] = "idle" => pc[Call("Preprepare", Primary, s)] = "unsent"

\* The handlers of votes have inserted the proposal.
Inserted ==
    \A m \in Calls :
        pc[m] \in {"load", "store", "tally", "act", "call"} => body[m.seq] # "absent"

\* The coin node has been told to commit proposal s.
ActedOn(s) == \E i \in 1 .. Len(actions) : actions[i].seq = s

\* The coin node has done so.
Executed(s) == \E i \in 1 .. Len(actions) : actions[i].seq = s /\ pc[actions[i].by] = "done"

CalledBy(m) == \E i \in 1 .. Len(actions) : actions[i].by = m

\* A call to the coin node that has begun is under way, has succeeded or has failed.
Accounted(a) ==
    /\ a.by.seq = a.seq
    /\ \/ pc[a.by] = "call"
       \/ pc[a.by] = "done" /\ committed[a.seq]
       \/ pc[a.by] = "failed"

\* While the coin node is called, ins_mutex_ is held; after that committed is set,
\* unless the call failed.
Locked ==
    /\ \A m \in Calls : pc[m] = "call" => ins[m.seq] = m /\ CalledBy(m)
    /\ \A s \in Seqs :
          /\ committed[s] => ins[s] = Free /\ Executed(s)
          /\ client[s] = "returned" => committed[s]
    /\ \A i \in 1 .. Len(actions) : Accounted(actions[i])

\* The vectors, and what threads have found in them, hold votes that came.
Counted ==
    /\ \A t \in {"Prepare", "Commit"}, s \in Seqs : votes[t][s] \subseteq Voted(t, s)
    /\ \A m \in Calls : m.mtype # "Preprepare" => seen[m] \subseteq Voted(m.mtype, m.seq)

QuorumVoted(t, s) == Cardinality(Voted(t, s)) >= Quorum

\* What acts on the votes has had enough of them.
Backed ==
    /\ \A s \in Seqs : prepared[s] => QuorumVoted("Prepare", s)
    /\ \A s \in Seqs : ActedOn(s) => QuorumVoted("Commit", s)
    /\ \A m \in Calls : pc[m] = "act" => QuorumVoted(m.mtype, m.seq)

Inv ==
    /\ TypeOK
    /\ InHandler
    /\ SentInTurn
    /\ Inserted
    /\ Locked
    /\ Counted
    /\ Backed
    /\ CommitOnce

-----------------------------------------------------------------------------
(***************************************************************************)
(* Calls, flags and the log of actions.                                    *)
(***************************************************************************)
\* 2f + 1 is an integer, so it can be compared.
LEMMA QuorumIsInt == Quorum \in Int
<1>1. Cardinality(Nodes) \in Nat
  BY ReplicaAssumption, FS_CardinalityType
<1>2. F \in Int
  BY <1>1 DEF F
<1> QED
  BY <1>2 DEF Quorum

\* The calls there are.
LEMMA CallsAre ==
  /\ \A m \in Calls :
        /\ m.mtype \in {"Preprepare", "Prepare", "Commit"}
        /\ m.from \in Alive
        /\ m.seq \in Seqs
        /\ m = Call(m.mtype, m.from, m.seq)
        /\ m.mtype = "Preprepare" => m.from = Primary
  /\ \A t \in {"Prepare", "Commit"}, n \in Alive, s \in Seqs :
        Call(t, n, s) \in Calls
  /\ \A s \in Seqs : Call("Preprepare", Primary, s) \in Calls
  /\ Me \in Alive
<1>1. ASSUME NEW m \in Calls
      PROVE  /\ m.mtype \in {"Preprepare", "Prepare", "Commit"}
             /\ m.from \in Alive
             /\ m.seq \in Seqs
             /\ m = Call(m.mtype, m.from, m.seq)
             /\ m.mtype = "Preprepare" => m.from = Primary
  <2>1. CASE \E s \in Seqs : m = Call("Preprepare", Primary, s)
    BY <2>1, ReplicaAssumption DEF Call
  <2>2. CASE \E t \in {"Prepare", "Commit"}, n \in Alive, s \in Seqs : m = Call(t, n, s)
    BY <2>2 DEF Call
  <2> QED
    BY <2>1, <2>2 DEF Calls
<1>2. /\ \A t \in {"Prepare", "Commit"}, n \in Alive, s \in Seqs : Call(t, n, s) \in Calls
      /\ \A s \in Seqs : Call("Preprepare", Primary, s) \in Calls
  BY DEF Calls
<1> QED
  BY <1>1, <1>2, ReplicaAssumption

\* A call is told by its fields.
LEMMA CallFields ==
  ASSUME NEW t, NEW n, NEW s
  PROVE  /\ Call(t, n, s).mtype = t
         /\ Call(t, n, s).from = n
         /\ Call(t, n, s).seq = s
  BY DEF Call

\* Setting one flag.
LEMMA SetFlag ==
  ASSUME NEW g \in [Seqs -> BOOLEAN], NEW s \in Seqs, NEW h,
         h = [g EXCEPT ![s] = TRUE]
  PROVE  /\ h \in [Seqs -> BOOLEAN]
         /\ h[s]
         /\ \A r \in Seqs : r # s => (h[r] <=> g[r])
         /\ \A r \in Seqs : g[r] => h[r]
  OBVIOUS

\* One more action.
LEMMA AppendAction ==
  ASSUME NEW S, NEW q \in Seq(S), NEW e \in S
  PROVE  /\ Append(q, e) \in Seq(S)
         /\ Len(Append(q, e)) = Len(q) + 1
         /\ Len(q) \in Nat
         /\ \A i \in 1 .. Len(q) : Append(q, e)[i] = q[i]
         /\ Append(q, e)[Len(q) + 1] = e
  OBVIOUS

\* The fields of an action.
LEMMA ActionType ==
  ASSUME TypeOK, NEW i \in 1 .. Len(actions)
  PROVE  actions[i].by \in Calls /\ actions[i].seq \in Seqs
<1> DEFINE S == [by : Calls, seq : Seqs, body : {"absent", "empty", "full"}]
<1>1. actions \in Seq(S)
  BY DEF TypeOK
<1>2. \A a \in S : a.by \in Calls /\ a.seq \in Seqs
  OBVIOUS
<1> HIDE DEF S
<1>3. actions[i] \in S
  BY <1>1
<1> QED
  BY <1>2, <1>3

\* A thread moves.
LEMMA GotoIs ==
  ASSUME NEW g \in [Calls -> Labels], NEW m \in Calls, NEW l \in Labels, NEW h,
         h = [g EXCEPT ![m] = l]
  PROVE  /\ h \in [Calls -> Labels]
         /\ h[m] = l
         /\ \A k \in Calls : k # m => h[k] = g[k]
  OBVIOUS

\* The thread of m ends, and the message it sends is queued.
LEMMA BroadcastIs ==
  ASSUME TypeOK, NEW m \in Calls, NEW t \in {"Prepare", "Commit"}, m.mtype # t,
         Broadcast(m, t)
  PROVE  /\ pc' \in [Calls -> Labels]
         /\ pc'[m] = "done"
         /\ pc'[Call(t, Me, m.seq)] = "queued"
         /\ \A k \in Calls : k # m /\ k # Call(t, Me, m.seq) => pc'[k] = pc[k]
<1>1. Call(t, Me, m.seq) \in Calls /\ Call(t, Me, m.seq) # m
  BY CallsAre, CallFields
<1>2. {"done", "queued"} \subseteq Labels
  BY DEF Labels
<1> QED
  BY <1>1, <1>2 DEF Broadcast, TypeOK

-----------------------------------------------------------------------------
(***************************************************************************)
(* Types.                                                                  *)
(***************************************************************************)
\* Init establishes the invariant.
LEMMA InvInit == Init => Inv
<1> SUFFICES ASSUME Init PROVE Inv
  OBVIOUS
<1>1. TypeOK
  BY DEF Init, TypeOK, Labels
<1>2. InHandler /\ SentInTurn /\ Inserted
  BY CallsAre DEF Init, InHandler, SentInTurn, Inserted
<1>3. Locked /\ CommitOnce
  BY DEF Init, Locked, CommitOnce
<1>4. Counted
  BY DEF Init, Counted
<1>5. Backed
  BY DEF Init, Backed, ActedOn
<1> QED
  BY <1>1, <1>2, <1>3, <1>4, <1>5 DEF Inv

\* What a step does to pc, by the kind of step.
LEMMA Moves ==
  ASSUME Inv, NEW m \in Calls, PeerSend(m) \/ Start(m) \/ Handler(m)
  PROVE  /\ pc' \in [Calls -> Labels]
         /\ pc[m] \notin {"done", "failed"}
         /\ pc[m] \in {"tally", "act", "call"} => pc'[m] \in {"act", "call", "done", "failed"}
         /\ pc'[m] # "unsent"
         /\ \A k \in Calls : k # m /\ pc'[k] # pc[k] =>
               /\ pc[k] = "unsent" /\ pc'[k] = "queued"
               /\ pc'[m] = "done"
               /\ \/ k = Call("Prepare", Me, m.seq) /\ pc[m] = "ask"
                  \/ k = Call("Commit", Me, m.seq) /\ pc[m] = "act" /\ prepared'[m.seq]
<1> USE DEF Inv
<1>1. {"unsent", "queued", "find", "add", "fill", "ask", "insert", "load",
       "store", "tally", "act", "call", "done", "failed"} = Labels
  BY DEF Labels
<1>2. CASE PeerSend(m)
  BY <1>1, <1>2, GotoIs DEF PeerSend, Goto, TypeOK
<1>3. CASE Start(m)
  BY <1>1, <1>3, GotoIs DEF Start, Goto, TypeOK
<1>4. CASE PrepareFind(m)
  BY <1>1, <1>4, GotoIs DEF PrepareFind, Goto, TypeOK
<1>5. CASE PrepareAdd(m)
  BY <1>1, <1>5, GotoIs DEF PrepareAdd, Goto, TypeOK
<1>6. CASE PrepareFill(m)
  BY <1>1, <1>6, GotoIs DEF PrepareFill, Goto, TypeOK
<1>7. CASE PrepareAsk(m)
  <2>1. CASE Goto(m, "done")
    BY <1>1, <1>7, <2>1, GotoIs DEF PrepareAsk, Goto, TypeOK
  <2>2. CASE Broadcast(m, "Prepare")
    <3>1. m.mtype = "Preprepare" /\ pc[m] = "ask"
      BY <1>7 DEF PrepareAsk, InHandler
    <3>2. m = Call("Preprepare", Primary, m.seq) /\ m.seq \in Seqs
      BY <3>1, CallsAre
    <3>3. pc[Call("Prepare", Me, m.seq)] = "unsent"
      BY <3>1, <3>2 DEF SentInTurn
    <3>4. /\ pc' \in [Calls -> Labels]
          /\ pc'[m] = "done"
          /\ pc'[Call("Prepare", Me, m.seq)] = "queued"
          /\ \A k \in Calls : k # m /\ k # Call("Prepare", Me, m.seq) => pc'[k] = pc[k]
      BY <2>2, <3>1, BroadcastIs
    <3>5. ASSUME NEW k \in Calls, k # m, pc'[k] # pc[k]
          PROVE  k = Call("Prepare", Me, m.seq)
      BY <3>4, <3>5
    <3> HIDE DEF Inv
    <3> QED
      BY <3>1, <3>3, <3>4, <3>5
  <2> QED
    BY <1>7, <2>1, <2>2 DEF PrepareAsk
<1>8. CASE Insert(m)
  BY <1>1, <1>8, GotoIs DEF Insert, Goto, TypeOK
<1>9. CASE UpdateLoad(m)
  BY <1>1, <1>9, GotoIs DEF UpdateLoad, Goto, TypeOK
<1>10. CASE UpdateStore(m)
  BY <1>1, <1>10, GotoIs DEF UpdateStore, Goto, TypeOK
<1>11. CASE CheckVotes(m)
  BY <1>1, <1>11, GotoIs DEF CheckVotes, Goto, TypeOK
<1>12. CASE CommitAct(m)
  <2>1. m.mtype = "Prepare" /\ pc[m] = "act" /\ m.seq \in Seqs
    BY <1>12, CallsAre DEF CommitAct
  <2>2. CASE Goto(m, "done")
    BY <1>1, <2>1, <2>2, GotoIs DEF Goto, TypeOK
  <2>3. CASE /\ ~ prepared[m.seq]
             /\ prepared' = [prepared EXCEPT ![m.seq] = TRUE]
             /\ Broadcast(m, "Commit")
    <3>1. pc[Call("Commit", Me, m.seq)] = "unsent"
      BY <2>1, <2>3 DEF SentInTurn
    <3>2. prepared'[m.seq]
      BY <2>1, <2>3, SetFlag DEF TypeOK
    <3>3. /\ pc' \in [Calls -> Labels]
          /\ pc'[m] = "done"
          /\ pc'[Call("Commit", Me, m.seq)] = "queued"
          /\ \A k \in Calls : k # m /\ k # Call("Commit", Me, m.seq) => pc'[k] = pc[k]
      BY <2>1, <2>3, BroadcastIs
    <3> HIDE DEF Inv
    <3> QED
      BY <2>1, <3>1, <3>2, <3>3
  <2> QED
    BY <1>12, <2>2, <2>3, Zenon DEF CommitAct
<1>13. CASE ReplyAct(m)
  <2>1. pc[m] = "act" /\ (Goto(m, "call") \/ Goto(m, "done"))
    BY <1>13, Zenon DEF ReplyAct
  <2>2. CASE Goto(m, "call")
    BY <1>1, <2>1, <2>2, GotoIs DEF Goto, TypeOK
  <2>3. CASE Goto(m, "done")
    BY <1>1, <2>1, <2>3, GotoIs DEF Goto, TypeOK
  <2> QED
    BY <2>1, <2>2, <2>3
<1>14. CASE ReplyCommitted(m)
  BY <1>1, <1>14, GotoIs DEF ReplyCommitted, Goto, TypeOK
<1>15. CASE ReplyThrows(m)
  BY <1>1, <1>15, GotoIs DEF ReplyThrows, Goto, TypeOK
<1> QED
  BY <1>2, <1>3, <1>4, <1>5, <1>6, <1>7, <1>8, <1>9, <1>10, <1>11, <1>12, <1>13, <1>14, <1>15
     DEF Handler

\* A call that has been sent stays so, and a vote that has come too.
PcGrows ==
    \A m \in Calls :
        /\ pc[m] # "unsent" => pc'[m] # "unsent"
        /\ pc[m] = "done" => pc'[m] = "done"
        /\ pc[m] \in {"tally", "act", "call", "done", "failed"}
              => pc'[m] \in {"tally", "act", "call", "done", "failed"}

\* No step of a thread takes anything back.
LEMMA MovesGrow ==
  ASSUME Inv, NEW m \in Calls, PeerSend(m) \/ Start(m) \/ Handler(m)
  PROVE  PcGrows
  BY Moves DEF PcGrows

\* Votes that have come are not taken back.
LEMMA VotedGrows ==
  ASSUME PcGrows, NEW t \in {"Prepare", "Commit"}, NEW s \in Seqs
  PROVE  /\ Voted(t, s) \subseteq Voted(t, s)'
         /\ QuorumVoted(t, s) => QuorumVoted(t, s)'
<1>1. Voted(t, s) \subseteq Voted(t, s)'
  BY CallsAre DEF PcGrows, Voted
<1>2. IsFiniteSet(Voted(t, s)')
  BY ReplicaAssumption, FS_Subset, Voted(t, s)' \in SUBSET Nodes DEF Voted
<1>3. /\ IsFiniteSet(Voted(t, s))
      /\ Cardinality(Voted(t, s)) <= Cardinality(Voted(t, s)')
  BY <1>1, <1>2, FS_Subset
<1>4. /\ Cardinality(Voted(t, s)) \in Nat
      /\ Cardinality(Voted(t, s)') \in Nat
  BY <1>2, <1>3, FS_CardinalityType
<1> QED
  BY <1>1, <1>3, <1>4, QuorumIsInt DEF QuorumVoted

\* A vector with enough votes shows that enough votes have come.
LEMMA EnoughVoted ==
  ASSUME Inv, NEW t \in {"Prepare", "Commit"}, NEW s \in Seqs, Enough(t, s)
  PROVE  QuorumVoted(t, s)
<1>1. CASE t = "Prepare" /\ prepared[s]
  BY <1>1 DEF Inv, Backed
<1>2. CASE t = "Commit" /\ committed[s]
  BY <1>2 DEF Inv, Backed, Locked, Executed, ActedOn
<1>3. CASE Cardinality(votes[t][s]) >= Quorum
  <2>1. votes[t][s] \subseteq Voted(t, s)
    BY DEF Inv, Counted
  <2>2. IsFiniteSet(Voted(t, s))
    BY ReplicaAssumption, FS_Subset, Voted(t, s) \in SUBSET Nodes DEF Voted
  <2>3. /\ Cardinality(votes[t][s]) <= Cardinality(Voted(t, s))
        /\ IsFiniteSet(votes[t][s])
    BY <2>1, <2>2, FS_Subset
  <2>4. /\ Cardinality(votes[t][s]) \in Nat
        /\ Cardinality(Voted(t, s)) \in Nat
    BY <2>2, <2>3, FS_CardinalityType
  <2> QED
    BY <1>3, <2>3, <2>4, QuorumIsInt DEF QuorumVoted
<1> QED
  BY <1>1, <1>2, <1>3, Zenon DEF Enough

\* This process sends each of its messages once.
LEMMA SentInTurnStep ==
  ASSUME Inv, NEW m \in Calls, PeerSend(m) \/ Start(m) \/ Handler(m),
         client' = client, \A s \in Seqs : prepared[s] => prepared'[s]
  PROVE  SentInTurn'
<1>1. pc[m] = "unsent" => m.from # Me
  <2>1. ~ PeerSend(m) => pc[m] # "unsent"
    BY DEF Start, Handler, PrepareFind, PrepareAdd, PrepareFill, PrepareAsk, Insert,
           UpdateLoad, UpdateStore, CheckVotes, CommitAct, ReplyAct, ReplyCommitted, ReplyThrows
  <2> QED
    BY <2>1 DEF PeerSend
<1>2. ASSUME NEW k \in Calls, k.from = Me, pc[k] = "unsent", pc'[k] # "unsent"
      PROVE  /\ pc'[m] = "done"
             /\ \/ k = Call("Prepare", Me, m.seq) /\ pc[m] = "ask"
                \/ k = Call("Commit", Me, m.seq) /\ pc[m] = "act" /\ prepared'[m.seq]
  <2>1. k # m
    BY <1>1, <1>2
  <2> QED
    BY <1>2, <2>1, Moves
<1>3. PcGrows
  BY MovesGrow
<1> SUFFICES ASSUME NEW s \in Seqs
             PROVE  /\ pc'[Call("Prepare", Me, s)] # "unsent" => pc'[Call("Preprepare", Primary, s)] = "done"
                    /\ pc'[Call("Commit", Me, s)] # "unsent" => prepared'[s]
                    /\ Me = Primary /\ client'[s] = "idle" => pc'[Call("Preprepare", Primary, s)] = "unsent"
  BY DEF SentInTurn
<1>4. /\ Call("Prepare", Me, s) \in Calls
      /\ Call("Commit", Me, s) \in Calls
      /\ Call("Preprepare", Primary, s) \in Calls
  BY CallsAre
<1>5. ASSUME pc'[Call("Prepare", Me, s)] # "unsent"
      PROVE  pc'[Call("Preprepare", Primary, s)] = "done"
  <2>1. CASE pc[Call("Prepare", Me, s)] # "unsent"
    BY <1>3, <1>4, <2>1 DEF Inv, SentInTurn, PcGrows
  <2>2. CASE pc[Call("Prepare", Me, s)] = "unsent"
    <3>1. pc'[m] = "done" /\ Call("Prepare", Me, s) = Call("Prepare", Me, m.seq) /\ pc[m] = "ask"
      BY <1>2, <1>4, <1>5, <2>2, CallFields
    <3>2. m.seq = s /\ m.mtype = "Preprepare"
      BY <3>1, CallFields DEF Inv, InHandler
    <3> QED
      BY <3>1, <3>2, CallsAre
  <2> QED
    BY <2>1, <2>2
<1>6. ASSUME pc'[Call("Commit", Me, s)] # "unsent"
      PROVE  prepared'[s]
  <2>1. CASE pc[Call("Commit", Me, s)] # "unsent"
    BY <2>1 DEF Inv, SentInTurn
  <2>2. CASE pc[Call("Commit", Me, s)] = "unsent"
    <3>1. Call("Commit", Me, s) = Call("Commit", Me, m.seq) /\ prepared'[m.seq]
      BY <1>2, <1>4, <1>6, <2>2, CallFields
    <3> QED
      BY <3>1, CallFields
  <2> QED
    BY <2>1, <2>2
<1>7. ASSUME Me = Primary, client[s] = "idle"
      PROVE  pc'[Call("Preprepare", Primary, s)] = "unsent"
  <2>1. pc[Call("Preprepare", Primary, s)] = "unsent"
    BY <1>7 DEF Inv, SentInTurn
  <2> QED
    BY <1>2, <1>4, <1>7, <2>1, CallFields
<1> QED
  BY <1>5, <1>6, <1>7

\* A step that calls no coin node, and ends no call to it, leaves those calls alone.
LEMMA LockedStays ==
  ASSUME Inv,
         \A k \in Calls : pc[k] \in {"call", "done", "failed"} => pc'[k] = pc[k],
         \A k \in Calls : pc'[k] = "call" => pc[k] = "call",
         UNCHANGED <<committed, ins, actions>>,
         \A s \in Seqs : client'[s] = "returned" => committed[s]
  PROVE  Locked' /\ CommitOnce'
<1>1. \A i \in 1 .. Len(actions) : actions[i].by \in Calls
  BY ActionType DEF Inv
<1>2. \A m \in Calls : pc'[m] = "call" => ins'[m.seq] = m /\ CalledBy(m)'
  BY DEF Inv, Locked, CalledBy
<1>3. ASSUME NEW s \in Seqs, committed'[s] PROVE ins'[s] = Free /\ Executed(s)'
  <2>1. ins[s] = Free /\ Executed(s)
    BY <1>3 DEF Inv, Locked
  <2> QED
    BY <1>1, <2>1 DEF Executed
<1>4. \A s \in Seqs : client'[s] = "returned" => committed'[s]
  OBVIOUS
<1>5. ASSUME NEW i \in 1 .. Len(actions)
      PROVE  Accounted(actions[i])' /\ pc'[actions[i].by] = pc[actions[i].by]
  <2>1. Accounted(actions[i])
    BY DEF Inv, Locked
  <2> QED
    BY <1>1, <2>1 DEF Accounted
<1>6. CommitOnce'
  BY <1>5 DEF Inv, CommitOnce
<1> QED
  BY <1>2, <1>3, <1>4, <1>5, <1>6 DEF Locked

(***************************************************************************)
(* The steps that change neither flags nor ins_mutex_ nor the actions.     *)
(***************************************************************************)
LEMMA QuietStep ==
  ASSUME Inv, TypeOK', InHandler', Counted', NEW m \in Calls,
         PeerSend(m) \/ Start(m) \/ Handler(m),
         UNCHANGED <<prepared, committed, ins, client, actions>>,
         \A s \in Seqs : body[s] # "absent" => body'[s] # "absent",
         pc'[m] \in {"load", "store", "tally", "act"} => body'[m.seq] # "absent",
         pc[m] # "call", pc'[m] # "call",
         pc'[m] = "act" => Enough(m.mtype, m.seq)
  PROVE  Inv'
<1>1. PcGrows
  BY MovesGrow
<1>2. SentInTurn'
  BY SentInTurnStep
<1>3. \A k \in Calls : k # m => pc'[k] = pc[k] \/ pc'[k] = "queued"
  BY Moves
<1>4. Inserted'
  BY <1>3, CallsAre DEF Inv, Inserted
<1>5. Locked' /\ CommitOnce'
  <2>1. \A k \in Calls : pc[k] \in {"call", "done", "failed"} => pc'[k] = pc[k]
    BY Moves
  <2>2. \A s \in Seqs : client'[s] = "returned" => committed[s]
    BY DEF Inv, Locked
  <2> QED
    BY <1>3, <2>1, <2>2, LockedStays
<1>6. Backed'
  <2>1. \A s \in Seqs : prepared'[s] => QuorumVoted("Prepare", s)'
    BY <1>1, VotedGrows DEF Inv, Backed
  <2>2. \A s \in Seqs : ActedOn(s)' => QuorumVoted("Commit", s)'
    BY <1>1, VotedGrows DEF Inv, Backed, ActedOn
  <2>3. ASSUME NEW k \in Calls, pc'[k] = "act" PROVE QuorumVoted(k.mtype, k.seq)'
    <3>1. k.mtype \in {"Prepare", "Commit"} /\ k.seq \in Seqs
      BY <2>3, CallsAre DEF InHandler
    <3>2. CASE k = m
      BY <1>1, <2>3, <3>1, <3>2, EnoughVoted, VotedGrows
    <3>3. CASE k # m
      BY <1>1, <1>3, <2>3, <3>1, <3>3, VotedGrows DEF Inv, Backed
    <3> QED
      BY <3>2, <3>3
  <2> QED
    BY <2>1, <2>2, <2>3 DEF Backed
<1> QED
  BY <1>2, <1>4, <1>5, <1>6 DEF Inv

\* The places of a call that moves, for the steps that send nothing.
LEMMA MoveType ==
  ASSUME Inv, NEW m \in Calls, PeerSend(m) \/ Start(m) \/ Handler(m),
         pc'[m] \in {"find", "add", "fill", "ask"} => m.mtype = "Preprepare",
         pc'[m] \in {"insert", "load", "store", "tally", "act"} => m.mtype # "Preprepare",
         pc'[m] = "call" => m.mtype = "Commit"
  PROVE  InHandler'
<1>1. \A k \in Calls : k # m => pc'[k] = pc[k] \/ pc'[k] = "queued"
  BY Moves
<1> QED
  BY <1>1 DEF Inv, InHandler

\* The votes stay as they are, and so do what threads have found.
LEMMA CountedStays ==
  ASSUME Inv, NEW m \in Calls, PeerSend(m) \/ Start(m) \/ Handler(m),
         UNCHANGED <<votes, seen>>
  PROVE  Counted'
<1>1. PcGrows
  BY MovesGrow
<1>2. \A t \in {"Prepare", "Commit"}, s \in Seqs : Voted(t, s) \subseteq Voted(t, s)'
  BY <1>1, VotedGrows
<1>3. \A t \in {"Prepare", "Commit"}, s \in Seqs : votes'[t][s] \subseteq Voted(t, s)'
  BY <1>2 DEF Inv, Counted
<1>4. ASSUME NEW k \in Calls, k.mtype # "Preprepare"
      PROVE  seen'[k] \subseteq Voted(k.mtype, k.seq)'
  <2>1. k.mtype \in {"Prepare", "Commit"} /\ k.seq \in Seqs
    BY <1>4, CallsAre
  <2> QED
    BY <1>2, <1>4, <2>1 DEF Inv, Counted
<1> QED
  BY <1>3, <1>4 DEF Counted

\* Every type of step on a call keeps the invariant.
LEMMA PeerSendInv ==
  ASSUME Inv, NEW m \in Calls, PeerSend(m) \/ Start(m)
  PROVE  Inv'
<1>1. /\ pc' \in [Calls -> Labels]
      /\ UNCHANGED <<body, votes, seen, prepared, committed, mutex, ins, client, actions>>
  BY Moves DEF PeerSend, Start
<1>2. TypeOK'
  BY <1>1 DEF Inv, TypeOK
<1>3. \/ pc'[m] = "queued"
      \/ pc'[m] = "find" /\ m.mtype = "Preprepare"
      \/ pc'[m] = "insert" /\ m.mtype # "Preprepare"
  BY DEF PeerSend, Start, Goto, Inv, TypeOK
<1>4. InHandler'
  BY <1>3, MoveType
<1>5. Counted'
  BY <1>1, CountedStays
<1>6. pc[m] # "call"
  BY DEF PeerSend, Start
<1> QED
  BY <1>1, <1>2, <1>3, <1>4, <1>5, <1>6, QuietStep

\* Looking the proposal up, adding it or its body.
LEMMA PrepareInv ==
  ASSUME Inv, NEW m \in Calls,
         PrepareFind(m) \/ PrepareAdd(m) \/ PrepareFill(m) \/ PrepareAsk(m)
  PROVE  Inv'
<1>1. Handler(m) /\ m.seq \in Seqs
  BY CallsAre DEF Handler
<1>2. /\ pc' \in [Calls -> Labels]
      /\ UNCHANGED <<votes, seen, prepared, committed, ins, client, actions>>
  BY <1>1, Moves DEF PrepareFind, PrepareAdd, PrepareFill, PrepareAsk
<1>3. m.mtype = "Preprepare"
  BY DEF PrepareFind, PrepareAdd, PrepareFill, PrepareAsk, Inv, InHandler
<1>4. mutex' \in Calls \cup {Free}
  BY DEF PrepareFind, PrepareAdd, PrepareFill, PrepareAsk, Inv, TypeOK
<1>5. /\ body' \in [Seqs -> {"absent", "empty", "full"}]
      /\ \A s \in Seqs : body[s] # "absent" => body'[s] # "absent"
  BY <1>1 DEF PrepareFind, PrepareAdd, PrepareFill, PrepareAsk, Inv, TypeOK
<1>6. pc'[m] \in {"add", "fill", "ask", "done"}
  <2>1. CASE PrepareAsk(m)
    <3>1. CASE Goto(m, "done")
      BY <3>1 DEF Goto, Inv, TypeOK
    <3>2. CASE Broadcast(m, "Prepare")
      BY <1>3, <3>2, BroadcastIs DEF Inv
    <3> QED
      BY <2>1, <3>1, <3>2 DEF PrepareAsk
  <2>2. CASE PrepareFind(m) \/ PrepareAdd(m) \/ PrepareFill(m)
    BY <2>2 DEF PrepareFind, PrepareAdd, PrepareFill, Goto, Inv, TypeOK
  <2> QED
    BY <2>1, <2>2
<1>7. TypeOK'
  BY <1>2, <1>4, <1>5 DEF Inv, TypeOK
<1>8. InHandler'
  BY <1>1, <1>3, <1>6, MoveType
<1>9. Counted'
  BY <1>1, <1>2, CountedStays
<1>10. pc[m] # "call"
  BY DEF PrepareFind, PrepareAdd, PrepareFill, PrepareAsk
<1> QED
  BY <1>1, <1>2, <1>5, <1>6, <1>7, <1>8, <1>9, <1>10, QuietStep

\* Inserting the proposal, and counting a vote.
LEMMA VoteInv ==
  ASSUME Inv, NEW m \in Calls,
         Insert(m) \/ UpdateLoad(m) \/ UpdateStore(m) \/ CheckVotes(m)
  PROVE  Inv'
<1>1. Handler(m) /\ m.seq \in Seqs /\ m.from \in Alive
  BY CallsAre DEF Handler
<1>2. m.mtype \in {"Prepare", "Commit"} /\ m = Call(m.mtype, m.from, m.seq)
  BY CallsAre DEF Insert, UpdateLoad, UpdateStore, CheckVotes, Inv, InHandler
<1>3. /\ pc' \in [Calls -> Labels]
      /\ UNCHANGED <<prepared, committed, mutex, ins, client, actions>>
  BY <1>1, Moves DEF Insert, UpdateLoad, UpdateStore, CheckVotes
<1>4. /\ body' \in [Seqs -> {"absent", "empty", "full"}]
      /\ \A s \in Seqs : body[s] # "absent" => body'[s] # "absent"
      /\ body'[m.seq] # "absent"
  BY <1>1 DEF Insert, UpdateLoad, UpdateStore, CheckVotes, Inv, TypeOK, Inserted
<1>5. /\ pc'[m] \in {"load", "store", "tally", "act", "done"}
      /\ pc'[m] = "act" => Enough(m.mtype, m.seq)
      /\ UpdateStore(m) => pc'[m] = "tally"
  BY DEF Insert, UpdateLoad, UpdateStore, CheckVotes, Goto, Inv, TypeOK
<1>6. InHandler'
  BY <1>1, <1>2, <1>5, MoveType
<1>7. PcGrows
  BY <1>1, MovesGrow
<1>8. \A t \in {"Prepare", "Commit"}, s \in Seqs : Voted(t, s) \subseteq Voted(t, s)'
  BY <1>7, VotedGrows
<1>9. /\ votes' \in [{"Prepare", "Commit"} -> [Seqs -> SUBSET Alive]]
      /\ seen' \in [Calls -> SUBSET Alive]
      /\ Counted'
  <2>1. CASE Insert(m) \/ CheckVotes(m)
    <3>1. UNCHANGED <<votes, seen>>
      BY <2>1 DEF Insert, CheckVotes
    <3> QED
      BY <1>1, <3>1, CountedStays DEF Inv, TypeOK
  <2>2. CASE UpdateLoad(m)
    <3>1. votes' = votes /\ seen' = [seen EXCEPT ![m] = votes[m.mtype][m.seq]]
      BY <2>2 DEF UpdateLoad
    <3>2. seen' \in [Calls -> SUBSET Alive]
      BY <1>1, <1>2, <3>1 DEF Inv, TypeOK
    <3>3. \A t \in {"Prepare", "Commit"}, s \in Seqs : votes'[t][s] \subseteq Voted(t, s)'
      BY <1>8, <3>1 DEF Inv, Counted
    <3>4. ASSUME NEW k \in Calls, k.mtype # "Preprepare"
          PROVE  seen'[k] \subseteq Voted(k.mtype, k.seq)'
      <4>1. k.mtype \in {"Prepare", "Commit"} /\ k.seq \in Seqs
        BY <3>4, CallsAre
      <4>2. seen'[k] \subseteq Voted(k.mtype, k.seq)
        BY <1>1, <1>2, <3>1, <3>4 DEF Inv, Counted, TypeOK
      <4> QED
        BY <1>8, <4>1, <4>2
    <3> QED
      BY <3>1, <3>2, <3>3, <3>4 DEF Inv, TypeOK, Counted
  <2>3. CASE UpdateStore(m)
    <3>1. /\ votes' = [votes EXCEPT ![m.mtype][m.seq] = seen[m] \cup {m.from}]
          /\ seen' = [seen EXCEPT ![m] = {}]
      BY <2>3 DEF UpdateStore
    <3>2. /\ votes' \in [{"Prepare", "Commit"} -> [Seqs -> SUBSET Alive]]
          /\ seen' \in [Calls -> SUBSET Alive]
      BY <1>1, <1>2, <3>1 DEF Inv, TypeOK
    <3>3. m.from \in Voted(m.mtype, m.seq)'
      BY <1>1, <1>2, <1>5, <2>3 DEF Voted
    <3>4. seen[m] \subseteq Voted(m.mtype, m.seq)
      BY <1>2 DEF Inv, Counted
    <3>5. seen[m] \subseteq Voted(m.mtype, m.seq)'
      BY <1>1, <1>2, <1>8, <3>4
    <3>6. ASSUME NEW t \in {"Prepare", "Commit"}, NEW s \in Seqs
          PROVE  votes'[t][s] \subseteq Voted(t, s)'
      <4>1. CASE t = m.mtype /\ s = m.seq
        BY <1>1, <1>2, <3>1, <3>3, <3>5, <4>1 DEF Inv, TypeOK
      <4>2. CASE ~ (t = m.mtype /\ s = m.seq)
        <5>1. votes'[t][s] = votes[t][s]
          BY <1>1, <1>2, <3>1, <4>2 DEF Inv, TypeOK
        <5> QED
          BY <1>8, <5>1 DEF Inv, Counted
      <4> QED
        BY <4>1, <4>2
    <3>7. ASSUME NEW k \in Calls, k.mtype # "Preprepare"
          PROVE  seen'[k] \subseteq Voted(k.mtype, k.seq)'
      <4>1. k.mtype \in {"Prepare", "Commit"} /\ k.seq \in Seqs
        BY <3>7, CallsAre
      <4>2. seen'[k] \subseteq Voted(k.mtype, k.seq)
        BY <3>1, <3>7 DEF Inv, Counted, TypeOK
      <4> QED
        BY <1>8, <4>1, <4>2
    <3> QED
      BY <3>2, <3>6, <3>7 DEF Counted
  <2> QED
    BY <2>1, <2>2, <2>3
<1>10. TypeOK'
  BY <1>3, <1>4, <1>9 DEF Inv, TypeOK
<1>11. pc[m] # "call"
  BY DEF Insert, UpdateLoad, UpdateStore, CheckVotes
<1> QED
  BY <1>1, <1>3, <1>4, <1>5, <1>6, <1>9, <1>10, <1>11, QuietStep

\* What acts on a tally has had the votes of a quorum, after a step too.
LEMMA BackedActs ==
  ASSUME Inv, InHandler', PcGrows, NEW k \in Calls, pc'[k] = "act", pc[k] = "act"
  PROVE  QuorumVoted(k.mtype, k.seq)'
<1>1. k.mtype \in {"Prepare", "Commit"} /\ k.seq \in Seqs
  BY CallsAre DEF InHandler
<1>2. QuorumVoted(k.mtype, k.seq)
  BY DEF Inv, Backed
<1> QED
  BY <1>1, <1>2, VotedGrows

\* The rest of Commit keeps the invariant.
LEMMA CommitActInv ==
  ASSUME Inv, NEW m \in Calls, CommitAct(m)
  PROVE  Inv'
<1>1. Handler(m) /\ m.seq \in Seqs /\ m.mtype = "Prepare" /\ pc[m] = "act"
  BY CallsAre DEF Handler, CommitAct
<1>2. UNCHANGED <<body, votes, seen, committed, mutex, ins, client, actions>>
  BY DEF CommitAct
<1>3. \/ prepared' = prepared
      \/ prepared' = [prepared EXCEPT ![m.seq] = TRUE]
  BY Zenon DEF CommitAct
<1>4. /\ prepared' \in [Seqs -> BOOLEAN]
      /\ \A s \in Seqs : prepared[s] => prepared'[s]
      /\ \A s \in Seqs : s # m.seq => (prepared'[s] <=> prepared[s])
  <2>1. prepared \in [Seqs -> BOOLEAN]
    BY DEF Inv, TypeOK
  <2>2. CASE prepared' = prepared
    BY <2>1, <2>2
  <2>3. CASE prepared' = [prepared EXCEPT ![m.seq] = TRUE]
    BY <1>1, <2>1, <2>3, SetFlag
  <2> QED
    BY <1>3, <2>2, <2>3
<1>5. pc' \in [Calls -> Labels] /\ pc'[m] = "done"
  <2>1. pc' \in [Calls -> Labels]
    BY <1>1, Moves
  <2>2. CASE Goto(m, "done")
    BY <2>1, <2>2 DEF Goto, Inv, TypeOK
  <2>3. CASE Broadcast(m, "Commit")
    BY <1>1, <2>3, BroadcastIs DEF Inv
  <2>4. Goto(m, "done") \/ Broadcast(m, "Commit")
    BY Zenon DEF CommitAct
  <2> QED
    BY <2>1, <2>2, <2>3, <2>4
<1>6. TypeOK'
  BY <1>2, <1>4, <1>5 DEF Inv, TypeOK
<1>7. PcGrows
  BY <1>1, MovesGrow
<1>8. InHandler'
  BY <1>1, <1>5, MoveType
<1>9. SentInTurn'
  BY <1>1, <1>2, <1>4, SentInTurnStep
<1>10. \A k \in Calls : k # m => pc'[k] = pc[k] \/ pc'[k] = "queued"
  BY <1>1, Moves
<1>11. Inserted'
  BY <1>2, <1>5, <1>10 DEF Inv, Inserted
<1>12. Locked' /\ CommitOnce'
  <2>1. \A k \in Calls : pc[k] \in {"call", "done", "failed"} => pc'[k] = pc[k]
    BY <1>1, Moves
  <2>2. \A s \in Seqs : client'[s] = "returned" => committed[s]
    BY <1>2 DEF Inv, Locked
  <2> QED
    BY <1>2, <1>5, <1>10, <2>1, <2>2, LockedStays
<1>13. Counted'
  BY <1>1, <1>2, CountedStays
<1>14. Backed'
  <2>1. QuorumVoted("Prepare", m.seq)
    BY <1>1 DEF Inv, Backed
  <2>2. \A s \in Seqs : prepared'[s] => QuorumVoted("Prepare", s)
    BY <1>4, <2>1 DEF Inv, Backed
  <2>3. \A s \in Seqs : prepared'[s] => QuorumVoted("Prepare", s)'
    BY <1>7, <2>2, VotedGrows
  <2>4. \A s \in Seqs : ActedOn(s)' => QuorumVoted("Commit", s)'
    BY <1>2, <1>7, VotedGrows DEF Inv, Backed, ActedOn
  <2>5. \A k \in Calls : pc'[k] = "act" => QuorumVoted(k.mtype, k.seq)'
    BY <1>5, <1>7, <1>8, <1>10, BackedActs
  <2> QED
    BY <2>3, <2>4, <2>5 DEF Backed
<1> QED
  BY <1>6, <1>8, <1>9, <1>11, <1>12, <1>13, <1>14 DEF Inv

\* Calling CommitAction, or finding that it is not to be called.
LEMMA ReplyActInv ==
  ASSUME Inv, NEW m \in Calls, ReplyAct(m)
  PROVE  Inv'
<1>1. Handler(m) /\ m.seq \in Seqs /\ m.mtype = "Commit" /\ pc[m] = "act" /\ ins[m.seq] = Free
  BY CallsAre DEF Handler, ReplyAct
<1>2. UNCHANGED <<body, votes, seen, prepared, committed, mutex, client>>
  BY DEF ReplyAct
<1>3. PcGrows /\ pc' \in [Calls -> Labels]
  BY <1>1, Moves, MovesGrow
<1>4. \A k \in Calls : k # m => pc'[k] = pc[k] \/ pc'[k] = "queued"
  BY <1>1, Moves
<1>5. pc'[m] \in {"call", "done"}
  <2>1. Goto(m, "call") \/ Goto(m, "done")
    BY Zenon DEF ReplyAct
  <2> QED
    BY <2>1 DEF Goto, Inv, TypeOK
<1>6. InHandler'
  BY <1>1, <1>5, MoveType
<1>7. SentInTurn'
  BY <1>1, <1>2, SentInTurnStep
<1>8. body[m.seq] # "absent"
  BY <1>1 DEF Inv, Inserted
<1>9. Inserted'
  BY <1>2, <1>4, <1>5, <1>8 DEF Inv, Inserted
<1>10. Counted'
  BY <1>1, <1>2, CountedStays
<1>11. /\ \A s \in Seqs : prepared'[s] => QuorumVoted("Prepare", s)'
       /\ \A k \in Calls : pc'[k] = "act" => QuorumVoted(k.mtype, k.seq)'
  BY <1>2, <1>3, <1>4, <1>5, <1>6, VotedGrows, BackedActs DEF Inv, Backed
<1>16. \A k \in Calls : pc[k] \in {"call", "done", "failed"} => pc'[k] = pc[k]
  BY <1>1, Moves
<1>12. CASE pc'[m] = "done" /\ UNCHANGED <<ins, actions>>
  <2>1. TypeOK'
    BY <1>2, <1>3, <1>12 DEF Inv, TypeOK
  <2>2. Locked' /\ CommitOnce'
    <3>1. \A s \in Seqs : client'[s] = "returned" => committed[s]
      BY <1>2 DEF Inv, Locked
    <3> QED
      BY <1>1, <1>2, <1>4, <1>12, <1>16, <3>1, LockedStays
  <2>3. \A s \in Seqs : ActedOn(s)' => QuorumVoted("Commit", s)'
    BY <1>3, <1>12, VotedGrows DEF Inv, Backed, ActedOn
  <2> QED
    BY <1>6, <1>7, <1>9, <1>10, <1>11, <2>1, <2>2, <2>3 DEF Inv, Backed
<1>13. CASE /\ ~ committed[m.seq]
            /\ body[m.seq] # "empty"
            /\ ins' = [ins EXCEPT ![m.seq] = m]
            /\ CommitAction(m)
            /\ pc'[m] = "call"
  <2> DEFINE e == [by |-> m, seq |-> m.seq, body |-> body[m.seq]]
  <2>1. body[m.seq] = "full"
    BY <1>1, <1>8, <1>13 DEF Inv, TypeOK
  <2>2. /\ e \in [by : Calls, seq : Seqs, body : {"absent", "empty", "full"}]
        /\ e.by = m /\ e.seq = m.seq /\ e.body = "full"
    BY <1>1, <2>1
  <2>3. actions' = Append(actions, e)
    BY <1>13 DEF CommitAction
  <2> HIDE DEF e
  <2>4. /\ actions' \in Seq([by : Calls, seq : Seqs, body : {"absent", "empty", "full"}])
        /\ Len(actions) \in Nat
        /\ Len(actions') = Len(actions) + 1
        /\ \A i \in 1 .. Len(actions) : actions'[i] = actions[i]
        /\ actions'[Len(actions) + 1] = e
    BY <2>2, <2>3, AppendAction DEF Inv, TypeOK
  <2>5. /\ ins' \in [Seqs -> Calls \cup {Free}]
        /\ ins'[m.seq] = m
        /\ \A s \in Seqs : s # m.seq => ins'[s] = ins[s]
    BY <1>1, <1>13 DEF Inv, TypeOK
  <2>6. m # Free
    BY FreeAssumption
  <2>7. \A i \in 1 .. Len(actions') : i \in 1 .. Len(actions) \/ i = Len(actions) + 1
    BY <2>4
  <2>8. ASSUME NEW i \in 1 .. Len(actions)
        PROVE  /\ actions'[i] = actions[i]
               /\ actions[i].by \in Calls
               /\ pc'[actions[i].by] = pc[actions[i].by]
               /\ Accounted(actions[i])
               /\ actions[i].seq = m.seq => pc[actions[i].by] = "failed"
    <3>1. Accounted(actions[i]) /\ actions[i].by \in Calls
      BY ActionType DEF Inv, Locked
    <3>2. pc'[actions[i].by] = pc[actions[i].by]
      BY <1>16, <3>1 DEF Accounted
    <3>3. pc[actions[i].by] = "call" => ins[actions[i].seq] # Free
      BY <3>1, FreeAssumption DEF Inv, Locked, Accounted
    <3> QED
      BY <1>1, <1>13, <2>4, <3>1, <3>2, <3>3 DEF Accounted
  <2>9. TypeOK'
    BY <1>2, <1>3, <2>4, <2>5 DEF Inv, TypeOK
  <2>10. Locked'
    <3>1. ASSUME NEW k \in Calls, pc'[k] = "call" PROVE ins'[k.seq] = k /\ CalledBy(k)'
      <4>1. CASE k = m
        BY <2>2, <2>4, <2>5, <4>1 DEF CalledBy
      <4>2. CASE k # m
        <5>1. pc[k] = "call"
          BY <1>4, <3>1, <4>2
        <5>2. ins[k.seq] = k /\ k # Free /\ k.seq \in Seqs /\ CalledBy(k)
          BY <5>1, FreeAssumption, CallsAre DEF Inv, Locked
        <5>3. CalledBy(k)'
          BY <2>4, <5>2 DEF CalledBy
        <5> QED
          BY <1>1, <2>5, <5>2, <5>3
      <4> QED
        BY <4>1, <4>2
    <3>2. ASSUME NEW s \in Seqs, committed'[s]
          PROVE  ins'[s] = Free /\ Executed(s)'
      <4>1. s # m.seq /\ ins[s] = Free /\ Executed(s)
        BY <1>2, <1>13, <3>2 DEF Inv, Locked
      <4>2. Executed(s)'
        BY <2>4, <2>8, <4>1 DEF Executed
      <4> QED
        BY <2>5, <4>1, <4>2
    <3>3. \A s \in Seqs : client'[s] = "returned" => committed'[s]
      BY <1>2 DEF Inv, Locked
    <3>5. \A i \in 1 .. Len(actions) : Accounted(actions[i])'
      BY <1>2, <2>4, <2>8 DEF Accounted
    <3>6. ASSUME NEW i \in 1 .. Len(actions') PROVE Accounted(actions[i])'
      <4>1. CASE i \in 1 .. Len(actions)
        BY <3>5, <4>1
      <4>2. CASE i = Len(actions) + 1
        BY <1>13, <2>2, <2>4, <4>2 DEF Accounted
      <4> QED
        BY <2>7, <4>1, <4>2
    <3> QED
      BY <3>1, <3>2, <3>3, <3>6 DEF Locked
  <2>11. \A s \in Seqs : ActedOn(s)' => QuorumVoted("Commit", s)'
    <3>1. QuorumVoted("Commit", m.seq)
      BY <1>1 DEF Inv, Backed
    <3>2. \A s \in Seqs : ActedOn(s)' => ActedOn(s) \/ s = m.seq
      BY <2>2, <2>4, <2>7 DEF ActedOn
    <3>3. \A s \in Seqs : ActedOn(s)' => QuorumVoted("Commit", s)
      BY <3>1, <3>2 DEF Inv, Backed
    <3> QED
      BY <1>3, <3>3, VotedGrows
  <2>12. CommitOnce'
    <3>1. \A j \in 1 .. Len(actions') : actions'[j].body = "full"
      BY <2>2, <2>4, <2>7 DEF Inv, CommitOnce
    <3>2. ASSUME NEW j \in 1 .. Len(actions'), NEW i \in 1 .. (j - 1),
                 actions'[i].seq = actions'[j].seq
          PROVE  pc'[actions'[i].by] = "failed"
      <4>1. i \in 1 .. Len(actions)
        BY <2>4, <3>2
      <4>2. CASE j \in 1 .. Len(actions)
        <5>1. actions'[i] = actions[i] /\ actions'[j] = actions[j]
          BY <2>4, <4>1, <4>2
        <5>2. pc[actions[i].by] = "failed"
          BY <3>2, <4>2, <5>1 DEF Inv, CommitOnce
        <5> QED
          BY <2>8, <4>1, <5>1, <5>2
      <4>3. CASE j = Len(actions) + 1
        <5>1. actions'[i] = actions[i] /\ actions[i].seq = m.seq
          BY <2>2, <2>4, <3>2, <4>1, <4>3
        <5> QED
          BY <2>8, <4>1, <5>1
      <4> QED
        BY <2>7, <4>2, <4>3
    <3> QED
      BY <3>1, <3>2 DEF CommitOnce
  <2> QED
    BY <1>6, <1>7, <1>9, <1>10, <1>11, <2>9, <2>10, <2>11, <2>12 DEF Inv, Backed
<1>14. \/ Goto(m, "done") /\ UNCHANGED <<ins, actions>>
       \/ /\ ~ committed[m.seq]
          /\ body[m.seq] # "empty"
          /\ ins' = [ins EXCEPT ![m.seq] = m]
          /\ CommitAction(m)
          /\ Goto(m, "call")
  BY Zenon DEF ReplyAct
<1>15. /\ Goto(m, "done") => pc'[m] = "done"
       /\ Goto(m, "call") => pc'[m] = "call"
  BY DEF Goto, Inv, TypeOK
<1> QED
  BY <1>12, <1>13, <1>14, <1>15, Zenon

\* The coin node has answered, or has failed to.
LEMMA ReplyEndsInv ==
  ASSUME Inv, NEW m \in Calls, ReplyCommitted(m) \/ ReplyThrows(m)
  PROVE  Inv'
<1>1. Handler(m) /\ m.seq \in Seqs /\ m.mtype = "Commit" /\ pc[m] = "call"
  BY CallsAre DEF Handler, ReplyCommitted, ReplyThrows, Inv, InHandler
<1>2. UNCHANGED <<body, votes, seen, prepared, mutex, client, actions>>
  BY DEF ReplyCommitted, ReplyThrows
<1>3. PcGrows /\ pc' \in [Calls -> Labels]
  BY <1>1, Moves, MovesGrow
<1>4. \A k \in Calls : k # m => pc'[k] = pc[k] \/ (pc'[k] = "queued" /\ pc[k] = "unsent")
  BY <1>1, Moves
<1>5. /\ committed' \in [Seqs -> BOOLEAN]
      /\ \A s \in Seqs : s # m.seq => (committed'[s] <=> committed[s])
      /\ \/ pc'[m] = "done" /\ committed'[m.seq]
         \/ pc'[m] = "failed" /\ (committed'[m.seq] <=> committed[m.seq])
  <2>1. pc \in [Calls -> Labels] /\ committed \in [Seqs -> BOOLEAN]
    BY DEF Inv, TypeOK
  <2>2. CASE ReplyCommitted(m)
    <3>1. /\ committed' = [committed EXCEPT ![m.seq] = TRUE]
          /\ Goto(m, "done")
      BY <2>2 DEF ReplyCommitted
    <3>2. pc'[m] = "done"
      BY <2>1, <3>1 DEF Goto
    <3> QED
      BY <1>1, <2>1, <3>1, <3>2, SetFlag
  <2>3. CASE ReplyThrows(m)
    <3>1. committed' = committed /\ Goto(m, "failed")
      BY <2>3 DEF ReplyThrows
    <3>2. pc'[m] = "failed"
      BY <2>1, <3>1 DEF Goto
    <3> QED
      BY <2>1, <3>1, <3>2
  <2> QED
    BY <2>2, <2>3
<1>6. InHandler'
  BY <1>1, <1>5, MoveType
<1>7. SentInTurn'
  BY <1>1, <1>2, SentInTurnStep
<1>8. Inserted'
  BY <1>2, <1>4, <1>5 DEF Inv, Inserted
<1>9. Counted'
  BY <1>1, <1>2, CountedStays
<1>10. ins[m.seq] = m /\ m # Free /\ CalledBy(m) /\ ~ committed[m.seq]
  BY <1>1, FreeAssumption DEF Inv, Locked
<1>12. /\ ins' \in [Seqs -> Calls \cup {Free}]
       /\ ins'[m.seq] = Free
       /\ \A s \in Seqs : s # m.seq => ins'[s] = ins[s]
  BY <1>1 DEF ReplyCommitted, ReplyThrows, Inv, TypeOK
<1>13. TypeOK'
  BY <1>2, <1>3, <1>5, <1>12 DEF Inv, TypeOK
<1>14. ASSUME NEW i \in 1 .. Len(actions)
       PROVE  /\ actions[i].by \in Calls /\ actions[i].seq \in Seqs
              /\ Accounted(actions[i])
              /\ actions[i].by # m => pc'[actions[i].by] = pc[actions[i].by]
  <2>1. actions[i].by \in Calls /\ actions[i].seq \in Seqs /\ Accounted(actions[i])
    BY ActionType DEF Inv, Locked
  <2> QED
    BY <1>4, <2>1 DEF Accounted
<1>15. \A i \in 1 .. Len(actions) : pc[actions[i].by] \in {"done", "failed"} => actions[i].by # m
  BY <1>1
<1>16. Locked'
  <2>1. ASSUME NEW k \in Calls, pc'[k] = "call" PROVE ins'[k.seq] = k /\ CalledBy(k)'
    <3>1. pc[k] = "call" /\ k # m
      BY <1>4, <1>5, <2>1
    <3>2. ins[k.seq] = k /\ ins[m.seq] = m /\ k.seq \in Seqs /\ CalledBy(k)
      BY <1>1, <3>1, CallsAre DEF Inv, Locked
    <3>3. k.seq # m.seq
      BY <3>1, <3>2
    <3> QED
      BY <1>2, <1>12, <3>2, <3>3 DEF CalledBy
  <2>2. ASSUME NEW s \in Seqs, committed'[s]
        PROVE  ins'[s] = Free /\ Executed(s)'
    <3>1. CASE s = m.seq
      <4>1. pc'[m] = "done"
        BY <1>5, <1>10, <2>2, <3>1
      <4>2. PICK i \in 1 .. Len(actions) : actions[i].by = m
        BY <1>10 DEF CalledBy
      <4>3. actions[i].seq = s
        BY <1>14, <3>1, <4>2 DEF Accounted
      <4> QED
        BY <1>2, <1>12, <3>1, <4>1, <4>2, <4>3 DEF Executed
    <3>2. CASE s # m.seq
      <4>1. ins[s] = Free /\ Executed(s)
        BY <1>5, <2>2, <3>2 DEF Inv, Locked
      <4>2. Executed(s)'
        BY <1>2, <1>14, <1>15, <4>1 DEF Executed
      <4> QED
        BY <1>12, <3>2, <4>1, <4>2
    <3> QED
      BY <3>1, <3>2
  <2>3. ASSUME NEW s \in Seqs, client'[s] = "returned" PROVE committed'[s]
    <3>1. committed[s]
      BY <1>2, <2>3 DEF Inv, Locked
    <3> QED
      BY <1>5, <1>10, <3>1
  <2>4. ASSUME NEW i \in 1 .. Len(actions) PROVE Accounted(actions[i])'
    <3>1. CASE actions[i].by = m
      BY <1>2, <1>5, <1>14, <3>1 DEF Accounted
    <3>2. CASE actions[i].by # m
      <4>1. committed[actions[i].seq] => committed'[actions[i].seq]
        BY <1>5, <1>10, <1>14
      <4> QED
        BY <1>2, <1>14, <3>2, <4>1 DEF Accounted
    <3> QED
      BY <3>1, <3>2
  <2> QED
    BY <1>2, <2>1, <2>2, <2>3, <2>4 DEF Locked
<1>17. Backed'
  <2>1. \A s \in Seqs : prepared'[s] => QuorumVoted("Prepare", s)'
    BY <1>2, <1>3, VotedGrows DEF Inv, Backed
  <2>2. \A s \in Seqs : ActedOn(s)' => QuorumVoted("Commit", s)'
    BY <1>2, <1>3, VotedGrows DEF Inv, Backed, ActedOn
  <2>3. \A k \in Calls : pc'[k] = "act" => QuorumVoted(k.mtype, k.seq)'
    BY <1>3, <1>4, <1>5, <1>6, BackedActs
  <2> QED
    BY <2>1, <2>2, <2>3 DEF Backed
<1>18. CommitOnce'
  BY <1>2, <1>14, <1>15 DEF Inv, CommitOnce
<1> QED
  BY <1>6, <1>7, <1>8, <1>9, <1>13, <1>16, <1>17, <1>18 DEF Inv

\* The thread of GetRequest issues a number, and returns.
LEMMA GetRequestInv ==
  ASSUME Inv, NEW s \in Seqs, GetRequest(s) \/ GetRequestReturn(s)
  PROVE  Inv'
<1>1. UNCHANGED <<votes, seen, prepared, committed, mutex, ins, actions>>
  BY DEF GetRequest, GetRequestReturn
<1>2. /\ client' \in [Seqs -> {"idle", "waiting", "returned"}]
      /\ client'[s] # "idle"
      /\ client'[s] = "returned" => committed[s]
      /\ \A r \in Seqs : r # s => client'[r] = client[r]
  BY DEF GetRequest, GetRequestReturn, Inv, TypeOK
<1>3. /\ body' \in [Seqs -> {"absent", "empty", "full"}]
      /\ \A r \in Seqs : body[r] # "absent" => body'[r] # "absent"
  BY DEF GetRequest, GetRequestReturn, Inv, TypeOK
<1>4. /\ pc' \in [Calls -> Labels]
      /\ \A k \in Calls :
            pc'[k] = pc[k] \/ /\ k = Call("Preprepare", Primary, s)
                              /\ pc[k] = "unsent"
                              /\ pc'[k] = "queued"
  <2>1. CASE GetRequestReturn(s)
    BY <2>1 DEF GetRequestReturn, Inv, TypeOK
  <2>2. CASE GetRequest(s)
    <3>1. /\ Me = Primary
          /\ client[s] = "idle"
          /\ Goto(Call("Preprepare", Me, s), "queued")
      BY <2>2 DEF GetRequest
    <3>2. Call("Preprepare", Primary, s) \in Calls /\ "queued" \in Labels
      BY CallsAre DEF Labels
    <3>3. pc[Call("Preprepare", Primary, s)] = "unsent"
      BY <3>1 DEF Inv, SentInTurn
    <3> HIDE DEF Inv
    <3>4. pc \in [Calls -> Labels]
      BY DEF Inv, TypeOK
    <3> QED
      BY <3>1, <3>2, <3>3, <3>4, GotoIs DEF Goto
  <2> QED
    BY <2>1, <2>2
<1>5. TypeOK'
  BY <1>1, <1>2, <1>3, <1>4 DEF Inv, TypeOK
<1>6. InHandler'
  BY <1>4 DEF Inv, InHandler
<1>7. PcGrows
  BY <1>4 DEF PcGrows
<1>8. SentInTurn'
  <2> SUFFICES ASSUME NEW r \in Seqs
               PROVE  /\ pc'[Call("Prepare", Me, r)] # "unsent" => pc'[Call("Preprepare", Primary, r)] = "done"
                      /\ pc'[Call("Commit", Me, r)] # "unsent" => prepared'[r]
                      /\ Me = Primary /\ client'[r] = "idle" => pc'[Call("Preprepare", Primary, r)] = "unsent"
    BY DEF SentInTurn
  <2>1. /\ Call("Prepare", Me, r) \in Calls
        /\ Call("Commit", Me, r) \in Calls
        /\ Call("Preprepare", Primary, r) \in Calls
    BY CallsAre
  <2>2. /\ pc'[Call("Prepare", Me, r)] = pc[Call("Prepare", Me, r)]
        /\ pc'[Call("Commit", Me, r)] = pc[Call("Commit", Me, r)]
        /\ r # s => pc'[Call("Preprepare", Primary, r)] = pc[Call("Preprepare", Primary, r)]
        /\ pc[Call("Preprepare", Primary, r)] = "done" => pc'[Call("Preprepare", Primary, r)] = "done"
    BY <1>4, <2>1, CallFields
  <2> QED
    BY <1>1, <1>2, <2>2 DEF Inv, SentInTurn
<1>9. Inserted'
  <2>1. \A k \in Calls : k.seq \in Seqs
    BY CallsAre
  <2> QED
    BY <1>3, <1>4, <2>1 DEF Inv, Inserted
<1>10. Locked' /\ CommitOnce'
  <2>1. \A k \in Calls : pc[k] \in {"call", "done", "failed"} => pc'[k] = pc[k]
    BY <1>4
  <2>2. \A k \in Calls : pc'[k] = "call" => pc[k] = "call"
    BY <1>4
  <2>3. \A r \in Seqs : client'[r] = "returned" => committed[r]
    BY <1>2 DEF Inv, Locked
  <2> QED
    BY <1>1, <2>1, <2>2, <2>3, LockedStays
<1>11. Counted'
  <2>1. \A t \in {"Prepare", "Commit"}, r \in Seqs : Voted(t, r) \subseteq Voted(t, r)'
    BY <1>7, VotedGrows
  <2>2. \A k \in Calls : k.mtype # "Preprepare" => k.mtype \in {"Prepare", "Commit"} /\ k.seq \in Seqs
    BY CallsAre
  <2>3. \A t \in {"Prepare", "Commit"}, r \in Seqs : votes'[t][r] \subseteq Voted(t, r)'
    BY <1>1, <2>1 DEF Inv, Counted
  <2>4. \A k \in Calls : k.mtype # "Preprepare" => seen'[k] \subseteq Voted(k.mtype, k.seq)'
    BY <1>1, <2>1, <2>2 DEF Inv, Counted
  <2> QED
    BY <2>3, <2>4 DEF Counted
<1>12. Backed'
  <2>1. \A r \in Seqs : prepared'[r] => QuorumVoted("Prepare", r)'
    BY <1>1, <1>7, VotedGrows DEF Inv, Backed
  <2>2. \A r \in Seqs : ActedOn(r)' => QuorumVoted("Commit", r)'
    BY <1>1, <1>7, VotedGrows DEF Inv, Backed, ActedOn
  <2>3. \A k \in Calls : pc'[k] = "act" => QuorumVoted(k.mtype, k.seq)'
    BY <1>4, <1>6, <1>7, BackedActs
  <2> QED
    BY <2>1, <2>2, <2>3 DEF Backed
<1> QED
  BY <1>5, <1>6, <1>8, <1>9, <1>10, <1>11, <1>12 DEF Inv

-----------------------------------------------------------------------------
(***************************************************************************)
(* The theorems.                                                           *)
(***************************************************************************)
\* A step that changes nothing keeps the invariant.
LEMMA StutterInv == ASSUME Inv, UNCHANGED vars PROVE Inv'
<1>1. TypeOK' /\ InHandler' /\ SentInTurn' /\ Inserted'
  BY DEF Inv, vars, TypeOK, InHandler, SentInTurn, Inserted
<1>2. Locked' /\ CommitOnce'
  BY DEF Inv, vars, Locked, Executed, CalledBy, Accounted, CommitOnce
<1>3. \A t, s : Voted(t, s)' = Voted(t, s)
  BY DEF vars, Voted
<1>4. Counted'
  BY <1>3 DEF Inv, vars, Counted
<1>5. Backed'
  BY <1>3 DEF Inv, vars, Backed, ActedOn, QuorumVoted
<1> QED
  BY <1>1, <1>2, <1>4, <1>5 DEF Inv

\* Every step keeps the invariant.
LEMMA InvStep == Inv /\ [Next]_vars => Inv'
<1> SUFFICES ASSUME Inv, [Next]_vars PROVE Inv'
  OBVIOUS
<1>1. ASSUME NEW m \in Calls, PeerSend(m) \/ Start(m) PROVE Inv'
  BY <1>1, PeerSendInv
<1>2. ASSUME NEW m \in Calls, Handler(m) PROVE Inv'
  BY <1>2, PrepareInv, VoteInv, CommitActInv, ReplyActInv, ReplyEndsInv DEF Handler
<1>3. ASSUME NEW s \in Seqs, GetRequest(s) \/ GetRequestReturn(s) PROVE Inv'
  BY <1>3, GetRequestInv
<1>4. CASE UNCHANGED vars
  BY <1>4, StutterInv
<1> QED
  BY <1>1, <1>2, <1>3, <1>4 DEF Next

\* The invariant holds throughout.
LEMMA AlwaysInv == Spec => []Inv
  BY InvInit, InvStep, PTL DEF Spec

\* The variables of a process keep their types, whatever threads interleave.
THEOREM TypeCorrect == Spec => []TypeOK
<1>1. Inv => TypeOK
  BY DEF Inv
<1> QED
  BY AlwaysInv, <1>1, PTL

\* However many threads the pool has, and even when votes are lost to races,
\* the coin node is told to commit a proposal at most once, with its body, and
\* again only after calls that failed.
THEOREM CommitsOnce == Spec => []CommitOnce
<1>1. Inv => CommitOnce
  BY DEF Inv
<1> QED
  BY AlwaysInv, <1>1, PTL

\* A process sends its commit, and commits, after a quorum's votes only.
THEOREM VotesAreBacked == Spec => []VotesBacked
<1>1. Inv => VotesBacked
  BY DEF Inv, Backed, VotesBacked, QuorumVoted, ActedOn
<1> QED
  BY AlwaysInv, <1>1, PTL

\* GetRequest returns after the coin node has executed the block.
THEOREM ReturnsAfterExecution == Spec => []ReturnedIsExecuted
<1>1. ASSUME Inv PROVE ReturnedIsExecuted
  <2> SUFFICES ASSUME NEW s \in Seqs, client[s] = "returned"
               PROVE  /\ Executed(s)
                      /\ \A m \in Calls : m.seq = s => pc[m] # "call"
    BY DEF ReturnedIsExecuted, Executed
  <2>1. Executed(s) /\ ins[s] = Free
    BY <1>1 DEF Inv, Locked
  <2> QED
    BY <1>1, <2>1, FreeAssumption DEF Inv, Locked
<1> QED
  BY AlwaysInv, <1>1, PTL
=============================================================================
