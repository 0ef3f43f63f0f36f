-------------------------- MODULE PbftClusterProofs --------------------------
(***************************************************************************)
(* Proofs about the PBFT processes, for every set of replicas, every links *)
(* between them and every number of requests and restarts.                 *)
(***************************************************************************)
EXTENDS PbftCluster, FiniteSetTheorems, SequenceTheorems, TLAPS

\* 2f + 1 is an integer, so it can be compared.
LEMMA QuorumIsInt == Quorum \in Int
<1>1. Cardinality(Nodes) \in Nat
  BY ClusterAssumption, FS_CardinalityType
<1>2. F \in Int
  BY <1>1 DEF F
<1> QED
  BY <1>2 DEF Quorum

-----------------------------------------------------------------------------
(***************************************************************************)
(* Types.                                                                  *)
(***************************************************************************)

\* A message sent by a replica about a request is a message.
LEMMA SendType ==
  ASSUME TypeOK, NEW t \in {"Preprepare", "Prepare", "Commit"}, NEW n \in Nodes,
         NEW s \in Seqs, NEW r \in Requests, SendMessage(t, n, s, r)
  PROVE  sent \subseteq sent' /\ sent' \subseteq Message
<1>1. [mtype |-> t, from |-> n, seq |-> s, req |-> r, inc |-> restarts] \in Message
  BY DEF Message, TypeOK
<1> QED
  BY <1>1 DEF SendMessage, TypeOK

\* The message a handler receives, and what it leaves of the handled ones.
LEMMA ReceiveType ==
  ASSUME TypeOK, NEW n \in Nodes, NEW m \in sent, NEW t, Receive(n, m, t)
  PROVE  /\ m.from \in Nodes /\ m.seq \in Seqs /\ m.req \in Requests
         /\ handled' \in [Nodes -> SUBSET sent]
<1>1. m \in Message
  BY DEF TypeOK
<1>2. handled' \in [Nodes -> SUBSET sent]
  BY DEF TypeOK, Receive
<1> QED
  BY <1>1, <1>2 DEF Message

\* Sets of sent messages stay so when more is sent.
LEMMA SubsetGrows ==
  ASSUME NEW A, NEW B, A \subseteq B, NEW g \in [Nodes -> SUBSET A]
  PROVE  g \in [Nodes -> SUBSET B]
  OBVIOUS

\* Setting one flag of one proposal.
LEMMA SetFlag ==
  ASSUME NEW g \in [Nodes -> [Seqs -> BOOLEAN]], NEW n \in Nodes, NEW s \in Seqs
  PROVE  [g EXCEPT ![n][s] = TRUE] \in [Nodes -> [Seqs -> BOOLEAN]]
  OBVIOUS

\* One more entry of a log.
LEMMA AppendEntry ==
  ASSUME NEW S, NEW q \in Seq(S), NEW e \in S
  PROVE  /\ Append(q, e) \in Seq(S)
         /\ Len(Append(q, e)) = Len(q) + 1
         /\ \A i \in 1 .. Len(q) : Append(q, e)[i] = q[i]
         /\ Append(q, e)[Len(q) + 1] = e
  OBVIOUS

\* Init establishes the type invariant.
LEMMA TypeInit == Init => TypeOK
  BY ClusterAssumption DEF Init, TypeOK, Seqs

\* Every step keeps it.
LEMMA TypeStep == TypeOK /\ [Next]_vars => TypeOK'
<1> SUFFICES ASSUME TypeOK, [Next]_vars PROVE TypeOK'
  OBVIOUS
<1> USE DEF TypeOK
<1>1. ASSUME NEW r \in Requests, GetRequest(r) PROVE TypeOK'
  <2>1. nextSeq \in Seqs /\ nextSeq' \in 0 .. MaxSeq
    BY <1>1, ClusterAssumption DEF GetRequest, Seqs
  <2>2. sent \subseteq sent' /\ sent' \subseteq Message
    BY <1>1, <2>1, SendType, ClusterAssumption DEF GetRequest
  <2>3. handled' \in [Nodes -> SUBSET sent'] /\ votes' \in [Nodes -> SUBSET sent']
    BY <1>1, <2>2, SubsetGrows DEF GetRequest
  <2>4. body' \in [Nodes -> [Seqs -> Requests \cup {NoBody, Absent}]]
    BY <1>1, <2>1 DEF GetRequest
  <2>5. waiting' \subseteq Seqs
    BY <1>1, <2>1 DEF GetRequest
  <2> QED
    BY <1>1, <2>1, <2>2, <2>3, <2>4, <2>5 DEF GetRequest
<1>2. ASSUME NEW s \in Seqs, GetRequestReturn(s) PROVE TypeOK'
  BY <1>2 DEF GetRequestReturn
<1>3. ASSUME NEW n \in Nodes, NEW m \in sent, NEW agree \in BOOLEAN,
             Prepare(n, m, agree)
      PROVE  TypeOK'
  <2>1. /\ m.seq \in Seqs /\ m.req \in Requests
        /\ handled' \in [Nodes -> SUBSET sent]
    BY <1>3, ReceiveType DEF Prepare
  <2>2. sent \subseteq sent' /\ sent' \subseteq Message
    BY <1>3, <2>1, SendType DEF Prepare
  <2>3. handled' \in [Nodes -> SUBSET sent'] /\ votes' \in [Nodes -> SUBSET sent']
    BY <1>3, <2>1, <2>2, SubsetGrows DEF Prepare
  <2>4. body' \in [Nodes -> [Seqs -> Requests \cup {NoBody, Absent}]]
    BY <1>3, <2>1 DEF Prepare
  <2> QED
    BY <1>3, <2>2, <2>3, <2>4 DEF Prepare
<1>4. ASSUME NEW n \in Nodes, NEW m \in sent, Commit(n, m) PROVE TypeOK'
  <2>1. /\ m.seq \in Seqs /\ m.req \in Requests
        /\ handled' \in [Nodes -> SUBSET sent]
    BY <1>4, ReceiveType DEF Commit
  <2>2. sent \subseteq sent' /\ sent' \subseteq Message
    BY <1>4, <2>1, SendType DEF Commit
  <2>3. votes' \in [Nodes -> SUBSET sent]
    BY <1>4 DEF Commit
  <2>4. handled' \in [Nodes -> SUBSET sent'] /\ votes' \in [Nodes -> SUBSET sent']
    BY <2>1, <2>2, <2>3, SubsetGrows
  <2>5. body' \in [Nodes -> [Seqs -> Requests \cup {NoBody, Absent}]]
    BY <1>4, <2>1 DEF Commit, Known
  <2>6. \/ prepared' = prepared
        \/ prepared' = [prepared EXCEPT ![n][m.seq] = TRUE]
    BY <1>4, Zenon DEF Commit
  <2>7. prepared' \in [Nodes -> [Seqs -> BOOLEAN]]
    <3>1. [prepared EXCEPT ![n][m.seq] = TRUE] \in [Nodes -> [Seqs -> BOOLEAN]]
      BY <2>1, SetFlag
    <3> QED
      BY <2>6, <3>1, Zenon
  <2> QED
    BY <1>4, <2>2, <2>4, <2>5, <2>7 DEF Commit
<1>5. ASSUME NEW n \in Nodes, NEW m \in sent, Reply(n, m) PROVE TypeOK'
  <2>1. /\ m.seq \in Seqs /\ m.req \in Requests
        /\ handled' \in [Nodes -> SUBSET sent]
    BY <1>5, ReceiveType DEF Reply
  <2>2. votes' \in [Nodes -> SUBSET sent]
    BY <1>5 DEF Reply
  <2>3. body' \in [Nodes -> [Seqs -> Requests \cup {NoBody, Absent}]]
    BY <1>5, <2>1 DEF Reply, Known
  <2>4. body'[n][m.seq] # Absent
    BY <1>5, <2>1, ClusterAssumption DEF Reply, Known
  <2>5. \/ UNCHANGED <<committed, log>>
        \/ /\ body'[n][m.seq] # NoBody
           /\ committed' = [committed EXCEPT ![n][m.seq] = TRUE]
           /\ log' = [log EXCEPT ![n] =
                         Append(@, [seq |-> m.seq, req |-> body'[n][m.seq]])]
    BY <1>5, Zenon DEF Reply
  <2>6. committed' \in [Nodes -> [Seqs -> BOOLEAN]]
    <3>1. [committed EXCEPT ![n][m.seq] = TRUE] \in [Nodes -> [Seqs -> BOOLEAN]]
      BY <2>1, SetFlag
    <3> QED
      BY <2>5, <3>1, Zenon
  <2>7. log' \in [Nodes -> Seq([seq : Seqs, req : Requests])]
    <3>1. CASE log' = log
      BY <3>1
    <3>2. CASE body'[n][m.seq] # NoBody /\ log' = [log EXCEPT ![n] =
                   Append(@, [seq |-> m.seq, req |-> body'[n][m.seq]])]
      <4>1. body'[n][m.seq] \in Requests
        BY <2>1, <2>3, <2>4, <3>2
      <4>2. [seq |-> m.seq, req |-> body'[n][m.seq]] \in [seq : Seqs, req : Requests]
        BY <2>1, <4>1
      <4>3. Append(log[n], [seq |-> m.seq, req |-> body'[n][m.seq]])
                \in Seq([seq : Seqs, req : Requests])
        BY <4>2, AppendEntry
      <4> QED
        BY <3>2, <4>3
    <3> QED
      BY <2>5, <3>1, <3>2
  <2> QED
    BY <1>5, <2>1, <2>2, <2>3, <2>6, <2>7 DEF Reply
<1>6. ASSUME NEW n \in Nodes, RestartReplica(n) PROVE TypeOK'
  <2>1. body' \in [Nodes -> [Seqs -> Requests \cup {NoBody, Absent}]]
    BY <1>6 DEF RestartReplica, Forget
  <2>2. prepared' \in [Nodes -> [Seqs -> BOOLEAN]]
    BY <1>6, Zenon DEF RestartReplica, Forget
  <2>3. committed' \in [Nodes -> [Seqs -> BOOLEAN]]
    BY <1>6, Zenon DEF RestartReplica, Forget
  <2>4. votes' \in [Nodes -> SUBSET sent]
    BY <1>6 DEF RestartReplica, Forget
  <2>5. restarts' \in 0 .. MaxRestarts
    BY <1>6, ClusterAssumption DEF RestartReplica, Forget
  <2> QED
    BY <1>6, <2>1, <2>2, <2>3, <2>4, <2>5 DEF RestartReplica, Forget
<1>7. CASE UNCHANGED vars
  BY <1>7 DEF vars
<1> QED
  BY <1>1, <1>2, <1>3, <1>4, <1>5, <1>6, <1>7 DEF Next

(***************************************************************************)
(* Type correctness: in particular, what a coin node is told to commit is  *)
(* always a request, never the empty body of a proposal that a prepare or  *)
(* commit message created.                                                 *)
(***************************************************************************)
THEOREM TypeCorrect == Spec => []TypeOK
  BY TypeInit, TypeStep, PTL DEF Spec

-----------------------------------------------------------------------------
(***************************************************************************)
(* Messages, votes and approvals.                                          *)
(***************************************************************************)

\* Messages about the same number are about the same request.
LEMMA SameRequest ==
  ASSUME Inv, NEW m1 \in sent, NEW m2 \in sent, m1.seq = m2.seq
  PROVE  m1.req = m2.req
<1>1. PICK p1 \in sent : IsPreprepare(p1, m1.seq) /\ p1.req = m1.req
  BY DEF Inv, Issuance
<1>2. PICK p2 \in sent : IsPreprepare(p2, m2.seq) /\ p2.req = m2.req
  BY DEF Inv, Issuance
<1>3. p1 = p2
  BY <1>1, <1>2 DEF Inv, Numbered, IsPreprepare
<1> QED
  BY <1>1, <1>2, <1>3

\* The approvers are finitely many, and sending more loses none of them.
LEMMA ApproversGrow ==
  ASSUME sent \subseteq sent', NEW s, NEW r,
         Cardinality(Approvers(s, r)) >= Quorum
  PROVE  Cardinality(Approvers(s, r)') >= Quorum
<1>1. IsFiniteSet(Approvers(s, r)')
  BY ClusterAssumption, FS_Subset, Approvers(s, r)' \in SUBSET Nodes DEF Approvers
<1>2. Approvers(s, r) \in SUBSET (Approvers(s, r)')
  BY DEF Approvers
<1>3. Cardinality(Approvers(s, r)) <= Cardinality(Approvers(s, r)')
  BY <1>1, <1>2, FS_Subset
<1>4. /\ Cardinality(Approvers(s, r)) \in Nat
      /\ Cardinality(Approvers(s, r)') \in Nat
  BY <1>1, <1>2, FS_Subset, FS_CardinalityType
<1> QED
  BY <1>3, <1>4, QuorumIsInt

(***************************************************************************)
(* Votes that pass CheckVotes were cast by as many different replicas: the *)
(* messages with one digest are mapped to their senders, and no replica    *)
(* votes twice.                                                            *)
(***************************************************************************)
LEMMA VotesAreApprovals ==
  ASSUME Inv, NEW vs \in SUBSET sent, NEW s, NEW m \in vs, m.seq = s,
         CheckVotes(vs, "Prepare", s)
  PROVE  Cardinality(Approvers(s, m.req)) >= Quorum
<1>1. PICK d \in Requests \cup {NoBody} :
        Cardinality({v \in vs : v.mtype = "Prepare" /\ v.seq = s /\ Digest(v) = d})
            >= Quorum
  BY DEF CheckVotes
<1> DEFINE V == {v \in vs : v.mtype = "Prepare" /\ v.seq = s /\ Digest(v) = d}
           A == Approvers(s, m.req)
           f == [v \in V |-> v.from]
<1>2. IsFiniteSet(A)
  BY ClusterAssumption, FS_Subset, A \in SUBSET Nodes DEF Approvers
<1>3. ASSUME NEW v \in V PROVE v.from \in A
  <2>1. v \in sent /\ v \in Message /\ v.mtype = "Prepare" /\ v.seq = s
    BY DEF Inv, TypeOK
  <2>2. v.req = m.req
    BY <2>1, SameRequest
  <2> QED
    BY <2>1, <2>2 DEF Approvers, Message
<1>4. ASSUME NEW v \in V, NEW w \in V, v.from = w.from PROVE v = w
  BY <1>4 DEF Inv, VotedOnce
<1>5. f \in Injection(V, A)
  BY <1>3, <1>4 DEF Injection, IsInjective
<1>6. IsFiniteSet(V) /\ Cardinality(V) <= Cardinality(A)
  BY <1>2, <1>5, FS_Injection
<1>7. Cardinality(V) \in Nat /\ Cardinality(A) \in Nat
  BY <1>2, <1>6, FS_CardinalityType
<1> QED
  BY <1>1, <1>6, <1>7, QuorumIsInt

-----------------------------------------------------------------------------
(***************************************************************************)
(* The inductive invariant.                                                *)
(***************************************************************************)

\* Init establishes it.
LEMMA InvInit == Init => Inv
<1> SUFFICES ASSUME Init PROVE Inv
  OBVIOUS
<1>1. TypeOK
  BY TypeInit
<1>2. Numbered /\ Issuance /\ VotedOnce /\ CommitApproved
  BY DEF Init, Numbered, Issuance, VotedOnce, CommitApproved
<1>3. \A n \in Nodes : log[n] = <<>>
  BY DEF Init
<1>4. LogIssued /\ NotAgain /\ QuorumApproved /\ ExecutedOnce
  BY <1>3 DEF LogIssued, NotAgain, Logged, QuorumApproved, ExecutedOnce
<1>5. BodyIssued
  BY ClusterAssumption DEF Init, BodyIssued
<1> QED
  BY <1>1, <1>2, <1>4, <1>5 DEF Inv

\* A step that sends nothing of its own, executes nothing and changes no body
\* of an executed proposal: what the conjuncts about the past need.
LEMMA PastKept ==
  ASSUME Inv, sent \subseteq sent', UNCHANGED log
  PROVE  LogIssued' /\ QuorumApproved' /\ ExecutedOnce'
<1>1. LogIssued'
  BY DEF Inv, LogIssued, IsPreprepare
<1>2. QuorumApproved'
  BY ApproversGrow DEF Inv, QuorumApproved
<1>3. ExecutedOnce'
  BY DEF Inv, ExecutedOnce
<1> QED
  BY <1>1, <1>2, <1>3

\* GetRequest numbers a new request.
LEMMA GetRequestInv ==
  ASSUME Inv, TypeOK', NEW r \in Requests, GetRequest(r)
  PROVE  Inv'
<1> DEFINE new == [mtype |-> "Preprepare", from |-> Primary, seq |-> nextSeq,
                   req |-> r, inc |-> restarts]
<1>1. sent' = sent \cup {new}
  BY DEF GetRequest, SendMessage
<1>2. nextSeq \in Nat /\ nextSeq \in Seqs
  BY ClusterAssumption DEF Inv, TypeOK, GetRequest, Seqs
<1>3. LogIssued' /\ QuorumApproved' /\ ExecutedOnce'
  BY <1>1, PastKept DEF GetRequest
<1>4. \A m \in sent : m.seq \in Nat
  BY DEF Inv, TypeOK, Message, Seqs
<1>5. Numbered'
  BY <1>1, <1>2, <1>4 DEF Inv, Numbered, GetRequest
<1>6. Issuance'
  BY <1>1 DEF Inv, Issuance, IsPreprepare
<1>7. VotedOnce'
  BY <1>1 DEF Inv, VotedOnce, GetRequest
<1>8. CommitApproved'
  BY <1>1, ApproversGrow DEF Inv, CommitApproved
<1>9. BodyIssued'
  <2> SUFFICES ASSUME NEW n \in Nodes, NEW s \in Seqs, body'[n][s] \in Requests
               PROVE  /\ \E p \in sent' : IsPreprepare(p, s) /\ p.req = body'[n][s]
                      /\ n # Primary => \E p \in handled'[n] : IsPreprepare(p, s)
    BY DEF BodyIssued
  <2>1. CASE body'[n][s] = body[n][s]
    BY <1>1, <2>1 DEF Inv, BodyIssued, GetRequest
  <2>2. CASE body'[n][s] # body[n][s]
    <3>1. n = Primary /\ s = nextSeq /\ body'[n][s] = r
      BY <1>2, <2>2, ClusterAssumption DEF Inv, TypeOK, GetRequest
    <3>2. IsPreprepare(new, s) /\ new.req = body'[n][s]
      BY <3>1 DEF IsPreprepare
    <3> QED
      BY <1>1, <3>1, <3>2
  <2> QED
    BY <2>1, <2>2
<1>10. NotAgain'
  <2>1. \A n \in Nodes, s \in Seqs : n # Primary => body'[n][s] = body[n][s]
    BY <1>2 DEF Inv, TypeOK, GetRequest
  <2> QED
    BY <2>1 DEF Inv, NotAgain, Logged, GetRequest
<1> QED
  BY <1>3, <1>5, <1>6, <1>7, <1>8, <1>9, <1>10 DEF Inv

\* Prepare stores a body and may vote.
LEMMA PrepareInv ==
  ASSUME Inv, TypeOK', NEW n \in Nodes, NEW m \in sent, NEW agree \in BOOLEAN,
         Prepare(n, m, agree)
  PROVE  Inv'
<1> DEFINE new == [mtype |-> "Prepare", from |-> n, seq |-> m.seq,
                   req |-> m.req, inc |-> restarts]
<1>1. sent' = sent \/ sent' = sent \cup {new}
  BY DEF Prepare, SendMessage
<1>2. /\ m \notin handled[n] /\ m.mtype = "Preprepare"
      /\ m.seq \in Seqs /\ m.req \in Requests
      /\ handled' = [handled EXCEPT ![n] = @ \cup {m}]
  BY DEF Inv, TypeOK, Message, Prepare, Receive
<1>3. \A k \in Nodes : handled[k] \subseteq handled'[k]
  BY <1>2 DEF Inv, TypeOK
<1>4. LogIssued' /\ QuorumApproved' /\ ExecutedOnce'
  BY <1>1, PastKept DEF Prepare
<1>5. Numbered'
  BY <1>1 DEF Inv, Numbered, Prepare
<1>6. Issuance'
  BY <1>1 DEF Inv, Issuance, IsPreprepare
<1>7. ASSUME NEW p \in handled[n], IsPreprepare(p, m.seq) PROVE FALSE
  BY <1>2, <1>7 DEF Inv, TypeOK, Numbered, IsPreprepare
<1>8. VotedOnce'
  <2>1. \A v \in sent : ~ (v.mtype = "Prepare" /\ v.from = n /\ v.seq = m.seq)
    BY <1>7 DEF Inv, VotedOnce
  <2>2. m \in handled'[n]
    BY <1>2 DEF Inv, TypeOK
  <2>3. \A v \in sent' : v.mtype = "Prepare" =>
            \E p \in handled'[v.from] : IsPreprepare(p, v.seq)
    <3> SUFFICES ASSUME NEW v \in sent', v.mtype = "Prepare"
                 PROVE  \E p \in handled'[v.from] : IsPreprepare(p, v.seq)
      OBVIOUS
    <3>1. CASE v \in sent
      BY <1>3, <3>1 DEF Inv, VotedOnce, TypeOK, Message
    <3>2. CASE v = new
      BY <1>2, <2>2, <3>2 DEF IsPreprepare
    <3> QED
      BY <1>1, <3>1, <3>2
  <2> QED
    BY <1>1, <2>1, <2>3 DEF Inv, VotedOnce
<1>9. CommitApproved'
  BY <1>1, ApproversGrow DEF Inv, CommitApproved
<1>10. BodyIssued'
  <2> SUFFICES ASSUME NEW k \in Nodes, NEW s \in Seqs, body'[k][s] \in Requests
               PROVE  /\ \E p \in sent' : IsPreprepare(p, s) /\ p.req = body'[k][s]
                      /\ k # Primary => \E p \in handled'[k] : IsPreprepare(p, s)
    BY DEF BodyIssued
  <2>1. CASE body'[k][s] = body[k][s]
    BY <1>1, <1>3, <2>1 DEF Inv, BodyIssued
  <2>2. CASE body'[k][s] # body[k][s]
    <3>1. k = n /\ s = m.seq /\ body'[k][s] = m.req
      BY <1>2, <2>2 DEF Inv, TypeOK, Prepare
    <3> QED
      BY <1>1, <1>2, <3>1 DEF IsPreprepare, Inv, TypeOK
  <2> QED
    BY <2>1, <2>2
<1>11. NotAgain'
  <2> SUFFICES ASSUME NEW k \in Nodes, NEW s \in Seqs, Logged(k, s)
               PROVE  /\ k # Primary => \E p \in handled'[k] : IsPreprepare(p, s)
                      /\ committed[k][s] \/ (k # Primary /\ body'[k][s] \notin Requests)
    BY DEF NotAgain, Logged, Prepare
  <2>1. k = n /\ s = m.seq => k = Primary
    BY <1>7 DEF Inv, NotAgain
  <2>2. k # n \/ s # m.seq => body'[k][s] = body[k][s]
    BY <1>2 DEF Inv, TypeOK, Prepare
  <2> QED
    BY <1>3, <2>1, <2>2 DEF Inv, NotAgain
<1> QED
  BY <1>4, <1>5, <1>6, <1>8, <1>9, <1>10, <1>11 DEF Inv

\* Commit counts a vote, and the first time there are enough it sends a commit.
LEMMA CommitInv ==
  ASSUME Inv, TypeOK', NEW n \in Nodes, NEW m \in sent, Commit(n, m)
  PROVE  Inv'
<1> DEFINE new == [mtype |-> "Commit", from |-> n, seq |-> m.seq,
                   req |-> m.req, inc |-> restarts]
<1>1. \/ sent' = sent
      \/ sent' = sent \cup {new} /\ CheckVotes(votes'[n], "Prepare", m.seq)
  BY Zenon DEF Commit, SendMessage
<1>2. /\ m.seq \in Seqs
      /\ handled' = [handled EXCEPT ![n] = @ \cup {m}]
  BY DEF Inv, TypeOK, Message, Commit, Receive
<1>3. \A k \in Nodes : handled[k] \subseteq handled'[k]
  BY <1>2 DEF Inv, TypeOK
<1>4. LogIssued' /\ QuorumApproved' /\ ExecutedOnce'
  BY <1>1, PastKept DEF Commit
<1>5. Numbered'
  BY <1>1 DEF Inv, Numbered, Commit
<1>6. Issuance'
  BY <1>1 DEF Inv, Issuance, IsPreprepare
<1>7. VotedOnce'
  <2>1. \A v \in sent' : v.mtype = "Prepare" => v \in sent
    BY <1>1
  <2>2. \A v \in sent : v.from \in Nodes
    BY DEF Inv, TypeOK, Message
  <2> QED
    BY <1>3, <2>1, <2>2 DEF Inv, VotedOnce
<1>8. CommitApproved'
  <2>1. CASE sent' = sent
    BY <2>1, ApproversGrow DEF Inv, CommitApproved
  <2>2. CASE sent' = sent \cup {new} /\ CheckVotes(votes'[n], "Prepare", m.seq)
    <3>1. votes'[n] \in SUBSET sent /\ m \in votes'[n]
      BY DEF Inv, TypeOK, Commit
    <3>2. Cardinality(Approvers(m.seq, m.req)) >= Quorum
      BY <2>2, <3>1, VotesAreApprovals
    <3> QED
      BY <2>2, <3>2, ApproversGrow DEF Inv, CommitApproved
  <2> QED
    BY <1>1, <2>1, <2>2
<1>9. ASSUME NEW k \in Nodes, NEW s \in Seqs
      PROVE  /\ body'[k][s] \in Requests => body'[k][s] = body[k][s]
             /\ body'[k][s] # body[k][s] => body[k][s] \notin Requests
  BY <1>2, ClusterAssumption DEF Inv, TypeOK, Commit, Known
<1>10. BodyIssued'
  BY <1>1, <1>3, <1>9 DEF Inv, BodyIssued
<1>11. NotAgain'
  BY <1>3, <1>9 DEF Inv, NotAgain, Logged, Commit
<1> QED
  BY <1>4, <1>5, <1>6, <1>7, <1>8, <1>10, <1>11 DEF Inv

\* Reply counts a vote, and may execute the proposal.
LEMMA ReplyInv ==
  ASSUME Inv, TypeOK', NEW n \in Nodes, NEW m \in sent, Reply(n, m)
  PROVE  Inv'
<1> DEFINE e == [seq |-> m.seq, req |-> body'[n][m.seq]]
<1>1. sent' = sent /\ nextSeq' = nextSeq
  BY DEF Reply
<1>2. /\ m.seq \in Seqs
      /\ m.mtype = "Commit"
      /\ handled' = [handled EXCEPT ![n] = @ \cup {m}]
  BY DEF Inv, TypeOK, Message, Reply, Receive
<1>3. \A k \in Nodes : handled[k] \subseteq handled'[k]
  BY <1>2 DEF Inv, TypeOK
<1>4. ASSUME NEW k \in Nodes, NEW s \in Seqs
      PROVE  /\ body'[k][s] \in Requests => body'[k][s] = body[k][s]
             /\ body'[k][s] # body[k][s] => body[k][s] \notin Requests
  BY <1>2, ClusterAssumption DEF Inv, TypeOK, Reply, Known
<1>5. Numbered' /\ Issuance' /\ VotedOnce' /\ CommitApproved'
  <2>1. Numbered' /\ Issuance'
    BY <1>1 DEF Inv, Numbered, Issuance
  <2>2. \A v \in sent : v.from \in Nodes
    BY DEF Inv, TypeOK, Message
  <2>3. VotedOnce'
    BY <1>1, <1>3, <2>2 DEF Inv, VotedOnce
  <2>4. CommitApproved'
    BY <1>1, ApproversGrow DEF Inv, CommitApproved
  <2> QED
    BY <2>1, <2>3, <2>4
<1>6. BodyIssued'
  BY <1>1, <1>3, <1>4 DEF Inv, BodyIssued
<1>7. CASE UNCHANGED <<committed, log>>
  <2>1. LogIssued' /\ QuorumApproved' /\ ExecutedOnce'
    BY <1>1, <1>7, PastKept
  <2>2. NotAgain'
    BY <1>3, <1>4, <1>7 DEF Inv, NotAgain, Logged
  <2> QED
    BY <1>5, <1>6, <2>1, <2>2 DEF Inv
<1>8. CASE /\ ~ committed[n][m.seq]
           /\ body'[n][m.seq] # NoBody
           /\ committed' = [committed EXCEPT ![n][m.seq] = TRUE]
           /\ log' = [log EXCEPT ![n] = Append(@, e)]
  <2>1. body'[n][m.seq] \in Requests /\ body[n][m.seq] \in Requests
    <3>1. body'[n][m.seq] \notin {NoBody, Absent}
      BY <1>2, <1>8, ClusterAssumption DEF Inv, TypeOK, Reply, Known
    <3> QED
      BY <1>2, <1>4, <3>1 DEF TypeOK
  <2>2. ~ Logged(n, m.seq)
    BY <1>2, <1>8, <2>1 DEF Inv, NotAgain
  <2>3. PICK p \in sent : IsPreprepare(p, m.seq) /\ p.req = body'[n][m.seq]
    BY <1>1, <1>2, <1>6, <2>1 DEF BodyIssued
  <2>4. body'[n][m.seq] = m.req
    BY <2>3, SameRequest DEF IsPreprepare
  <2>5. /\ Len(log'[n]) = Len(log[n]) + 1
        /\ \A i \in 1 .. Len(log[n]) : log'[n][i] = log[n][i]
        /\ log'[n][Len(log[n]) + 1] = e
        /\ \A k \in Nodes \ {n} : log'[k] = log[k]
        /\ \A k \in Nodes : Len(log[k]) \in Nat
    <3>1. log[n] \in Seq([seq : Seqs, req : Requests]) /\ e \in [seq : Seqs, req : Requests]
      BY <1>2, <2>1 DEF Inv, TypeOK
    <3>2. log'[n] = Append(log[n], e) /\ \A k \in Nodes \ {n} : log'[k] = log[k]
      BY <1>8 DEF Inv, TypeOK
    <3>3. \A k \in Nodes : Len(log[k]) \in Nat
      BY DEF Inv, TypeOK
    <3> QED
      BY <3>1, <3>2, <3>3, AppendEntry
  <2>6. ASSUME NEW k \in Nodes, NEW i \in 1 .. Len(log'[k])
        PROVE  \/ i \in 1 .. Len(log[k]) /\ log'[k][i] = log[k][i]
               \/ k = n /\ i = Len(log[n]) + 1 /\ log'[k][i] = e
    BY <2>5
  <2>7. LogIssued'
    BY SMTT(30), <1>1, <2>3, <2>6 DEF Inv, LogIssued
  <2>8. QuorumApproved'
    <3>1. Cardinality(Approvers(m.seq, m.req)) >= Quorum
      BY <1>2 DEF Inv, CommitApproved
    <3>2. ASSUME NEW k \in Nodes, NEW i \in 1 .. Len(log'[k]), NEW s, NEW r,
                 s = log'[k][i].seq, r = log'[k][i].req
          PROVE  Cardinality(Approvers(s, r)') >= Quorum
      <4>1. Cardinality(Approvers(s, r)) >= Quorum
        BY <2>4, <2>6, <3>1, <3>2 DEF Inv, QuorumApproved
      <4> QED
        BY <1>1, <4>1, ApproversGrow
    <3> QED
      BY <3>2 DEF QuorumApproved, Approvers
  <2>9. ExecutedOnce'
    <3> SUFFICES ASSUME NEW k \in Nodes, NEW i \in 1 .. Len(log'[k]),
                        NEW j \in 1 .. Len(log'[k]), log'[k][i].seq = log'[k][j].seq
                 PROVE  i = j
      BY DEF ExecutedOnce
    <3>1. e.seq = m.seq /\ \A x \in 1 .. Len(log[n]) : log[n][x].seq # m.seq
      BY <2>2 DEF Logged
    <3>2. CASE i \in 1 .. Len(log[k]) /\ log'[k][i] = log[k][i]
      <4>1. CASE j \in 1 .. Len(log[k]) /\ log'[k][j] = log[k][j]
        BY <3>2, <4>1 DEF Inv, ExecutedOnce
      <4>2. CASE k = n /\ log'[k][j] = e
        BY <3>1, <3>2, <4>2
      <4> QED
        BY <2>6, <4>1, <4>2
    <3>3. CASE k = n /\ i = Len(log[n]) + 1 /\ log'[k][i] = e
      BY <2>6, <3>1, <3>3
    <3> QED
      BY <2>6, <3>2, <3>3
  <2>10. NotAgain'
    <3> SUFFICES ASSUME NEW k \in Nodes, NEW s \in Seqs, Logged(k, s)'
                 PROVE  /\ k # Primary => \E q \in handled'[k] : IsPreprepare(q, s)
                        /\ \/ committed'[k][s]
                           \/ k # Primary /\ body'[k][s] \notin Requests
      BY DEF NotAgain
    <3>1. CASE k = n /\ s = m.seq
      <4>1. committed'[k][s]
        BY <1>2, <1>8, <3>1 DEF Inv, TypeOK
      <4>2. k # Primary => \E q \in handled'[k] : IsPreprepare(q, s)
        BY <1>6, <2>1, <3>1 DEF BodyIssued
      <4> QED
        BY <4>1, <4>2
    <3>2. CASE ~ (k = n /\ s = m.seq)
      <4>1. Logged(k, s)
        BY <2>6, <3>2 DEF Logged
      <4>2. committed'[k][s] = committed[k][s]
        BY <1>2, <1>8, <3>2 DEF Inv, TypeOK
      <4> QED
        BY <1>3, <1>4, <4>1, <4>2 DEF Inv, NotAgain
    <3> QED
      BY <3>1, <3>2
  <2> QED
    BY <1>5, <1>6, <2>7, <2>8, <2>9, <2>10 DEF Inv
<1> QED
  BY <1>7, <1>8, Zenon DEF Reply

\* A restarted replica has forgotten its bodies and its commits.
LEMMA RestartInv ==
  ASSUME Inv, TypeOK', NEW n \in Nodes, RestartReplica(n)
  PROVE  Inv'
<1>1. /\ sent' = sent /\ handled' = handled /\ nextSeq' = nextSeq /\ log' = log
      /\ n # Primary
      /\ \A k \in Nodes, s \in Seqs :
            IF k = n THEN body'[k][s] = Absent
            ELSE body'[k][s] = body[k][s] /\ committed'[k][s] = committed[k][s]
  BY DEF RestartReplica, Forget, Inv, TypeOK
<1>2. LogIssued' /\ QuorumApproved' /\ ExecutedOnce'
  BY <1>1, PastKept
<1>3. Numbered' /\ Issuance' /\ VotedOnce'
  BY <1>1 DEF Inv, Numbered, Issuance, VotedOnce
<1>4. CommitApproved'
  BY <1>1, ApproversGrow DEF Inv, CommitApproved
<1>5. BodyIssued'
  BY <1>1, ClusterAssumption DEF Inv, BodyIssued
<1>6. NotAgain'
  BY <1>1, ClusterAssumption DEF Inv, NotAgain, Logged
<1> QED
  BY <1>2, <1>3, <1>4, <1>5, <1>6 DEF Inv

\* Every step keeps the inductive invariant.
LEMMA InvStep == Inv /\ [Next]_vars => Inv'
<1> SUFFICES ASSUME Inv, [Next]_vars PROVE Inv'
  OBVIOUS
<1>1. TypeOK'
  BY TypeStep DEF Inv
<1>2. ASSUME NEW r \in Requests, GetRequest(r) PROVE Inv'
  BY <1>1, <1>2, GetRequestInv
<1>3. ASSUME NEW n \in Nodes, NEW m \in sent,
             \/ \E agree \in BOOLEAN : Prepare(n, m, agree)
             \/ Commit(n, m)
             \/ Reply(n, m)
      PROVE  Inv'
  BY <1>1, <1>3, PrepareInv, CommitInv, ReplyInv
<1>4. ASSUME NEW n \in Nodes, RestartReplica(n) PROVE Inv'
  BY <1>1, <1>4, RestartInv
<1>5. ASSUME \/ \E s \in Seqs : GetRequestReturn(s)
             \/ UNCHANGED vars
      PROVE  Inv'
  <2>1. UNCHANGED <<sent, handled, votes, body, prepared, committed, nextSeq, log>>
    BY <1>5 DEF GetRequestReturn, vars
  <2>2. LogIssued' /\ QuorumApproved' /\ ExecutedOnce'
    BY <2>1, PastKept
  <2>3. CommitApproved'
    BY <2>1, ApproversGrow DEF Inv, CommitApproved
  <2>4. Numbered' /\ Issuance' /\ VotedOnce' /\ BodyIssued' /\ NotAgain'
    BY <2>1 DEF Inv, Numbered, Issuance, VotedOnce, BodyIssued, NotAgain, Logged
  <2> QED
    BY <1>1, <2>2, <2>3, <2>4 DEF Inv
<1> QED
  BY <1>2, <1>3, <1>4, <1>5 DEF Next

\* What is executed under one number is the request that was issued under it.
LEMMA InvAgrees == Inv => Agreement
<1> SUFFICES ASSUME Inv, NEW n1 \in Nodes, NEW n2 \in Nodes,
                    NEW i \in 1 .. Len(log[n1]), NEW j \in 1 .. Len(log[n2]),
                    log[n1][i].seq = log[n2][j].seq
             PROVE  log[n1][i].req = log[n2][j].req
  BY DEF Agreement
<1>1. PICK p \in sent : IsPreprepare(p, log[n1][i].seq) /\ p.req = log[n1][i].req
  BY DEF Inv, LogIssued
<1>2. PICK q \in sent : IsPreprepare(q, log[n2][j].seq) /\ q.req = log[n2][j].req
  BY DEF Inv, LogIssued
<1> QED
  BY <1>1, <1>2, SameRequest DEF IsPreprepare

\* The inductive invariant holds in every reachable state.
THEOREM Invariance == Spec => []Inv
  BY InvInit, InvStep, PTL DEF Spec

(***************************************************************************)
(* No two coin nodes are told to commit different blocks under one         *)
(* sequence number, whichever messages are lost, late or reordered and     *)
(* whichever replicas but the primary restart.                             *)
(***************************************************************************)
THEOREM AgreementHolds == Spec => []Agreement
  BY InvInit, InvStep, InvAgrees, PTL DEF Spec

\* No coin node is told to commit one proposal twice, not even by a replica
\* that was restarted and has forgotten that it did.
THEOREM ExecutedOnceHolds == Spec => []ExecutedOnce
<1>1. Inv => ExecutedOnce
  BY DEF Inv
<1> QED
  BY <1>1, InvInit, InvStep, PTL DEF Spec

\* Whatever a coin node is told to commit, the coin nodes of 2f + 1 replicas
\* have accepted.
THEOREM QuorumApprovedHolds == Spec => []QuorumApproved
<1>1. Inv => QuorumApproved
  BY DEF Inv
<1> QED
  BY <1>1, InvInit, InvStep, PTL DEF Spec

-----------------------------------------------------------------------------
(***************************************************************************)
(* The processes implement RequestOrder.                                   *)
(***************************************************************************)
\* There is a pre-prepare for every number that was given out.
Given == \A s \in Seqs : s < nextSeq => \E p \in sent : IsPreprepare(p, s)

\* A request whose call has returned is committed at the primary.
Returned == \A s \in Seqs : s < nextSeq => s \in waiting \/ committed[Primary][s]

\* What the primary has committed its coin node has been told to commit.
CommittedLogged == \A s \in Seqs : committed[Primary][s] => Logged(Primary, s)

\* What the refinement needs: Inv, and where the primary stands.
OrderInv == Inv /\ Given /\ Returned /\ CommittedLogged

\* The sequence of requests of the abstract specification.
IssuedSeq == [i \in 1 .. nextSeq |-> Issued(i - 1)]

-----------------------------------------------------------------------------
(***************************************************************************)
(* The invariant.                                                          *)
(***************************************************************************)
\* Init establishes it.
LEMMA OrderInvInit == Init => OrderInv
<1> SUFFICES ASSUME Init PROVE OrderInv
  OBVIOUS
<1>1. Inv
  BY InvInit
<1>2. Given /\ Returned
  BY DEF Init, Given, Returned, Seqs
<1>3. CommittedLogged
  BY ClusterAssumption DEF Init, CommittedLogged
<1> QED
  BY <1>1, <1>2, <1>3 DEF OrderInv

\* A log that gets longer keeps its numbers.
LEMMA LoggedStays ==
  ASSUME TypeOK, NEW n \in Nodes, NEW s, Logged(n, s),
         \/ log'[n] = log[n]
         \/ \E e : log'[n] = Append(log[n], e)
  PROVE  Logged(n, s)'
<1>1. PICK i \in 1 .. Len(log[n]) : log[n][i].seq = s
  BY DEF Logged
<1>2. CASE log'[n] = log[n]
  BY <1>1, <1>2 DEF Logged
<1>3. CASE \E e : log'[n] = Append(log[n], e)
  <2>1. log[n] \in Seq([seq : Seqs, req : Requests])
    BY DEF TypeOK
  <2>2. i \in 1 .. Len(log'[n]) /\ log'[n][i] = log[n][i]
    BY <1>1, <1>3, <2>1
  <2> QED
    BY <1>1, <2>2 DEF Logged
<1> QED
  BY <1>2, <1>3

\* What Reply does to the primary's flags and log.
LEMMA ReplyCommits ==
  ASSUME Inv, NEW n \in Nodes, NEW m \in sent, Reply(n, m)
  PROVE  \/ UNCHANGED <<committed, log>>
         \/ /\ ~ committed[n][m.seq]
            /\ body'[n][m.seq] # NoBody
            /\ committed' = [committed EXCEPT ![n][m.seq] = TRUE]
            /\ log' = [log EXCEPT ![n] =
                          Append(@, [seq |-> m.seq, req |-> body'[n][m.seq]])]
  BY Zenon DEF Reply

\* Every step keeps it.
LEMMA OrderInvStep == OrderInv /\ [Next]_vars => OrderInv'
<1> SUFFICES ASSUME OrderInv, [Next]_vars PROVE OrderInv'
  OBVIOUS
<1>1. Inv /\ Inv'
  BY InvStep DEF OrderInv
<1> USE DEF OrderInv
<1>2. ASSUME NEW r \in Requests, GetRequest(r) PROVE OrderInv'
  <2>1. nextSeq \in Nat /\ nextSeq' = nextSeq + 1 /\ waiting' = {nextSeq}
    BY <1>1, <1>2 DEF GetRequest, Inv, TypeOK
  <2>2. Given'
    <3> SUFFICES ASSUME NEW s \in Seqs, s < nextSeq'
                 PROVE  \E p \in sent' : IsPreprepare(p, s)
      BY DEF Given
    <3>1. CASE s < nextSeq
      <4>1. PICK p \in sent : IsPreprepare(p, s)
        BY <3>1 DEF Given
      <4>2. sent \subseteq sent'
        BY <1>2 DEF GetRequest, SendMessage
      <4> QED
        BY <4>1, <4>2
    <3>2. CASE s = nextSeq
      <4> DEFINE new == [mtype |-> "Preprepare", from |-> Primary, seq |-> nextSeq,
                         req |-> r, inc |-> restarts]
      <4>1. new \in sent'
        BY <1>2 DEF GetRequest, SendMessage
      <4>2. IsPreprepare(new, s)
        BY <3>2 DEF IsPreprepare
      <4> QED
        BY <4>1, <4>2
    <3> QED
      BY <2>1, <3>1, <3>2 DEF Seqs
  <2>3. Returned'
    BY <1>2, <2>1 DEF Returned, GetRequest, Seqs
  <2>4. CommittedLogged'
    BY <1>2 DEF CommittedLogged, Logged, GetRequest
  <2> QED
    BY <1>1, <2>2, <2>3, <2>4
<1>3. ASSUME NEW s \in Seqs, GetRequestReturn(s) PROVE OrderInv'
  BY <1>1, <1>3 DEF GetRequestReturn, Given, Returned, CommittedLogged, Logged
<1>4. ASSUME NEW n \in Nodes, NEW m \in sent,
             (\E agree \in BOOLEAN : Prepare(n, m, agree)) \/ Commit(n, m)
      PROVE  OrderInv'
  <2>1. sent \subseteq sent' /\ UNCHANGED <<committed, nextSeq, waiting, log>>
    BY <1>4, Zenon DEF Prepare, Commit, SendMessage
  <2> QED
    BY <1>1, <2>1 DEF Given, Returned, CommittedLogged, Logged
<1>5. ASSUME NEW n \in Nodes, NEW m \in sent, Reply(n, m) PROVE OrderInv'
  <2>1. UNCHANGED <<sent, nextSeq, waiting>>
    BY <1>5 DEF Reply
  <2>2. Given'
    BY <2>1 DEF Given
  <2>3. CASE UNCHANGED <<committed, log>>
    BY <1>1, <2>1, <2>2, <2>3 DEF Returned, CommittedLogged, Logged
  <2> DEFINE e == [seq |-> m.seq, req |-> body'[n][m.seq]]
  <2>4. CASE /\ committed' = [committed EXCEPT ![n][m.seq] = TRUE]
             /\ log' = [log EXCEPT ![n] = Append(@, e)]
    <3>1. m.seq \in Seqs /\ Primary \in Nodes
      BY <1>1, ClusterAssumption DEF Inv, TypeOK, Message
    <3>2. \A s \in Seqs : committed'[Primary][s] =>
              committed[Primary][s] \/ (n = Primary /\ s = m.seq)
      BY <1>1, <2>4, <3>1, ZenonT(30) DEF Inv, TypeOK
    <3>3. \A s \in Seqs : committed[Primary][s] => committed'[Primary][s]
      BY <1>1, <2>4, <3>1, ZenonT(30) DEF Inv, TypeOK
    <3>4. /\ log'[n] = Append(log[n], e)
          /\ \A k \in Nodes \ {n} : log'[k] = log[k]
      BY <1>1, <2>4 DEF Inv, TypeOK
    <3>5. Logged(n, m.seq)'
      <4>1. log[n] \in Seq([seq : Seqs, req : Requests])
        BY <1>1 DEF Inv, TypeOK
      <4>2. Len(log[n]) + 1 \in 1 .. Len(log'[n]) /\ log'[n][Len(log[n]) + 1].seq = m.seq
        BY <3>4, <4>1
      <4> QED
        BY <4>2 DEF Logged
    <3>6. \A s \in Seqs : Logged(Primary, s) => Logged(Primary, s)'
      BY <1>1, <3>1, <3>4, LoggedStays DEF Inv
    <3>7. CommittedLogged'
      BY <3>2, <3>5, <3>6 DEF CommittedLogged
    <3>8. Returned'
      BY <2>1, <3>3 DEF Returned
    <3> QED
      BY <1>1, <2>2, <3>7, <3>8
  <2> QED
    BY <1>1, <1>5, <2>3, <2>4, ReplyCommits, Zenon
<1>6. ASSUME NEW n \in Nodes, RestartReplica(n) PROVE OrderInv'
  <2>1. UNCHANGED <<sent, nextSeq, waiting, log>> /\ n # Primary
    BY <1>6 DEF RestartReplica, Forget
  <2>2. committed'[Primary] = committed[Primary]
    BY <1>1, <1>6, ClusterAssumption DEF RestartReplica, Forget, Inv, TypeOK
  <2> QED
    BY <1>1, <2>1, <2>2 DEF Given, Returned, CommittedLogged, Logged
<1>7. CASE UNCHANGED vars
  BY <1>1, <1>7 DEF vars, Given, Returned, CommittedLogged, Logged
<1> QED
  BY <1>2, <1>3, <1>4, <1>5, <1>6, <1>7 DEF Next

-----------------------------------------------------------------------------
(***************************************************************************)
(* The requests issued.                                                    *)
(***************************************************************************)
\* The request issued under a number is the one its pre-prepare carries.
LEMMA IssuedIs ==
  ASSUME Inv, NEW p \in sent, NEW s, IsPreprepare(p, s)
  PROVE  Issued(s) = p.req /\ p.req \in Requests
<1>1. p.req \in Requests
  BY DEF Inv, TypeOK, Message
<1>2. \A m \in sent : m.mtype = "Preprepare" /\ m.seq = s => m = p
  BY DEF Inv, Numbered, IsPreprepare
<1>3. \A r \in Requests :
        (\E m \in sent : m.mtype = "Preprepare" /\ m.seq = s /\ m.req = r) <=> r = p.req
  BY <1>1, <1>2 DEF IsPreprepare
<1> QED
  BY <1>1, <1>3 DEF Issued

\* Later steps do not change it.
LEMMA IssuedStays ==
  ASSUME OrderInv, Inv', sent \subseteq sent', NEW s \in Seqs, s < nextSeq
  PROVE  Issued(s)' = Issued(s)
<1>1. PICK p \in sent : IsPreprepare(p, s)
  BY DEF OrderInv, Given
<1>2. Issued(s) = p.req
  BY <1>1, IssuedIs DEF OrderInv
<1>3. p.req \in Requests
  BY <1>1, IssuedIs DEF OrderInv
<1>4. \A m \in sent' : m.mtype = "Preprepare" /\ m.seq = s => m = p
  BY <1>1 DEF Inv, Numbered, IsPreprepare
<1>5. \A r \in Requests :
        (\E m \in sent' : m.mtype = "Preprepare" /\ m.seq = s /\ m.req = r) <=> r = p.req
  BY <1>1, <1>3, <1>4 DEF IsPreprepare
<1> QED
  BY <1>2, <1>3, <1>5 DEF Issued

\* The sequence stays as it is while no number is given out.
LEMMA IssuedSeqStays ==
  ASSUME OrderInv, Inv', sent \subseteq sent', nextSeq' = nextSeq
  PROVE  IssuedSeq' = IssuedSeq
<1>1. nextSeq \in Nat /\ nextSeq <= MaxSeq /\ MaxSeq \in Nat
  BY ClusterAssumption DEF OrderInv, Inv, TypeOK
<1>2. \A i \in 1 .. nextSeq : Issued(i - 1)' = Issued(i - 1)
  <2> TAKE i \in 1 .. nextSeq
  <2>1. i - 1 \in Seqs /\ i - 1 < nextSeq
    BY <1>1 DEF Seqs
  <2> QED
    BY <2>1, IssuedStays
<1> QED
  BY <1>2 DEF IssuedSeq

-----------------------------------------------------------------------------
(***************************************************************************)
(* The steps.                                                              *)
(***************************************************************************)
\* The initial states map to initial states.
LEMMA OrderInit == Init => Order!OInit
<1> SUFFICES ASSUME Init PROVE Order!OInit
  OBVIOUS
<1>1. nextSeq = 0 /\ log = [n \in Nodes |-> <<>>]
  BY DEF Init
<1>2. [i \in 1 .. nextSeq |-> Issued(i - 1)] = <<>>
  BY <1>1
<1> QED
  BY <1>1, <1>2 DEF Order!OInit

\* A sequence that is another with one more element.
LEMMA SameSequence ==
  ASSUME NEW S, NEW q \in Seq(S), NEW e \in S, NEW t \in Seq(S),
         Len(t) = Len(q) + 1, t[Len(q) + 1] = e, \A i \in 1 .. Len(q) : t[i] = q[i]
  PROVE  t = Append(q, e)
<1>1. Append(q, e) \in Seq(S) /\ Len(Append(q, e)) = Len(t)
  BY AppendEntry
<1>2. \A i \in 1 .. Len(t) : t[i] = Append(q, e)[i]
  BY AppendEntry
<1> QED
  BY <1>1, <1>2, SeqEqual

\* GetRequest issues: the primary has executed all that was issued before.
LEMMA GetRequestIssues ==
  ASSUME OrderInv, Inv', NEW r \in Requests, GetRequest(r)
  PROVE  Order!Issue(r)
<1> DEFINE new == [mtype |-> "Preprepare", from |-> Primary, seq |-> nextSeq,
                   req |-> r, inc |-> restarts]
<1>1. /\ nextSeq \in Nat /\ nextSeq < MaxSeq /\ nextSeq' = nextSeq + 1 /\ MaxSeq \in Nat
      /\ waiting = {} /\ sent' = sent \cup {new} /\ log' = log
  BY ClusterAssumption DEF OrderInv, Inv, TypeOK, GetRequest, SendMessage
<1>2. IssuedSeq \in Seq(Requests) /\ Len(IssuedSeq) = nextSeq
  <2>1. \A i \in 1 .. nextSeq : Issued(i - 1) \in Requests
    <3> TAKE i \in 1 .. nextSeq
    <3>1. i - 1 \in Seqs /\ i - 1 < nextSeq
      BY <1>1 DEF Seqs
    <3>2. PICK p \in sent : IsPreprepare(p, i - 1)
      BY <3>1 DEF OrderInv, Given
    <3> QED
      BY <3>2, IssuedIs DEF OrderInv
  <2> QED
    BY <1>1, <2>1 DEF IssuedSeq
<1>3. Order!Done(Primary) = 0 .. nextSeq - 1
  <2>1. Order!Done(Primary) = {log[Primary][i].seq : i \in 1 .. Len(log[Primary])}
    BY DEF Order!Done
  <2>2. ASSUME NEW i \in 1 .. Len(log[Primary])
        PROVE  log[Primary][i].seq \in 0 .. nextSeq - 1
    <3>1. PICK p \in sent : IsPreprepare(p, log[Primary][i].seq)
      BY ClusterAssumption DEF OrderInv, Inv, LogIssued
    <3>2. p.seq \in Seqs /\ p.seq < nextSeq /\ p.seq = log[Primary][i].seq
      BY <3>1 DEF OrderInv, Inv, TypeOK, Message, Numbered, IsPreprepare
    <3> QED
      BY <1>1, <3>2 DEF Seqs
  <2>3. ASSUME NEW s \in 0 .. nextSeq - 1
        PROVE  \E i \in 1 .. Len(log[Primary]) : log[Primary][i].seq = s
    <3>1. s \in Seqs /\ s < nextSeq
      BY <1>1 DEF Seqs
    <3> QED
      BY <1>1, <3>1 DEF OrderInv, Returned, CommittedLogged, Logged
  <2> QED
    BY <2>1, <2>2, <2>3
<1>4. IssuedSeq' = Append(IssuedSeq, r)
  <2>1. \A i \in 1 .. nextSeq : Issued(i - 1)' = Issued(i - 1)
    <3> TAKE i \in 1 .. nextSeq
    <3>1. i - 1 \in Seqs /\ i - 1 < nextSeq
      BY <1>1 DEF Seqs
    <3> QED
      BY <1>1, <3>1, IssuedStays
  <2>2. ASSUME NEW k, k = nextSeq PROVE Issued(k)' = r
    <3>1. new \in sent' /\ IsPreprepare(new, k)
      BY <1>1, <2>2 DEF IsPreprepare
    <3>2. \A m \in sent' : m.mtype = "Preprepare" /\ m.seq = k => m = new
      BY <3>1 DEF Inv, Numbered, IsPreprepare
    <3>3. \A q \in Requests :
            (\E m \in sent' : m.mtype = "Preprepare" /\ m.seq = k /\ m.req = q) <=> q = r
      <4>1. new.req = r /\ new.mtype = "Preprepare" /\ new.seq = k
        BY <2>2
      <4> HIDE DEF new
      <4> QED
        BY <3>1, <3>2, <4>1
    <3>4. r = CHOOSE q \in Requests :
                \E m \in sent' : m.mtype = "Preprepare" /\ m.seq = k /\ m.req = q
      BY <3>3
    <3> QED
      BY <3>4 DEF Issued
  <2>3. /\ Len(IssuedSeq') = nextSeq + 1
        /\ \A i \in 1 .. nextSeq + 1 : IssuedSeq'[i] = Issued(i - 1)'
    BY <1>1 DEF IssuedSeq
  <2>4. IssuedSeq'[nextSeq + 1] = r
    BY <1>1, <2>2, <2>3
  <2>5. \A i \in 1 .. nextSeq : IssuedSeq'[i] = IssuedSeq[i]
    BY <1>1, <2>1, <2>3 DEF IssuedSeq
  <2>6. IssuedSeq' \in Seq(Requests)
    <3>1. IssuedSeq' = [i \in 1 .. nextSeq + 1 |-> IssuedSeq'[i]]
      BY <1>1 DEF IssuedSeq
    <3>2. \A i \in 1 .. nextSeq + 1 : IssuedSeq'[i] \in Requests
      BY <1>1, <1>2, <2>4, <2>5
    <3> QED
      BY <1>1, <3>1, <3>2
  <2> QED
    BY <1>1, <1>2, <2>3, <2>4, <2>5, <2>6, SameSequence
<1> QED
  BY <1>1, <1>2, <1>3, <1>4 DEF Order!Issue, IssuedSeq

\* Reply executes what was issued under the number, or leaves everything alone.
LEMMA ReplyExecutes ==
  ASSUME OrderInv, Inv', NEW n \in Nodes, NEW m \in sent, Reply(n, m)
  PROVE  \/ \E s \in 0 .. MaxSeq - 1 : Order!Execute(n, s)
         \/ IssuedSeq' = IssuedSeq /\ log' = log
<1> DEFINE e == [seq |-> m.seq, req |-> body'[n][m.seq]]
<1>1. sent' = sent /\ nextSeq' = nextSeq
  BY DEF Reply
<1>2. IssuedSeq' = IssuedSeq
  BY <1>1, IssuedSeqStays
<1>3. CASE UNCHANGED <<committed, log>>
  BY <1>2, <1>3
<1>4. CASE /\ ~ committed[n][m.seq]
           /\ body'[n][m.seq] # NoBody
           /\ committed' = [committed EXCEPT ![n][m.seq] = TRUE]
           /\ log' = [log EXCEPT ![n] = Append(@, e)]
  <2>1. m.seq \in Seqs /\ m \in Message
    BY DEF OrderInv, Inv, TypeOK, Message
  <2>2. body'[n][m.seq] \in Requests /\ body[n][m.seq] = body'[n][m.seq]
    <3>1. \/ body'[n][m.seq] = body[n][m.seq]
          \/ body'[n][m.seq] = NoBody
      BY <2>1 DEF Reply, Known, OrderInv, Inv, TypeOK
    <3>2. body'[n][m.seq] # Absent
      BY <2>1, ClusterAssumption DEF Reply, Known, OrderInv, Inv, TypeOK
    <3> QED
      BY <1>4, <2>1, <3>1, <3>2 DEF Inv, TypeOK
  <2>3. PICK p \in sent : IsPreprepare(p, m.seq) /\ p.req = body[n][m.seq]
    BY <2>1, <2>2 DEF OrderInv, Inv, BodyIssued
  <2>4. m.seq < nextSeq /\ Issued(m.seq) = body'[n][m.seq]
    BY <2>2, <2>3, IssuedIs DEF OrderInv, Inv, Numbered, IsPreprepare
  <2>5. ~ Logged(n, m.seq)
    BY <1>4, <2>1, <2>2 DEF OrderInv, Inv, NotAgain
  <2>6. m.seq \notin Order!Done(n)
    BY <2>5 DEF Order!Done, Logged
  <2>7. m.seq \in Nat /\ nextSeq \in Nat /\ m.seq \in 0 .. MaxSeq - 1
    BY <2>1 DEF OrderInv, Inv, TypeOK, Seqs
  <2>8. Len(IssuedSeq) = nextSeq /\ IssuedSeq[m.seq + 1] = body'[n][m.seq]
    BY <2>4, <2>7 DEF IssuedSeq
  <2>9. log' = [log EXCEPT ![n] = Append(@, [seq |-> m.seq, req |-> IssuedSeq[m.seq + 1]])]
    BY <1>4, <2>8
  <2>10. Order!Execute(n, m.seq)
    BY <1>2, <2>4, <2>6, <2>8, <2>9 DEF Order!Execute, IssuedSeq
  <2> QED
    BY <2>7, <2>10
<1> QED
  BY <1>3, <1>4, ReplyCommits, Zenon DEF OrderInv

\* Every step maps to a step or leaves issued and executed alone.
LEMMA OrderStep == OrderInv /\ Inv' /\ [Next]_vars => [Order!ONext]_(Order!ovars)
<1> SUFFICES ASSUME OrderInv, Inv', [Next]_vars
             PROVE  Order!ONext \/ (IssuedSeq' = IssuedSeq /\ log' = log)
  BY DEF Order!ovars, IssuedSeq
<1>1. ASSUME NEW r \in Requests, GetRequest(r) PROVE Order!ONext
  BY <1>1, GetRequestIssues DEF Order!ONext
<1>2. ASSUME NEW n \in Nodes, NEW m \in sent, Reply(n, m)
      PROVE  Order!ONext \/ (IssuedSeq' = IssuedSeq /\ log' = log)
  BY <1>2, ReplyExecutes DEF Order!ONext
<1>3. ASSUME \/ \E s \in Seqs : GetRequestReturn(s)
             \/ \E n \in Nodes, m \in sent :
                   (\E agree \in BOOLEAN : Prepare(n, m, agree)) \/ Commit(n, m)
             \/ \E n \in Nodes : RestartReplica(n)
             \/ UNCHANGED vars
      PROVE  IssuedSeq' = IssuedSeq /\ log' = log
  <2>1. sent \subseteq sent' /\ nextSeq' = nextSeq /\ log' = log
    <3>1. ASSUME NEW s \in Seqs, GetRequestReturn(s) PROVE <2>1!:
      BY <3>1 DEF GetRequestReturn
    <3>2. ASSUME NEW n \in Nodes, NEW m \in sent, NEW agree \in BOOLEAN, Prepare(n, m, agree)
          PROVE  <2>1!:
      BY <3>2 DEF Prepare, SendMessage
    <3>3. ASSUME NEW n \in Nodes, NEW m \in sent, Commit(n, m) PROVE <2>1!:
      BY <3>3, Zenon DEF Commit, SendMessage
    <3>4. ASSUME NEW n \in Nodes, RestartReplica(n) PROVE <2>1!:
      BY <3>4 DEF RestartReplica, Forget
    <3>5. CASE UNCHANGED vars
      BY <3>5 DEF vars
    <3> QED
      BY <1>3, <3>1, <3>2, <3>3, <3>4, <3>5
  <2> QED
    BY <2>1, IssuedSeqStays
<1> QED
  BY <1>1, <1>2, <1>3 DEF Next

(***************************************************************************)
(* The processes implement RequestOrder: whatever is lost or reordered and *)
(* whichever replicas but the primary restart, every step of theirs issues *)
(* the next request, lets one replica execute a request that was issued    *)
(* and that it has not executed, or changes neither.                       *)
(***************************************************************************)
THEOREM Refinement == Spec => ImplementsOrder
<1>1. OrderInv => Inv
  BY DEF OrderInv
<1> QED
  BY <1>1, OrderInvInit, OrderInvStep, OrderInit, OrderStep, PTL
     DEF Spec, ImplementsOrder, Order!OSpec
=============================================================================
