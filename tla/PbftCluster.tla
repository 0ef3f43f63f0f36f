----------------------------- MODULE PbftCluster -----------------------------
(***************************************************************************)
(* The PBFT processes of a ruccoin deployment (pbft/bft_node.{h,cc}): one  *)
(* PBFTHandler per replica, exchanging pre-prepare, prepare and commit     *)
(* messages by asynchronous RPC.                                           *)
(*                                                                         *)
(* Each RPC handler runs here as one step.  What the handlers of one       *)
(* replica do to each other when several of its server threads run them at *)
(* once is the subject of module PbftReplica.                              *)
(*                                                                         *)
(* A handler is named after the phase it starts and not after the message  *)
(* it receives, as in the source: "Prepare" receives a Preprepare message, *)
(* "Commit" receives a Prepare message, "Reply" receives a Commit message. *)
(***************************************************************************)
EXTENDS Naturals, Sequences, FiniteSets

CONSTANTS
    Nodes,        \* the replica ids, i.e. the keys of nodes_
    Primary,      \* current_primary_, the same entry of every configuration
    Requests,     \* the bodies the primary's coin node may submit
    NoBody,       \* the empty string: the body of a proposal not received yet
    Absent,       \* "no entry for this sequence number in proposals_"
    Link,         \* <<i, j>> \in Link: replica i can open a connection to j
    MaxSeq,       \* bound: sequence numbers range over 0 .. MaxSeq - 1
    MaxRestarts   \* bound: how many times a PBFT process is restarted

ASSUME ClusterAssumption ==
    /\ IsFiniteSet(Nodes)
    /\ Primary \in Nodes
    /\ NoBody \notin Requests
    /\ Absent \notin Requests \cup {NoBody}
    /\ Link \subseteq Nodes \X Nodes
    /\ MaxSeq \in Nat
    /\ MaxRestarts \in Nat

Seqs == 0 .. (MaxSeq - 1)

\* f_, the number of faulty replicas the configuration is said to tolerate.
F == (Cardinality(Nodes) - 1) \div 3

Quorum == 2 * F + 1

(***************************************************************************)
(* A message says which request it is about: time_stamp and client_id are  *)
(* copied from the request into every message of its three phases.  inc is *)
(* the number of restarts the cluster had seen when the call was made: a   *)
(* broadcast repeated by a restarted process is another call, delivered    *)
(* and counted on its own.  The signature covers mtype, view, seq and      *)
(* digest, is made and checked with the sender's key, and always verifies  *)
(* between the replicas of a configuration.                                *)
(***************************************************************************)
Message == [mtype : {"Preprepare", "Prepare", "Commit"},
            from  : Nodes,
            seq   : Seqs,
            req   : Requests,
            inc   : 0 .. MaxRestarts]

(***************************************************************************)
(* GetDigest(m.body) as the sender computes it.  RuccoinHash is SHA-256,   *)
(* an injection here.  A Commit message is built in the handler of a       *)
(* Prepare message, whose body is the empty string, so every Commit        *)
(* message has the digest of the empty string.                             *)
(***************************************************************************)
Digest(m) == IF m.mtype = "Commit" THEN NoBody ELSE m.req

VARIABLES
    sent,       \* every message some replica has broadcast
    handled,    \* handled[n]: the messages whose handler has run at n
    votes,      \* votes[n]: prepare_votes and commit_votes of n's proposals,
                \*   as the set of the messages that were counted
    body,       \* body[n][s]: body of proposals_[s] at n, or Absent
    prepared,   \* prepared[n][s]: proposals_[s]->prepared
    committed,  \* committed[n][s]: proposals_[s]->committed
    nextSeq,    \* next_proposal_seq_ of the primary
    waiting,    \* sequence numbers whose GetRequest is blocked on committed_cv
    log,        \* log[n]: the CommitAction calls n has made to its coin node
    restarts    \* number of restarts so far

vars == <<sent, handled, votes, body, prepared, committed, nextSeq, waiting,
          log, restarts>>

Init ==
    /\ sent = {}
    /\ handled = [n \in Nodes |-> {}]
    /\ votes = [n \in Nodes |-> {}]
    /\ body = [n \in Nodes |-> [s \in Seqs |-> Absent]]
    /\ prepared = [n \in Nodes |-> [s \in Seqs |-> FALSE]]
    /\ committed = [n \in Nodes |-> [s \in Seqs |-> FALSE]]
    /\ nextSeq = 0
    /\ waiting = {}
    /\ log = [n \in Nodes |-> <<>>]
    /\ restarts = 0

-----------------------------------------------------------------------------
(***************************************************************************)
(* SendMessage: one asynchronous call per entry of nodes_, the sender's    *)
(* own included.  A connection that cannot be opened throws and is logged; *)
(* nothing is retried, and the reply is not waited for.  A call is         *)
(* delivered at most once, at any later time or never, in any order.       *)
(***************************************************************************)
SendMessage(t, n, s, r) ==
    sent' = sent \cup {[mtype |-> t, from |-> n, seq |-> s, req |-> r,
                        inc |-> restarts]}

\* The handler of message m runs at n.
Receive(n, m, t) ==
    /\ m \in sent \ handled[n]
    /\ m.mtype = t
    /\ <<m.from, n>> \in Link
    /\ handled' = [handled EXCEPT ![n] = @ \cup {m}]

\* Faulty variants of definitions, here and below, are used to see that a
\* property depends on the code being as it is.  This one takes f + 1 votes.
CheckVotes_FPlusOne(vs, t, s) ==
    \E d \in Requests \cup {NoBody} :
        Cardinality({m \in vs : m.mtype = t /\ m.seq = s /\ Digest(m) = d}) > F

\* Faulty: asks for more than 2f + 1 votes.
CheckVotes_MoreThanQuorum(vs, t, s) ==
    \E d \in Requests \cup {NoBody} :
        Cardinality({m \in vs : m.mtype = t /\ m.seq = s /\ Digest(m) = d})
            > Quorum

\* CheckVotes: some digest of the proposal has 2f + 1 votes of this phase.
CheckVotes(vs, t, s) ==
    \E d \in Requests \cup {NoBody} :
        Cardinality({m \in vs : m.mtype = t /\ m.seq = s /\ Digest(m) = d})
            >= Quorum

\* "if (proposals_.find(m.seq) == proposals_.end()) insert": Commit and Reply
\* create the proposal with the body of a message that has none.
Known(n, s) ==
    body' = [body EXCEPT ![n][s] = IF @ = Absent THEN NoBody ELSE @]

\* Faulty: next_proposal_seq_ is read and not incremented.
GetRequest_KeepsNumber(r) ==
    /\ waiting = {}
    /\ nextSeq < MaxSeq
    /\ \A m \in sent : m.req # r
    /\ body' = [body EXCEPT ![Primary][nextSeq] = IF @ = Absent THEN r ELSE @]
    /\ SendMessage("Preprepare", Primary, nextSeq, r)
    /\ waiting' = {nextSeq}
    /\ UNCHANGED <<handled, votes, prepared, committed, nextSeq, log, restarts>>

(***************************************************************************)
(* GetRequest and Preprepare.  The caller is CoinNode::Run, which packs a  *)
(* new block (a fresh merkle root, hence a fresh body) and waits for the   *)
(* call to return before it submits another.  The sequence number is taken *)
(* from next_proposal_seq_, the proposal is inserted unless there is one   *)
(* under that number already, and the pre-prepare is broadcast.            *)
(***************************************************************************)
GetRequest(r) ==
    /\ waiting = {}
    /\ nextSeq < MaxSeq
    /\ \A m \in sent : m.req # r
    /\ nextSeq' = nextSeq + 1
    /\ body' = [body EXCEPT ![Primary][nextSeq] = IF @ = Absent THEN r ELSE @]
    /\ SendMessage("Preprepare", Primary, nextSeq, r)
    /\ waiting' = {nextSeq}
    /\ UNCHANGED <<handled, votes, prepared, committed, log, restarts>>

\* GetRequest wakes up: its proposal is committed.
GetRequestReturn(s) ==
    /\ s \in waiting
    /\ committed[Primary][s]
    /\ waiting' = waiting \ {s}
    /\ UNCHANGED <<sent, handled, votes, body, prepared, committed, nextSeq,
                   log, restarts>>

\* Faulty: a proposal that is there already keeps the body it has.
Prepare_KeepsEmpty(n, m, agree) ==
    /\ Receive(n, m, "Preprepare")
    /\ body' = [body EXCEPT ![n][m.seq] = IF @ = Absent THEN m.req ELSE @]
    /\ \/ agree /\ SendMessage("Prepare", n, m.seq, m.req)
       \/ ~agree /\ UNCHANGED sent
    /\ UNCHANGED <<votes, prepared, committed, nextSeq, waiting, log, restarts>>

(***************************************************************************)
(* Prepare.  The body is stored when there is no proposal, or one that an  *)
(* earlier Commit or Reply created without body.  The coin node is then    *)
(* asked about the STORED body; agree is its answer.  The prepare that is  *)
(* broadcast carries the digest of the RECEIVED body.                      *)
(***************************************************************************)
Prepare(n, m, agree) ==
    /\ Receive(n, m, "Preprepare")
    /\ body' = [body EXCEPT ![n][m.seq] =
                    IF @ \in {Absent, NoBody} THEN m.req ELSE @]
    /\ \/ agree /\ SendMessage("Prepare", n, m.seq, m.req)
       \/ ~agree /\ UNCHANGED sent
    /\ UNCHANGED <<votes, prepared, committed, nextSeq, waiting, log, restarts>>

(***************************************************************************)
(* Commit.  The vote is counted, and the first time the votes suffice the  *)
(* proposal becomes prepared and a commit is broadcast.                    *)
(***************************************************************************)
Commit(n, m) ==
    /\ Receive(n, m, "Prepare")
    /\ Known(n, m.seq)
    /\ votes' = [votes EXCEPT ![n] = @ \cup {m}]
    /\ IF CheckVotes(votes'[n], "Prepare", m.seq) /\ ~prepared[n][m.seq]
       THEN /\ prepared' = [prepared EXCEPT ![n][m.seq] = TRUE]
            /\ SendMessage("Commit", n, m.seq, m.req)
       ELSE UNCHANGED <<prepared, sent>>
    /\ UNCHANGED <<committed, nextSeq, waiting, log, restarts>>

\* Faulty: acts on every commit after the quorum, committed or not.
Reply_Recommits(n, m) ==
    /\ Receive(n, m, "Commit")
    /\ Known(n, m.seq)
    /\ votes' = [votes EXCEPT ![n] = @ \cup {m}]
    /\ IF /\ CheckVotes(votes'[n], "Commit", m.seq) \/ committed[n][m.seq]
          /\ body'[n][m.seq] # NoBody
       THEN /\ committed' = [committed EXCEPT ![n][m.seq] = TRUE]
            /\ log' = [log EXCEPT ![n] =
                          Append(@, [seq |-> m.seq, req |-> body'[n][m.seq]])]
       ELSE UNCHANGED <<committed, log>>
    /\ UNCHANGED <<sent, prepared, nextSeq, waiting, restarts>>

\* Faulty: commits although the body has not arrived.
Reply_NoBodyCheck(n, m) ==
    /\ Receive(n, m, "Commit")
    /\ Known(n, m.seq)
    /\ votes' = [votes EXCEPT ![n] = @ \cup {m}]
    /\ IF CheckVotes(votes'[n], "Commit", m.seq) /\ ~committed[n][m.seq]
       THEN /\ committed' = [committed EXCEPT ![n][m.seq] = TRUE]
            /\ log' = [log EXCEPT ![n] =
                          Append(@, [seq |-> m.seq, req |-> body'[n][m.seq]])]
       ELSE UNCHANGED <<committed, log>>
    /\ UNCHANGED <<sent, prepared, nextSeq, waiting, restarts>>

(***************************************************************************)
(* Reply.  The vote is counted; when the votes suffice, the body is there  *)
(* and the proposal is not committed yet, the coin node is told to commit  *)
(* the body (CommitAction) and the proposal becomes committed.             *)
(***************************************************************************)
Reply(n, m) ==
    /\ Receive(n, m, "Commit")
    /\ Known(n, m.seq)
    /\ votes' = [votes EXCEPT ![n] = @ \cup {m}]
    /\ IF /\ CheckVotes(votes'[n], "Commit", m.seq) \/ committed[n][m.seq]
          /\ ~committed[n][m.seq]
          /\ body'[n][m.seq] # NoBody
       THEN /\ committed' = [committed EXCEPT ![n][m.seq] = TRUE]
            /\ log' = [log EXCEPT ![n] =
                          Append(@, [seq |-> m.seq, req |-> body'[n][m.seq]])]
       ELSE UNCHANGED <<committed, log>>
    /\ UNCHANGED <<sent, prepared, nextSeq, waiting, restarts>>

\* Faulty: the bodies survive a restart and the flags do not.
Forget_KeepsBody(n) ==
    /\ restarts < MaxRestarts
    /\ restarts' = restarts + 1
    /\ votes' = [votes EXCEPT ![n] = {}]
    /\ prepared' = [prepared EXCEPT ![n] = [s \in Seqs |-> FALSE]]
    /\ committed' = [committed EXCEPT ![n] = [s \in Seqs |-> FALSE]]
    /\ UNCHANGED <<sent, handled, body, log>>

(***************************************************************************)
(* The PBFT process of n stops and is started again (run_single_node.sh).  *)
(* It keeps nothing on disk: Init leaves proposals_ empty and sets         *)
(* next_proposal_seq_ to 0.  Calls that were waiting to be handled fail or *)
(* are delivered to the new process.                                       *)
(***************************************************************************)
Forget(n) ==
    /\ restarts < MaxRestarts
    /\ restarts' = restarts + 1
    /\ votes' = [votes EXCEPT ![n] = {}]
    /\ body' = [body EXCEPT ![n] = [s \in Seqs |-> Absent]]
    /\ prepared' = [prepared EXCEPT ![n] = [s \in Seqs |-> FALSE]]
    /\ committed' = [committed EXCEPT ![n] = [s \in Seqs |-> FALSE]]
    /\ UNCHANGED <<sent, handled, log>>

RestartReplica(n) ==
    /\ n # Primary
    /\ Forget(n)
    /\ UNCHANGED <<nextSeq, waiting>>

-----------------------------------------------------------------------------
Next ==
    \/ \E r \in Requests : GetRequest(r)
    \/ \E s \in Seqs : GetRequestReturn(s)
    \/ \E n \in Nodes, m \in sent :
          \/ \E agree \in BOOLEAN : Prepare(n, m, agree)
          \/ Commit(n, m)
          \/ Reply(n, m)
    \/ \E n \in Nodes : RestartReplica(n)

(***************************************************************************)
(* Replicas may restart, the primary does not: it would number from 0      *)
(* again, and no two requests could be told apart by their numbers.        *)
(***************************************************************************)
Spec == Init /\ [][Next]_vars

(***************************************************************************)
(* Fairness of a run in which no connection is refused: a call that was    *)
(* sent over an open connection is handled in the end, and a thread whose  *)
(* condition has been signalled wakes up.                                  *)
(***************************************************************************)
Handle(n) ==
    \E m \in sent :
        \/ \E agree \in BOOLEAN : Prepare(n, m, agree)
        \/ Commit(n, m)
        \/ Reply(n, m)

FairSpec ==
    /\ Spec
    /\ \A n \in Nodes : WF_vars(Handle(n))
    /\ \A s \in Seqs : WF_vars(GetRequestReturn(s))

-----------------------------------------------------------------------------
(***************************************************************************)
(* Properties.                                                             *)
(***************************************************************************)

\* The type invariant.
TypeOK ==
    /\ sent \subseteq Message
    /\ handled \in [Nodes -> SUBSET sent]
    /\ votes \in [Nodes -> SUBSET sent]
    /\ body \in [Nodes -> [Seqs -> Requests \cup {NoBody, Absent}]]
    /\ prepared \in [Nodes -> [Seqs -> BOOLEAN]]
    /\ committed \in [Nodes -> [Seqs -> BOOLEAN]]
    /\ nextSeq \in 0 .. MaxSeq
    /\ waiting \subseteq Seqs
    /\ log \in [Nodes -> Seq([seq : Seqs, req : Requests])]
    /\ restarts \in 0 .. MaxRestarts

\* The sequence of executions of n has an entry for this request.
Executed(n, s, r) ==
    \E i \in 1 .. Len(log[n]) : log[n][i] = [seq |-> s, req |-> r]

(***************************************************************************)
(* Two coin nodes are never told to commit different requests under one    *)
(* sequence number, whatever is lost, delayed or reordered and whichever   *)
(* replicas restart.  Nothing in the commit phase ties a vote to a body    *)
(* (every commit carries the digest of the empty string), so this rests on *)
(* the primary never giving a number out twice.                            *)
(***************************************************************************)
Agreement ==
    \A n1, n2 \in Nodes : \A i \in 1 .. Len(log[n1]), j \in 1 .. Len(log[n2]) :
        log[n1][i].seq = log[n2][j].seq => log[n1][i].req = log[n2][j].req

(***************************************************************************)
(* A coin node is not told to commit one proposal twice: not by two commit *)
(* messages handled one after the other, and not by the votes that reach a *)
(* restarted process which has forgotten that it committed.                *)
(***************************************************************************)
ExecutedOnce ==
    \A n \in Nodes : \A i, j \in 1 .. Len(log[n]) :
        log[n][i].seq = log[n][j].seq => i = j

\* The replicas whose coin node accepted request r under number s.
Approvers(s, r) ==
    {n \in Nodes : \E m \in sent :
        m.mtype = "Prepare" /\ m.from = n /\ m.seq = s /\ m.req = r}

(***************************************************************************)
(* Whatever a coin node is told to commit has been accepted by the coin    *)
(* nodes of 2f + 1 different replicas, although the votes are kept as      *)
(* vectors of replica ids that nobody searches for duplicates, and a       *)
(* restarted replica may vote a second time.                               *)
(***************************************************************************)
QuorumApproved ==
    \A n \in Nodes : \A i \in 1 .. Len(log[n]) :
        Cardinality(Approvers(log[n][i].seq, log[n][i].req)) >= Quorum

(***************************************************************************)
(* bft_node.cc:221 says that messages of the three phases may arrive in    *)
(* any order and the pre-prepare may be the last: a replica that has the   *)
(* body and the commit votes of a proposal has committed it.               *)
(***************************************************************************)
ReadyIsCommitted ==
    \A n \in Nodes, s \in Seqs :
        body[n][s] \in Requests /\ CheckVotes(votes[n], "Commit", s)
            => committed[n][s]

\* The replicas that run: nobody can open a connection to one that does not.
Up == {n \in Nodes : <<n, n>> \in Link}

\* The replicas that were sent proposal s and did not vote for it.
Refusers(s) ==
    {n \in Nodes :
        /\ \E m \in handled[n] : m.mtype = "Preprepare" /\ m.seq = s
        /\ ~ \E m \in sent : m.mtype = "Prepare" /\ m.from = n /\ m.seq = s}

(***************************************************************************)
(* The call the primary's coin node is blocked in returns, unless so many  *)
(* coin nodes refuse the block that the running replicas which are left    *)
(* are no quorum.  The primary stored the body before it sent anything, so *)
(* the order in which it handles the messages does not matter to it.       *)
(***************************************************************************)
RequestReturns ==
    \A s \in Seqs :
        s \in waiting ~>
            \/ s \notin waiting
            \/ Cardinality(Up \ Refusers(s)) < Quorum

\* n has been sent the body of s before it handles a commit for it.
BodyFirst(n, s) ==
    (\E m \in handled[n] : m.mtype = "Commit" /\ m.seq = s)
        => \E m \in handled[n] : m.mtype = "Preprepare" /\ m.seq = s

(***************************************************************************)
(* A running replica at which no commit overtakes the pre-prepare executes *)
(* the request, even if prepares did overtake it and created the proposal  *)
(* without a body.  (Without the premise it may never execute it:          *)
(* ReadyIsCommitted fails.)                                                *)
(***************************************************************************)
ReplicaCommits ==
    \A n \in Up, s \in Seqs :
        []BodyFirst(n, s) =>
            (s < nextSeq ~>
                committed[n][s] \/ Cardinality(Up \ Refusers(s)) < Quorum)

(***************************************************************************)
(* The processes implement RequestOrder: the requests issued are those of  *)
(* the pre-prepares sent, and a log is what was executed.                  *)
(***************************************************************************)
Issued(s) == CHOOSE r \in Requests :
    \E m \in sent : m.mtype = "Preprepare" /\ m.seq = s /\ m.req = r

Order == INSTANCE RequestOrder WITH
    issued <- [i \in 1 .. nextSeq |-> Issued(i - 1)],
    executed <- log

\* Every step of the processes is a step of RequestOrder or leaves it alone.
ImplementsOrder == Order!OSpec

-----------------------------------------------------------------------------
(***************************************************************************)
(* The inductive invariant behind Agreement, ExecutedOnce and              *)
(* QuorumApproved.                                                         *)
(***************************************************************************)
IsPreprepare(m, s) == m.mtype = "Preprepare" /\ m.seq = s

IsPrepare(m, n, s) == m.mtype = "Prepare" /\ m.from = n /\ m.seq = s

\* The numbers n has told its coin node to commit.
Logged(n, s) == \E i \in 1 .. Len(log[n]) : log[n][i].seq = s

\* The primary sends one pre-prepare for each number it has given out.
Numbered ==
    /\ \A m \in sent : m.mtype = "Preprepare" => m.from = Primary /\ m.seq < nextSeq
    /\ \A m1, m2 \in sent :
          /\ m1.mtype = "Preprepare"
          /\ m2.mtype = "Preprepare"
          /\ m1.seq = m2.seq
          => m1 = m2

\* Every message is about a request that was issued.
Issuance ==
    \A m \in sent : \E p \in sent : IsPreprepare(p, m.seq) /\ p.req = m.req

\* A replica votes once for a proposal, after it was sent the proposal.
VotedOnce ==
    /\ \A m \in sent :
          m.mtype = "Prepare" => \E p \in handled[m.from] : IsPreprepare(p, m.seq)
    /\ \A m1, m2 \in sent :
          /\ m1.mtype = "Prepare"
          /\ m2.mtype = "Prepare"
          /\ m1.from = m2.from
          /\ m1.seq = m2.seq
          => m1 = m2

\* A commit is sent for what a quorum has approved.
CommitApproved ==
    \A m \in sent :
        m.mtype = "Commit" => Cardinality(Approvers(m.seq, m.req)) >= Quorum

\* What is executed was issued.
LogIssued ==
    \A n \in Nodes : \A i \in 1 .. Len(log[n]) :
        \E p \in sent : IsPreprepare(p, log[n][i].seq) /\ p.req = log[n][i].req

\* A body came in a pre-prepare; a replica other than the primary got it from
\* one that it has handled.
BodyIssued ==
    \A n \in Nodes, s \in Seqs : body[n][s] \in Requests =>
        /\ \E p \in sent : IsPreprepare(p, s) /\ p.req = body[n][s]
        /\ n # Primary => \E p \in handled[n] : IsPreprepare(p, s)

\* A replica that has executed a proposal has seen its only pre-prepare, and
\* remembers that it committed or has been restarted and has no body for it.
NotAgain ==
    \A n \in Nodes, s \in Seqs : Logged(n, s) =>
        /\ n # Primary => \E p \in handled[n] : IsPreprepare(p, s)
        /\ committed[n][s] \/ (n # Primary /\ body[n][s] \notin Requests)

\* The conjunction is inductive, and implies the properties above.
Inv ==
    /\ TypeOK
    /\ Numbered
    /\ Issuance
    /\ VotedOnce
    /\ CommitApproved
    /\ LogIssued
    /\ BodyIssued
    /\ NotAgain
    /\ QuorumApproved
    /\ ExecutedOnce
=============================================================================
