----------------------------- MODULE PbftReplica -----------------------------
(***************************************************************************)
(* One PBFT process (pbft/bft_node.cc), thread by thread.  The RPC server  *)
(* runs the handlers of the calls it receives on a pool of threads; they   *)
(* share proposals_ and the proposals in it, partly under proposals_mutex  *)
(* (Prepare only), partly under a proposal's ins_mutex_, partly under no   *)
(* lock.  A step here is what a thread does between two places where what  *)
(* another thread does can make a difference.                              *)
(*                                                                         *)
(* The other replicas are the environment: they send what PbftCluster says *)
(* replicas send, and nothing is lost.  The process is not restarted.      *)
(***************************************************************************)
EXTENDS Naturals, Sequences, FiniteSets

CONSTANTS
    Nodes,      \* the replicas
    Me,         \* the replica whose threads these are
    Primary,    \* current_primary_
    Alive,      \* the replicas that run and vote
    Threads,    \* threads of the RPC server (8 in bft_main.cc)
    Free,       \* the holder of a mutex that nobody holds
    MaxSeq      \* bound: sequence numbers range over 0 .. MaxSeq - 1

ASSUME ReplicaAssumption ==
    /\ IsFiniteSet(Nodes)
    /\ {Me, Primary} \subseteq Alive
    /\ Alive \subseteq Nodes
    /\ Threads \in Nat \ {0}
    /\ MaxSeq \in Nat

Seqs == 0 .. (MaxSeq - 1)

F == (Cardinality(Nodes) - 1) \div 3

Quorum == 2 * F + 1

(***************************************************************************)
(* The calls this process can receive, each of which it receives at most   *)
(* once.  One request is issued under each number, so a call need not say  *)
(* which.                                                                  *)
(***************************************************************************)
Call(t, n, s) == [mtype |-> t, from |-> n, seq |-> s]

Calls ==
    {Call("Preprepare", Primary, s) : s \in Seqs}
        \cup {Call(t, n, s) : t \in {"Prepare", "Commit"}, n \in Alive, s \in Seqs}

ASSUME FreeAssumption == Free \notin Calls

VARIABLES
    pc,         \* pc[m]: how far the call m is, from "unsent" to its end: "done",
                \* or "failed" when CommitAction ended with an exception
    body,       \* body[s]: "absent" (no proposal), "empty" or "full"
    votes,      \* votes[t][s]: the replicas in the vote vector of phase t
    seen,       \* seen[m]: the vector as the thread of m found it
    prepared,   \* prepared[s], committed[s]: the flags of the proposal
    committed,
    mutex,      \* the call whose thread holds proposals_mutex, or Free
    ins,        \* ins[s]: the call whose thread holds ins_mutex_, or Free
    client,     \* client[s]: the GetRequest call that issued s
    actions     \* the CommitAction calls begun so far: what, and by whom

vars == <<pc, body, votes, seen, prepared, committed, mutex, ins, client, actions>>

Init ==
    /\ pc = [m \in Calls |-> "unsent"]
    /\ body = [s \in Seqs |-> "absent"]
    /\ votes = [t \in {"Prepare", "Commit"} |-> [s \in Seqs |-> {}]]
    /\ seen = [m \in Calls |-> {}]
    /\ prepared = [s \in Seqs |-> FALSE]
    /\ committed = [s \in Seqs |-> FALSE]
    /\ mutex = Free
    /\ ins = [s \in Seqs |-> Free]
    /\ client = [s \in Seqs |-> "idle"]
    /\ actions = <<>>

\* A thread of the pool runs no handler and waits in no GetRequest.
FreeThread ==
    Cardinality({m \in Calls : pc[m] \notin {"unsent", "queued", "done", "failed"}})
        + Cardinality({s \in Seqs : client[s] = "waiting"}) < Threads

\* The replicas that have broadcast their message of phase t.
Senders(t, s) == {n \in Alive : pc[Call(t, n, s)] # "unsent"}

\* The thread of m goes on to l.
Goto(m, l) == pc' = [pc EXCEPT ![m] = l]

\* The thread of m sends this process' message of phase t and ends.
Broadcast(m, t) ==
    pc' = [pc EXCEPT ![m] = "done", ![Call(t, Me, m.seq)] = "queued"]

-----------------------------------------------------------------------------
(***************************************************************************)
(* The environment: the messages of the other replicas.                    *)
(***************************************************************************)
MaySend(m) ==
    CASE m.mtype = "Preprepare" ->
            m.seq > 0 => Cardinality(Senders("Commit", m.seq - 1)) >= Quorum
      [] m.mtype = "Prepare" -> pc[Call("Preprepare", Primary, m.seq)] # "unsent"
      [] m.mtype = "Commit" -> Cardinality(Senders("Prepare", m.seq)) >= Quorum

PeerSend(m) ==
    /\ m.from # Me
    /\ pc[m] = "unsent"
    /\ MaySend(m)
    /\ Goto(m, "queued")
    /\ UNCHANGED <<body, votes, seen, prepared, committed, mutex, ins, client, actions>>

\* A free thread takes a call from the queue, in no particular order.
Start(m) ==
    /\ pc[m] = "queued"
    /\ FreeThread
    /\ Goto(m, IF m.mtype = "Preprepare" THEN "find" ELSE "insert")
    /\ UNCHANGED <<body, votes, seen, prepared, committed, mutex, ins, client, actions>>

-----------------------------------------------------------------------------
(***************************************************************************)
(* GetRequest, at the primary: Preprepare takes the next number, inserts   *)
(* the proposal and broadcasts the pre-prepare; the thread then waits for  *)
(* the proposal to be committed, and is not available to other calls.      *)
(***************************************************************************)
GetRequest(s) ==
    /\ Me = Primary
    /\ client[s] = "idle"
    /\ s > 0 => client[s - 1] = "returned"
    /\ FreeThread
    /\ client' = [client EXCEPT ![s] = "waiting"]
    /\ body' = [body EXCEPT ![s] = IF @ = "absent" THEN "full" ELSE @]
    /\ Goto(Call("Preprepare", Me, s), "queued")
    /\ UNCHANGED <<votes, seen, prepared, committed, mutex, ins, actions>>

GetRequestReturn(s) ==
    /\ client[s] = "waiting"
    /\ ins[s] = Free
    /\ committed[s]
    /\ client' = [client EXCEPT ![s] = "returned"]
    /\ UNCHANGED <<pc, body, votes, seen, prepared, committed, mutex, ins, actions>>

-----------------------------------------------------------------------------
(***************************************************************************)
(* Prepare, the handler of a pre-prepare.  It looks the proposal up with   *)
(* proposals_mutex held, and inserts one with the body or fills the body   *)
(* in.  Inserting under a number that has a proposal by now does nothing.  *)
(***************************************************************************)
PrepareFind(m) ==
    /\ pc[m] = "find"
    /\ mutex = Free
    /\ mutex' = m
    /\ Goto(m, IF body[m.seq] = "absent" THEN "add" ELSE "fill")
    /\ UNCHANGED <<body, votes, seen, prepared, committed, ins, client, actions>>

PrepareAdd(m) ==
    /\ pc[m] = "add"
    /\ body' = [body EXCEPT ![m.seq] = IF @ = "absent" THEN "full" ELSE @]
    /\ mutex' = Free
    /\ Goto(m, "ask")
    /\ UNCHANGED <<votes, seen, prepared, committed, ins, client, actions>>

PrepareFill(m) ==
    /\ pc[m] = "fill"
    /\ ins[m.seq] = Free
    /\ body' = [body EXCEPT ![m.seq] = IF @ = "empty" THEN "full" ELSE @]
    /\ mutex' = Free
    /\ Goto(m, "ask")
    /\ UNCHANGED <<votes, seen, prepared, committed, ins, client, actions>>

\* What CheckProposal may return: the coin node's verdict, or TRUE when the coin
\* node's handler reported an error.
CheckProposal == BOOLEAN

\* CheckProposal has returned; a prepare is sent when the answer was yes.  No
\* prepare is sent either when it ended with another exception.
PrepareAsk(m) ==
    /\ pc[m] = "ask"
    /\ \E agree \in CheckProposal :
          IF agree THEN Broadcast(m, "Prepare") ELSE Goto(m, "done")
    /\ UNCHANGED <<body, votes, seen, prepared, committed, mutex, ins, client, actions>>

-----------------------------------------------------------------------------
(***************************************************************************)
(* Commit and Reply, the handlers of a prepare and of a commit, begin      *)
(* alike: a proposal is inserted if there is none, and UpdateInfo pushes   *)
(* the sender on the vector of the votes of the phase, with no lock held.  *)
(* Two threads that push at once may both find the vector as it was and    *)
(* keep only one of the new elements.                                      *)
(***************************************************************************)
Insert(m) ==
    /\ pc[m] = "insert"
    /\ body' = [body EXCEPT ![m.seq] = IF @ = "absent" THEN "empty" ELSE @]
    /\ Goto(m, "load")
    /\ UNCHANGED <<votes, seen, prepared, committed, mutex, ins, client, actions>>

UpdateLoad(m) ==
    /\ pc[m] = "load"
    /\ seen' = [seen EXCEPT ![m] = votes[m.mtype][m.seq]]
    /\ Goto(m, "store")
    /\ UNCHANGED <<body, votes, prepared, committed, mutex, ins, client, actions>>

\* Faulty variants of definitions, here and below, are used to see that a
\* property depends on the code being as it is.  This one pushes the number of
\* the proposal instead of the replica's id.
UpdateStore_PushesSeq(m) ==
    /\ pc[m] = "store"
    /\ votes' = [votes EXCEPT ![m.mtype][m.seq] = seen[m] \cup {m.seq}]
    /\ seen' = [seen EXCEPT ![m] = {}]
    /\ Goto(m, "tally")
    /\ UNCHANGED <<body, prepared, committed, mutex, ins, client, actions>>

UpdateStore(m) ==
    /\ pc[m] = "store"
    /\ votes' = [votes EXCEPT ![m.mtype][m.seq] = seen[m] \cup {m.from}]
    /\ seen' = [seen EXCEPT ![m] = {}]
    /\ Goto(m, "tally")
    /\ UNCHANGED <<body, prepared, committed, mutex, ins, client, actions>>

\* Faulty: takes f + 1 votes.
Enough_FPlusOne(t, s) ==
    \/ IF t = "Prepare" THEN prepared[s] ELSE committed[s]
    \/ Cardinality(votes[t][s]) > F

\* CheckVotes, with ins_mutex_ held.
Enough(t, s) ==
    \/ IF t = "Prepare" THEN prepared[s] ELSE committed[s]
    \/ Cardinality(votes[t][s]) >= Quorum

CheckVotes(m) ==
    /\ pc[m] = "tally"
    /\ ins[m.seq] = Free
    /\ Goto(m, IF Enough(m.mtype, m.seq) THEN "act" ELSE "done")
    /\ UNCHANGED <<body, votes, seen, prepared, committed, mutex, ins, client, actions>>

\* The rest of Commit: the first thread to come here sends the commit.
CommitAct(m) ==
    /\ pc[m] = "act"
    /\ m.mtype = "Prepare"
    /\ ins[m.seq] = Free
    /\ \/ prepared[m.seq] /\ Goto(m, "done") /\ UNCHANGED prepared
       \/ /\ ~ prepared[m.seq]
          /\ prepared' = [prepared EXCEPT ![m.seq] = TRUE]
          /\ Broadcast(m, "Commit")
    /\ UNCHANGED <<body, votes, seen, committed, mutex, ins, client, actions>>

\* The coin node is called to commit the body, by the thread of m.
CommitAction(m) ==
    actions' = Append(actions, [by |-> m, seq |-> m.seq, body |-> body[m.seq]])

\* Faulty: ins_mutex_ is released before CommitAction.
ReplyAct_Unlocked(m) ==
    /\ pc[m] = "act"
    /\ m.mtype = "Commit"
    /\ ins[m.seq] = Free
    /\ IF ~ committed[m.seq] /\ body[m.seq] # "empty"
       THEN /\ CommitAction(m)
            /\ Goto(m, "call")
       ELSE Goto(m, "done") /\ UNCHANGED actions
    /\ UNCHANGED <<body, votes, seen, prepared, committed, mutex, ins, client>>

\* Faulty: sets committed, releases ins_mutex_ and then calls the coin node.
ReplyAct_CommitsFirst(m) ==
    /\ pc[m] = "act"
    /\ m.mtype = "Commit"
    /\ ins[m.seq] = Free
    /\ IF ~ committed[m.seq] /\ body[m.seq] # "empty"
       THEN /\ committed' = [committed EXCEPT ![m.seq] = TRUE]
            /\ CommitAction(m)
            /\ Goto(m, "call")
       ELSE Goto(m, "done") /\ UNCHANGED <<actions, committed>>
    /\ UNCHANGED <<body, votes, seen, prepared, mutex, ins, client>>

\* The rest of Reply: CommitAction calls the coin node with ins_mutex_ held.
ReplyAct(m) ==
    /\ pc[m] = "act"
    /\ m.mtype = "Commit"
    /\ ins[m.seq] = Free
    /\ \/ /\ ~ committed[m.seq]
          /\ body[m.seq] # "empty"
          /\ ins' = [ins EXCEPT ![m.seq] = m]
          /\ CommitAction(m)
          /\ Goto(m, "call")
       \/ /\ committed[m.seq] \/ body[m.seq] = "empty"
          /\ Goto(m, "done")
          /\ UNCHANGED <<ins, actions>>
    /\ UNCHANGED <<body, votes, seen, prepared, committed, mutex, client>>

\* Faulty: ins_mutex_ is not released.
ReplyCommitted_KeepsLock(m) ==
    /\ pc[m] = "call"
    /\ committed' = [committed EXCEPT ![m.seq] = TRUE]
    /\ Goto(m, "done")
    /\ UNCHANGED <<body, votes, seen, prepared, mutex, ins, client, actions>>

\* The coin node has answered, or CommitAction has swallowed the error that the
\* coin node's handler reported (an rpc_error).
ReplyCommitted(m) ==
    /\ pc[m] = "call"
    /\ committed' = [committed EXCEPT ![m.seq] = TRUE]
    /\ ins' = [ins EXCEPT ![m.seq] = Free]
    /\ Goto(m, "done")
    /\ UNCHANGED <<body, votes, seen, prepared, mutex, client, actions>>

\* CommitAction ends with another exception, as when the coin node is down: the
\* handler ends, ins_mutex_ is released and committed is not set.  Whether the
\* coin node has executed the body is not known.
ReplyThrows(m) ==
    /\ pc[m] = "call"
    /\ ins' = [ins EXCEPT ![m.seq] = Free]
    /\ Goto(m, "failed")
    /\ UNCHANGED <<body, votes, seen, prepared, committed, mutex, client, actions>>

-----------------------------------------------------------------------------
\* The steps of the thread that runs the handler of m.
Handler(m) ==
    \/ PrepareFind(m) \/ PrepareAdd(m) \/ PrepareFill(m) \/ PrepareAsk(m)
    \/ Insert(m) \/ UpdateLoad(m) \/ UpdateStore(m) \/ CheckVotes(m)
    \/ CommitAct(m) \/ ReplyAct(m) \/ ReplyCommitted(m) \/ ReplyThrows(m)

Next ==
    \/ \E m \in Calls : PeerSend(m) \/ Start(m) \/ Handler(m)
    \/ \E s \in Seqs : GetRequest(s) \/ GetRequestReturn(s)

Spec == Init /\ [][Next]_vars

(***************************************************************************)
(* Fairness: the other replicas send what they may, the pool takes every   *)
(* call out of its queue, a thread that can go on does, and a call to the  *)
(* coin node comes to an end, well or not.                                 *)
(***************************************************************************)
FairSpec ==
    /\ Spec
    /\ \A m \in Calls :
          WF_vars(PeerSend(m)) /\ WF_vars(Start(m)) /\ WF_vars(Handler(m))
    /\ \A s \in Seqs : WF_vars(GetRequestReturn(s))

-----------------------------------------------------------------------------
(***************************************************************************)
(* Properties.                                                             *)
(***************************************************************************)
Labels == {"unsent", "queued", "find", "add", "fill", "ask", "insert", "load",
           "store", "tally", "act", "call", "done", "failed"}

\* The type invariant.
TypeOK ==
    /\ pc \in [Calls -> Labels]
    /\ body \in [Seqs -> {"absent", "empty", "full"}]
    /\ votes \in [{"Prepare", "Commit"} -> [Seqs -> SUBSET Alive]]
    /\ seen \in [Calls -> SUBSET Alive]
    /\ prepared \in [Seqs -> BOOLEAN]
    /\ committed \in [Seqs -> BOOLEAN]
    /\ mutex \in Calls \cup {Free}
    /\ ins \in [Seqs -> Calls \cup {Free}]
    /\ client \in [Seqs -> {"idle", "waiting", "returned"}]
    /\ actions \in Seq([by : Calls, seq : Seqs, body : {"absent", "empty", "full"}])

(***************************************************************************)
(* However the threads of the pool interleave, the coin node is told to    *)
(* commit a proposal at most once and never with an empty body: the second *)
(* thread that has counted enough commits waits on ins_mutex_ until the    *)
(* first one's CommitAction has ended, and then finds committed set.  It   *)
(* is told again only when the calls before have failed.                   *)
(***************************************************************************)
CommitOnce ==
    \A j \in 1 .. Len(actions) :
        /\ actions[j].body = "full"
        /\ \A i \in 1 .. (j - 1) :
              actions[i].seq = actions[j].seq => pc[actions[i].by] = "failed"

\* The replicas whose vote of phase t has been counted, or overwritten.
Voted(t, s) ==
    {n \in Alive : pc[Call(t, n, s)] \in {"tally", "act", "call", "done", "failed"}}

(***************************************************************************)
(* Votes may be lost to overlapping updates but none is made up: this      *)
(* process sends its commit, and commits, after the votes of 2f + 1        *)
(* different replicas.                                                     *)
(***************************************************************************)
VotesBacked ==
    \A s \in Seqs :
        /\ prepared[s] => Cardinality(Voted("Prepare", s)) >= Quorum
        /\ (\E i \in 1 .. Len(actions) : actions[i].seq = s)
              => Cardinality(Voted("Commit", s)) >= Quorum

(***************************************************************************)
(* GetRequest returns to the coin node that called it after that coin node *)
(* has executed the block, not while it still does: CoinNode::Run packs    *)
(* the next block on top of what its balances and its chain are then.      *)
(* (What CommitAction swallows, an error that the coin node's handler has  *)
(* reported, counts as executed; a call that failed does not.)             *)
(***************************************************************************)
ReturnedIsExecuted ==
    \A s \in Seqs : client[s] = "returned" =>
        /\ \E i \in 1 .. Len(actions) :
              actions[i].seq = s /\ pc[actions[i].by] = "done"
        /\ \A m \in Calls : m.seq = s => pc[m] # "call"

\* The coin node of this process has refused proposal s.
Refused(s) ==
    /\ pc[Call("Preprepare", Primary, s)] = "done"
    /\ pc[Call("Prepare", Me, s)] = "unsent"

\* All votes of phase t have been counted, and overlapping push_back calls have
\* left too few of them in the vector.
VotesLost(t, s) == Voted(t, s) = Alive /\ Cardinality(votes[t][s]) < Quorum

\* A call that told the coin node to commit proposal s ended with an exception.
CommitFailed(s) == \E n \in Alive : pc[Call("Commit", n, s)] = "failed"

(***************************************************************************)
(* At the primary, with one thread blocked in GetRequest and the others    *)
(* left to handle messages, the call returns: no wake-up is lost between   *)
(* the flag and the condition variable, and no handler holds a mutex for   *)
(* ever.  What can keep it from returning is that the coin node refuses    *)
(* its own block or fails to answer, or that votes are lost to overlapping *)
(* updates: with just a quorum running, one lost vote blocks it for ever.  *)
(***************************************************************************)
RequestReturns ==
    \A s \in Seqs : client[s] = "waiting" ~>
        \/ client[s] = "returned"
        \/ Refused(s)
        \/ \E t \in {"Prepare", "Commit"} : VotesLost(t, s)
        \/ CommitFailed(s)
=============================================================================
