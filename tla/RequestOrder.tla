----------------------------- MODULE RequestOrder -----------------------------
(***************************************************************************)
(* What the PBFT processes promise their coin nodes, without messages or   *)
(* votes: requests are issued one at a time and numbered, every replica    *)
(* executes the request that was issued under a number, each number at     *)
(* most once, and the primary has executed a request before the next one   *)
(* is issued.  Replicas other than the primary may lag behind, skip        *)
(* numbers and execute them in any order.                                  *)
(***************************************************************************)
EXTENDS Naturals, Sequences

CONSTANTS Nodes, Primary, Requests, MaxSeq

VARIABLES
    issued,    \* the requests issued so far; the first one has number 0
    executed   \* executed[n]: what n has executed, in the order it did

ovars == <<issued, executed>>

\* The numbers n has executed.
Done(n) == {executed[n][i].seq : i \in 1 .. Len(executed[n])}

OInit ==
    /\ issued = <<>>
    /\ executed = [n \in Nodes |-> <<>>]

\* A variant that lets a request be issued before the primary has executed the
\* last one, to see what depends on it.
Issue_Unordered(r) ==
    /\ Len(issued) < MaxSeq
    /\ issued' = Append(issued, r)
    /\ UNCHANGED executed

Issue(r) ==
    /\ Len(issued) < MaxSeq
    /\ Done(Primary) = 0 .. Len(issued) - 1
    /\ issued' = Append(issued, r)
    /\ UNCHANGED executed

Execute(n, s) ==
    /\ s < Len(issued)
    /\ s \notin Done(n)
    /\ executed' = [executed EXCEPT ![n] =
                       Append(@, [seq |-> s, req |-> issued[s + 1]])]
    /\ UNCHANGED issued

ONext ==
    \/ \E r \in Requests : Issue(r)
    \/ \E n \in Nodes, s \in 0 .. MaxSeq - 1 : Execute(n, s)

OSpec == OInit /\ [][ONext]_ovars
=============================================================================
