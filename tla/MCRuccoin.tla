------------------------------ MODULE MCRuccoin ------------------------------
(***************************************************************************)
(* Four coin nodes and three accounts, for TLC.  Address 4 has no account. *)
(***************************************************************************)
EXTENDS Ruccoin, TLC

CONSTANTS n0, n1, n2, n3

Symmetry == Permutations({n1, n2, n3})

Tx(stamp, from, to, value) ==
    [stamp |-> stamp, from |-> from, to |-> to, value |-> value]

TwoAndOnes == [a \in Accounts |-> IF a = 1 THEN 2 ELSE 1]
Rich == [a \in Accounts |-> 9]

\* Coins that go round, in quarters of a micro-coin: 2 can pay 1 after 1 has paid
\* 2, and 1 can then pay again.  Two senders share a second, and the last
\* transaction, which 1 sends to itself, is one the pool takes for the first.
\* The first is written as less than it is, and the last as more.
RoundTrip == {Tx(1, 1, 2, 5), Tx(1, 2, 1, 8), Tx(2, 1, 3, 8), Tx(1, 1, 1, 7)}

\* One transaction for each of two blocks, or both in one; one of them has a
\* recipient without account.
OneEach == {Tx(1, 1, 2, 4), Tx(2, 2, 4, 3)}
=============================================================================
