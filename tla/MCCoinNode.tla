------------------------------ MODULE MCCoinNode ------------------------------
(***************************************************************************)
(* A coin node and three accounts, for TLC.                                *)
(***************************************************************************)
EXTENDS CoinNode

Tx(stamp, from, to, value) ==
    [stamp |-> stamp, from |-> from, to |-> to, value |-> value]

OneCoinEach == [a \in Accounts |-> 1]

\* 1 can pay twice only when it was paid in between, in quarters of a micro-coin.
Few == {Tx(1, 1, 2, 4), Tx(2, 2, 1, 4), Tx(3, 1, 3, 3)}
=============================================================================
