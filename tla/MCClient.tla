------------------------------- MODULE MCClient -------------------------------
(***************************************************************************)
(* An instance of Client for TLC: two coin nodes, one user for each "gen", *)
(* keys of one and of two bytes, and bytes below and above HexBase.        *)
(***************************************************************************)
EXTENDS Client, TLC

MCNodeAddr == <<"n1", "n2">>
MCNodeKey == "n1" :> 1 @@ "n2" :> 13
MCNonces == {<<0, 4>>}
=============================================================================
