---------------------------- MODULE MCPbftCluster ----------------------------
(***************************************************************************)
(* The four-replica deployment of config_json/config.json, for TLC.  The   *)
(* replicas are model values; n0 is the primary.                           *)
(***************************************************************************)
EXTENDS PbftCluster, TLC

CONSTANTS n0, n1, n2, n3

\* Every replica reaches every other one.
AllLinks == Nodes \X Nodes

\* n3 is down: the other three are exactly a quorum.
OneDown == (Nodes \ {n3}) \X (Nodes \ {n3})

\* n3 hears everybody and is heard by nobody.  (Every behaviour with fewer
\* links is one with more links in which some calls stay in transit.)
OneMute == (Nodes \ {n3}) \X Nodes

\* The primary hears only itself.
OneWay == AllLinks \ {<<n1, n0>>}

\* Requests can be renamed, and so can replicas that differ neither in role nor
\* in links.
RequestSymmetry == Permutations(Requests)

Symmetry == Permutations({n1, n2}) \cup RequestSymmetry
=============================================================================
