--------------------------- MODULE MCAggregation ---------------------------
(* Three scheduler peers, one pod, TotalScore in {0, 2}: enough for a tie *)
(* between two peers, a zero score, a new maximum after a zero, a          *)
(* pre-Permit failure, a peer whose score arrives after the ticker fired,  *)
(* and an aggregator whose endpoint cache does not list one peer yet.      *)
EXTENDS Aggregation, TLC

CONSTANTS p1, p2, p3

MCPeers == {p1, p2, p3}
MCNodes == MCPeers \cup {NoNode}
MCScoreVals == {0, 2}
\* The aggregator sees every peer, or not yet p3 (the peers are symmetric).
MCInitViews == {MCPeers, {p1, p2}}
MCSymmetry == Permutations(MCPeers)
=============================================================================
