-------------------------- MODULE MCScoreRouting --------------------------
(* Three scheduler peers named 1..3 with one node each, one pod whose hash *)
(* picks the first member in podNameSort order (the leader), TotalScore in *)
(* {0, 1}, and one lease take-over: enough for two peers to route by       *)
(* different leaders.                                                      *)
EXTENDS ScoreRouting, TLC

CONSTANTS n1, n2, n3

MCPeers == {1, 2, 3}
MCNodeOf == (1 :> n1) @@ (2 :> n2) @@ (3 :> n3)
MCNodes == {n1, n2, n3, NoNode}
MCKeys == MCPeers \X {Pod}
=============================================================================
