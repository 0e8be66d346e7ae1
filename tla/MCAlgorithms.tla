--------------------------- MODULE MCAlgorithms ---------------------------
(***************************************************************************)
(* The two partitioning algorithms of the program, each over every input  *)
(* up to its bounds, in one state space: the relay tree of GetSubMembers   *)
(* (MCTopology) and the node assignment of updateNodeLabels                *)
(* (MCLabelAssign).  An initial state is an input of one of them; the     *)
(* other's variables then hold one fixed input of their own, so each      *)
(* invariant is checked on every input of its algorithm.                   *)
(***************************************************************************)
EXTENDS Naturals

CONSTANTS
    Peers, RelayNames, NoLeader, FanOut, AllowSolo, Keys, Hash, Self,
    MaxPeers, LeaderInMembers,        \* MCTopology
    Relays, NoLabel, Groups, MaxNodes  \* MCLabelAssign

VARIABLES tmembers, tleader, lmembers, ns, lab, gorder

vars == <<tmembers, tleader, lmembers, ns, lab, gorder>>

Topo == INSTANCE MCTopology WITH members <- tmembers, leader <- tleader
Lab  == INSTANCE MCLabelAssign WITH members <- lmembers

\* No key is hashed by GetSubMembers.
NoHash == [k \in Keys |-> 0]

\* The fixed input of the algorithm whose inputs are not enumerated.
TopoFixed == tmembers = {1} /\ tleader = 1
LabFixed  == lmembers = {} /\ ns = <<>> /\ lab = <<>> /\ gorder = <<>>

Init == \/ Topo!Init /\ LabFixed
        \/ Lab!Init /\ TopoFixed

Next == UNCHANGED vars

Spec == Init /\ [][Next]_vars

\* Spec 8.3, as in MCTopology: a pod relayed from the leader reaches every
\* member exactly once through the GetSubMembers lists.
TopologyCoverage == Topo!TopologyCoverage

\* Spec 4.3, as in MCLabelAssign: updateNodeLabels never takes a modulo by
\* an empty shortGroups, puts every node in a scheduler's group and fills
\* no group past desired.
LabelingSound == Lab!LabelingSound

=============================================================================
