---------------------------- MODULE MCTopology ----------------------------
(***************************************************************************)
(* GetSubMembers checked against spec.md 4.2 / 8.3 over every membership   *)
(* of up to 13 peers (enough for the second level of the 10-ary tree):     *)
(* the members are 1..n with at most one gap, every peer has the same      *)
(* view, and the leader is any member (or, with LeaderInMembers = FALSE,   *)
(* any peer or none).  The variables only enumerate the inputs.            *)
(***************************************************************************)
EXTENDS SchedulerSet

CONSTANTS MaxPeers, LeaderInMembers

VARIABLES members, leader

Memberships ==
    UNION {{(1..n) \ {gap} : gap \in 0..n} : n \in 1..MaxPeers} \ {{}}

\* No key is hashed here.
MCHash == [k \in Keys |-> 0]

Init ==
    /\ members \in Memberships
    /\ leader \in IF LeaderInMembers THEN members ELSE Peers

Next == UNCHANGED <<members, leader>>

Spec == Init /\ [][Next]_<<members, leader>>

\* The peers that put q in their sub-member list: the members and the
\* leader, which relays every pod it takes in whether or not it is listed.
RelayersOf(q) ==
    {p \in members \cup {leader} : q \in ToSet(SubMembers(p, members, leader))}

\* Spec 8.3: every member but the leader is in the GetSubMembers list of
\* exactly one peer, and the leader is in none, so a pod relayed from the
\* leader reaches every peer once.  Breaks if the position search or the
\* start offset of GetSubMembers is wrong, or the leader is not sorted first.
TopologyCoverage ==
    \A q \in members :
        Cardinality(RelayersOf(q)) = IF q = leader THEN 0 ELSE 1

=============================================================================
