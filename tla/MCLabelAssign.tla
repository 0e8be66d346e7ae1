--------------------------- MODULE MCLabelAssign ---------------------------
(***************************************************************************)
(* updateNodeLabels over every store of up to MaxNodes nodes, every label  *)
(* (a scheduler, a relay or departed peer, none), every membership of the  *)
(* Groups and every map order of the schedulers.  Nodes are 1..n in        *)
(* nodeList order: with every labelling enumerated, any other node order   *)
(* is a renaming of one of these.  The variables only hold the inputs.     *)
(***************************************************************************)
EXTENDS LabelAssign

CONSTANTS Groups, MaxNodes

VARIABLES members, ns, lab, gorder

vars == <<members, ns, lab, gorder>>

\* The orders in which `range nodeCountPerGroup` can list the schedulers.
Orders(S) == {o \in [1..Cardinality(S) -> S] : ToSet(o) = S}

Init ==
    /\ members \in SUBSET Groups
    /\ ns \in {[i \in 1..n |-> i] : n \in 0..MaxNodes}
    /\ lab \in [1..Len(ns) -> Groups \cup {NoLabel}]
    /\ gorder \in Orders(Schedulers(members))

Next == UNCHANGED vars

Spec == Init /\ [][Next]_vars

Result == UpdateNodeLabels(members, ns, lab, gorder)

\* The labels once every patch of the run has succeeded.
Final == [n \in DOMAIN lab |-> IF n \in DOMAIN Result.assign
                               THEN Result.assign[n] ELSE lab[n]]

GroupSize(g) == Cardinality({n \in DOMAIN Final : Final[n] = g})

\* Spec 4.3: the second pass never takes `i % len(shortGroups)` of an empty
\* list, although it deletes a group as soon as it fills and keeps counting
\* i; and once the patches are applied every node is in a scheduler's group
\* and no group holds more than desired nodes.
LabelingSound ==
    LET scheds == Schedulers(members) IN
    /\ ~Result.panic
    /\ scheds # {} =>
         /\ \A n \in DOMAIN Final : Final[n] \in scheds
         /\ \A g \in scheds : GroupSize(g) <= Desired(Len(ns), Cardinality(scheds))

\* Spec 8.5: after the labeler has run, the group sizes of the schedulers
\* differ by at most one.
PartitionBalance ==
    \A g, h \in Schedulers(members) : GroupSize(g) - GroupSize(h) <= 1

=============================================================================
