---------------------------- MODULE LabelAssign ----------------------------
(***************************************************************************)
(* updateNodeLabels (src/unnamed/part_002) as an operator: the labels the  *)
(* leader's node labeler gives the nodes of its informer store.            *)
(*                                                                         *)
(* nodeList and nodeCountPerGroup are Go maps, so the two passes walk the  *)
(* nodes and the groups in an order the runtime chooses: both orders are   *)
(* arguments.  A label is a group name, a name that is no longer a         *)
(* scheduler, or NoLabel for a node without the label.                     *)
(***************************************************************************)
EXTENDS Integers, Sequences, FiniteSets, SequencesExt

CONSTANTS
    Relays,    \* pod names with the RelayPrefix
    NoLabel    \* a node without SchedulerGroupLabelKey

\* GetMembers() with the relays deleted.
Schedulers(members) == members \ Relays

\* Mutant: desired rounded down.
DesiredFloor(n, g) == n \div g

\* int(math.Ceil(float64(len(nodeList)) / float64(len(schedulers)))).
Desired(n, g) == (n + g - 1) \div g

\* First pass: keep a node whose group is a scheduler with room, count it;
\* every other node goes to toMove, in nodeList order.
RECURSIVE FirstPass(_, _, _, _, _)
FirstPass(ns, lab, desired, cnt, toMove) ==
    IF ns = <<>> THEN [cnt |-> cnt, toMove |-> toMove]
    ELSE LET n == Head(ns) IN
         IF lab[n] \in DOMAIN cnt /\ cnt[lab[n]] < desired
         THEN FirstPass(Tail(ns), lab, desired,
                        [cnt EXCEPT ![lab[n]] = @ + 1], toMove)
         ELSE FirstPass(Tail(ns), lab, desired, cnt, Append(toMove, n))

\* Second pass over toMove from index i (0-based): the node goes to
\* shortGroups[i % len], a group that fills is deleted from shortGroups.
\* An empty shortGroups is Go's integer divide by zero.
RECURSIVE SecondPass(_, _, _, _, _, _)
SecondPass(i, toMove, short, cnt, desired, assign) ==
    IF i = Len(toMove) THEN [assign |-> assign, panic |-> FALSE]
    ELSE IF short = <<>> THEN [assign |-> assign, panic |-> TRUE]
    ELSE LET k    == i % Len(short)
             g    == short[k + 1]
             cnt2 == [cnt EXCEPT ![g] = @ + 1]
         IN  SecondPass(i + 1, toMove,
                        IF cnt2[g] >= desired THEN RemoveAt(short, k + 1) ELSE short,
                        cnt2, desired, assign @@ (toMove[i + 1] :> g))

\* updateNodeLabels over the store's nodes listed as ns with labels lab and
\* the map order gorder of the schedulers: the node -> group assignments of
\* the second pass (patches are sent for those that change a label) and
\* whether it panics.  The early returns assign nothing.
UpdateNodeLabels(members, ns, lab, gorder) ==
    LET scheds  == Schedulers(members)
        desired == Desired(Len(ns), Cardinality(scheds))
        first   == FirstPass(ns, lab, desired, [g \in scheds |-> 0], <<>>)
        short   == SelectSeq(gorder, LAMBDA g : first.cnt[g] < desired)
        none    == [assign |-> <<>>, panic |-> FALSE]
    IN  IF scheds = {} \/ first.toMove = <<>> \/ short = <<>> THEN none
        ELSE SecondPass(0, first.toMove, short, first.cnt, desired, <<>>)

\* The patches of an assignment: the nodes whose label changes.
Patches(assign, lab) == {n \in DOMAIN assign : assign[n] # lab[n]}

=============================================================================
