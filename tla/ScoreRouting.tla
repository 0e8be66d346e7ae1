---------------------------- MODULE ScoreRouting ----------------------------
(***************************************************************************)
(* Score routing between peers whose leader views disagree.  Every peer    *)
(* is a scheduler and an aggregator (StartGrpcServer runs everywhere).     *)
(* DistPermit.Permit and podScheduleFailure pick the aggregator with       *)
(* GetTargetForScoring on the peer's own SchedulerSet, which sorts the     *)
(* leader first; the leader is whatever OnNewLeader last told that peer.   *)
(* Each peer's leader elector polls the lease on its own RetryPeriod, so   *)
(* after a lease moves the peers learn the new holder at different times.  *)
(*                                                                         *)
(* The aggregators are ScoreEvaluator with keys <<aggregator, pod>>: each  *)
(* peer's evaluator table holds its own evaluator for the pod, and one     *)
(* table keyed by the pair is the same as one table per peer.  The member  *)
(* views agree (memberView = Peers everywhere), so every evaluator's limit *)
(* is the number of peers; only the leader views differ.                   *)
(***************************************************************************)
EXTENDS ScoreEvaluator

CONSTANTS
    Peers,            \* scheduler peers, named by numbers as in SchedulerSet
    NoNode,           \* the "" node name sent by podScheduleFailure
    NodeOf,           \* per peer: the node of its partition it scores
    NoLeader,         \* s.leader before the first OnNewLeader
    ScoreVals,        \* TotalScore values the engine may compute at Permit
    Pod,              \* the pod's key
    PodHash,          \* fnv32 of the pod's key
    MaxLeaderChanges  \* bound on lease take-overs

ASSUME Reqs = Peers /\ Keys = Peers \X {Pod}
ASSUME NodeOf \in [Peers -> Nodes \ {NoNode}] /\ NoNode \in Nodes
ASSUME ScoreVals \subseteq Nat /\ 0 \in ScoreVals /\ PodHash \in Nat

VARIABLES
    holder,      \* the lease holder
    changes,     \* lease take-overs so far
    leaderView,  \* per peer: s.leader of its SchedulerSet
    peer,        \* per peer: where its scheduling cycle of the pod is
    dest,        \* per peer: the aggregator its score was sent to, or 0
    inflight     \* CollectScore RPCs sent and not yet arrived

vars == <<table, evals, req, memberView, holder, changes, leaderView, peer,
          dest, inflight>>

SS == INSTANCE SchedulerSet WITH
    RelayNames <- {}, FanOut <- 10, AllowSolo <- FALSE, Keys <- {Pod},
    Hash <- [k \in {Pod} |-> PodHash], Self <- CHOOSE p \in Peers : TRUE

PeerPCs == {"sched", "awaiting", "permitted", "denied", "failed"}

RoutingTypeOK ==
    /\ TypeOK
    /\ holder \in Peers /\ changes \in 0..MaxLeaderChanges
    /\ leaderView \in [Peers -> Peers \cup {NoLeader}]
    /\ peer \in [Peers -> PeerPCs]
    /\ dest \in [Peers -> Peers \cup {0}]
    /\ inflight \in SUBSET Peers

Init ==
    /\ EvInit
    /\ memberView = Peers
    /\ holder \in Peers
    /\ changes = 0
    /\ leaderView = [p \in Peers |-> holder]
    /\ peer = [p \in Peers |-> "sched"]
    /\ dest = [p \in Peers |-> 0]
    /\ inflight = {}

-----------------------------------------------------------------------------
\* The aggregator peer p computes for the pod from its own view.
Target(p) == SS!GetTargetForScoring(p, Pod, memberView, leaderView[p])

\* The lease expires on its holder and another peer's elector acquires it.
LeaderChange ==
    /\ changes < MaxLeaderChanges
    /\ holder' \in Peers \ {holder}
    /\ changes' = changes + 1
    /\ UNCHANGED <<table, evals, req, memberView, leaderView, peer, dest, inflight>>

\* p's elector observes the new holder: OnNewLeader -> SetLeader.
NewLeader(p) ==
    /\ leaderView[p] # holder
    /\ leaderView' = [leaderView EXCEPT ![p] = holder]
    /\ UNCHANGED <<table, evals, req, memberView, holder, changes, peer, dest, inflight>>

\* Permit with TotalScore s for p's own node: target from p's view, then
\* SendScore (a score of 0 is denied at once, any other blocks on the RPC).
Permit(p, s) ==
    /\ peer[p] = "sched"
    /\ req' = [req EXCEPT ![p].sc = [node |-> NodeOf[p], score |-> s]]
    /\ dest' = [dest EXCEPT ![p] = Target(p)]
    /\ inflight' = inflight \cup {p}
    /\ peer' = [peer EXCEPT ![p] = IF s = 0 THEN "denied" ELSE "awaiting"]
    /\ UNCHANGED <<table, evals, memberView, holder, changes, leaderView>>

\* podScheduleFailure: a score of 0 for node "" to p's target.
ScheduleFailure(p) ==
    /\ peer[p] = "sched"
    /\ req' = [req EXCEPT ![p].sc = [node |-> NoNode, score |-> 0]]
    /\ dest' = [dest EXCEPT ![p] = Target(p)]
    /\ inflight' = inflight \cup {p}
    /\ peer' = [peer EXCEPT ![p] = "failed"]
    /\ UNCHANGED <<table, evals, memberView, holder, changes, leaderView>>

\* The RPC reaches dest[p], whose CollectScore records under <<dest, pod>>.
Deliver(p) ==
    /\ p \in inflight
    /\ Call(p, <<dest[p], Pod>>, req[p].sc)
    /\ inflight' = inflight \ {p}
    /\ UNCHANGED <<memberView, holder, changes, leaderView, peer, dest>>

\* client.CollectScore returns: Permit = highestScore.NodeName == NodeName.
Reply(p) ==
    /\ peer[p] = "awaiting"
    /\ req[p].pc = "done"
    /\ peer' = [peer EXCEPT ![p] = IF req[p].result.node = NodeOf[p]
                                   THEN "permitted" ELSE "denied"]
    /\ UNCHANGED <<table, evals, req, memberView, holder, changes, leaderView,
                   dest, inflight>>

Next ==
    \/ LeaderChange
    \/ \E p \in Peers : \/ NewLeader(p)
                        \/ \E s \in ScoreVals : Permit(p, s)
                        \/ ScheduleFailure(p)
                        \/ Deliver(p)
                        \/ Reply(p)
    \/ EvStep /\ UNCHANGED <<memberView, holder, changes, leaderView, peer,
                             dest, inflight>>

Spec == Init /\ [][Next]_vars

-----------------------------------------------------------------------------
\* Spec section 2 and 8.1: the pod's scores meet at one aggregator, so all
\* permit=true replies for it come from the same peer's evaluator.  Breaks
\* when two peers route by different leaders (GetTargetForScoring sorts
\* s.leader first) and both aggregators fire on their ticker with part of
\* the scores.  The straggler of one aggregator is left to AtMostOnePermit.
PermitsFromOneAggregator ==
    \A p, q \in Peers :
        peer[p] = "permitted" /\ peer[q] = "permitted" => dest[p] = dest[q]

=============================================================================
