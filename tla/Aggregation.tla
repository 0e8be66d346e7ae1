---------------------------- MODULE Aggregation ----------------------------
(***************************************************************************)
(* The two-phase permit protocol for one pod: every scheduler peer runs    *)
(* the embedded engine on the pod and either reaches DistPermit.Permit     *)
(* (pkg/distpermit/distpermit.go) or fails before it and reaches           *)
(* podScheduleFailure (cmd/dist-scheduler/scheduler.go).  Both send the    *)
(* peer's score to the aggregator peer with SendScore; the aggregator's    *)
(* CollectScore (cmd/dist-scheduler/scheduler_metrics.go) runs             *)
(* RecordAndWait (ScoreEvaluator) and answers Permit = (winner's node =    *)
(* the caller's node).                                                     *)
(*                                                                         *)
(* A peer's candidate node is named after the peer (nodes are partitioned  *)
(* between peers); NoNode is the "" of podScheduleFailure.  All peers see  *)
(* the same aggregator here; ScoreRouting lets their leader views differ.  *)
(* The aggregator's endpoint cache may still miss a peer at the start      *)
(* (InitViews), which bounds the evaluator's limit, until ViewCatchUp.     *)
(***************************************************************************)
EXTENDS ScoreEvaluator

CONSTANTS
    Peers,      \* scheduler peers; peer p's CollectScore goroutine is req[p]
    NoNode,     \* the "" node name sent by podScheduleFailure
    ScoreVals,  \* TotalScore values the engine may compute at Permit
    Pod,        \* the pod's key
    InitViews   \* the aggregator's possible endpoint caches at the start

ASSUME Reqs = Peers /\ Nodes = Peers \cup {NoNode} /\ Keys = {Pod}
ASSUME ScoreVals \subseteq Nat /\ 0 \in ScoreVals
ASSUME Peers \in InitViews /\ InitViews \subseteq SUBSET Peers

VARIABLES
    peer,     \* per peer: where its scheduling cycle of the pod is
    inflight  \* CollectScore RPCs sent and not yet arrived at the aggregator

vars == <<table, evals, req, memberView, peer, inflight>>

\* "sched"     engine running Filter/Score for the pod
\* "awaiting"  blocked in SendScore on the unary CollectScore RPC
\* "permitted" Permit returned Success: the peer goes on to bind
\* "denied"    Permit returned Unschedulable (or the RPC failed)
\* "failed"    failed before Permit; podScheduleFailure sent a score of 0
\* "unreached" never got the pod: the relay send to it failed (RelayPod
\*             counts the latch down and moves on), so it sends no score
PeerPCs == {"sched", "awaiting", "permitted", "denied", "failed", "unreached"}

AggTypeOK ==
    /\ TypeOK
    /\ peer \in [Peers -> PeerPCs]
    /\ inflight \in SUBSET Peers

Init ==
    /\ EvInit
    /\ memberView \in InitViews
    /\ peer = [p \in Peers |-> "sched"]
    /\ inflight = {}

-----------------------------------------------------------------------------
\* Permit with TotalScore s for the peer's own node.  SendScore: a score of
\* 0 is sent with `go client.CollectScore` and denied at once; any other
\* score blocks on the RPC.
Permit(p, s) ==
    /\ peer[p] = "sched"
    /\ s \in ScoreVals
    /\ req' = [req EXCEPT ![p].sc = [node |-> p, score |-> s]]
    /\ inflight' = inflight \cup {p}
    /\ peer' = [peer EXCEPT ![p] = IF s = 0 THEN "denied" ELSE "awaiting"]
    /\ UNCHANGED <<table, evals, memberView>>

\* podScheduleFailure: the engine failed before DistPermit (not in the
\* binder, not denied by DistPermit), so it sends a score of 0 for node "".
ScheduleFailure(p) ==
    /\ peer[p] = "sched"
    /\ req' = [req EXCEPT ![p].sc = [node |-> NoNode, score |-> 0]]
    /\ inflight' = inflight \cup {p}
    /\ peer' = [peer EXCEPT ![p] = "failed"]
    /\ UNCHANGED <<table, evals, memberView>>

\* The relay stream to p failed: the pod never reaches p's engine.
Unreached(p) ==
    /\ peer[p] = "sched"
    /\ peer' = [peer EXCEPT ![p] = "unreached"]
    /\ UNCHANGED <<table, evals, req, memberView, inflight>>

\* The RPC reaches the aggregator, whose gRPC server calls CollectScore.
Deliver(p) ==
    /\ p \in inflight
    /\ Call(p, Pod, req[p].sc)
    /\ inflight' = inflight \ {p}
    /\ UNCHANGED <<memberView, peer>>

\* client.CollectScore returns: Permit = highestScore.NodeName == NodeName.
Reply(p) ==
    /\ peer[p] = "awaiting"
    /\ req[p].pc = "done"
    /\ peer' = [peer EXCEPT ![p] = IF req[p].result.node = p
                                   THEN "permitted" ELSE "denied"]
    /\ UNCHANGED <<table, evals, req, memberView, inflight>>

\* The aggregator's EndpointSlice informer stores the slice that lists the
\* peer its cache was missing (a scheduler that has just become ready and
\* was already relayed the pod by a peer whose cache had it).
ViewCatchUp ==
    /\ memberView # Peers
    /\ memberView' = Peers
    /\ UNCHANGED <<table, evals, req, peer, inflight>>

AggNext ==
    \/ ViewCatchUp
    \/ \E p \in Peers : \/ \E s \in ScoreVals : Permit(p, s)
                        \/ ScheduleFailure(p)
                        \/ Unreached(p)
                        \/ Deliver(p)
                        \/ Reply(p)
    \/ EvStep /\ UNCHANGED <<memberView, peer, inflight>>

\* Goroutines, the ticker and the network are weakly fair; the engine
\* eventually reaches Permit or its failure handler.
Fairness ==
    /\ EvFairness
    /\ \A p \in Peers :
          /\ WF_vars((\E s \in ScoreVals : Permit(p, s)) \/ ScheduleFailure(p))
          /\ WF_vars(Deliver(p))
          /\ WF_vars(Reply(p))

Spec == Init /\ [][AggNext]_vars /\ Fairness

-----------------------------------------------------------------------------
(* Properties. *)

\* Spec 8.1: across all peers at most one CollectScore reply carries
\* permit=true for the pod.
AtMostOnePermit ==
    \A p, q \in Peers : peer[p] = "permitted" /\ peer[q] = "permitted" => p = q

\* Spec 8.2: every evaluator that was created for the pod eventually fires
\* (by quorum or by its ticker) and leaves the table.
EvaluatorFires ==
    \A o \in 1..Cardinality(Peers) :
        o \in DOMAIN evals ~> (o \in DOMAIN evals /\ evals[o].highest # NotFired)

\* The aggregator as its callers see it: each evaluator is an abstract
\* evaluator holding the scores appended to it and its highestScore; a
\* server goroutine has joined the evaluator it appended to, and its result
\* is what RecordAndWait returned.
AbsEval == INSTANCE AbstractEvaluator WITH
    aevals <- [o \in DOMAIN evals |->
                 [key |-> evals[o].key, scores |-> evals[o].scores,
                  winner |-> evals[o].highest]],
    joined <- [r \in Reqs |-> IF req[r].pc \in {"wait", "woken", "done"}
                              THEN req[r].ev ELSE 0],
    result <- [r \in Reqs |-> IF req[r].pc = "done" THEN req[r].result
                              ELSE NotFired]

\* ScoreEvaluator implements AbstractEvaluator: RecordAndWait's table
\* lookup never opens a second live evaluator for the pod, fire() decides
\* once on one of the highest scores appended before it ran (the candidate
\* scan resets on every new maximum), and every caller returns the
\* decision of the evaluator it appended to.
ImplementsAbstractEvaluator == AbsEval!ASpec

\* Every CollectScore call returns: no RecordAndWait stays parked in
\* cond.Wait() after its evaluator has fired.
CollectScoreReturns ==
    \A r \in Reqs : req[r].pc = "lookup" ~> req[r].pc = "done"

=============================================================================
