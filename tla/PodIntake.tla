------------------------------ MODULE PodIntake ------------------------------
(***************************************************************************)
(* How pods reach the schedulers, across lease terms, composed with       *)
(* WebhookEndpoints (the lease and the webhook's Endpoints object).        *)
(*                                                                         *)
(* Webhook mode (watch_pods false, the deployment's default): the API      *)
(* server calls the validating webhook at the Endpoints' IP on every pod  *)
(* CREATE, and handleWebhook (src/unnamed/part_000) queues the pod on     *)
(* that peer.  The webhook is registered with failure_policy "Ignore"     *)
(* (src/unnamed/part_019), so a CREATE while the Endpoints object is gone *)
(* is admitted and queued nowhere.  Watch mode: the leader's              *)
(* startPodWatcher lists every unscheduled pod once (the informer's       *)
(* initial list goes through AddFunc) and then gets an Add event per new  *)
(* pod; it has no resync period and no UpdateFunc.                        *)
(*                                                                         *)
(* A pod's copy in a podQueue is one round: ProcessOne relays, scores and *)
(* permits it on every peer it reaches, and the round either binds the    *)
(* pod or ends with no permit anywhere (podScheduleFailure returns on a   *)
(* DistPermit denial, and the engine's own queue is bypassed by NextPod). *)
(* Dispatch, Relay and Aggregation model the inside of a round.            *)
(***************************************************************************)
EXTENDS Integers

CONSTANTS
    Peers, None, MaxTerms, CanFail,  \* as in WebhookEndpoints
    Pods,       \* pods created with schedulerName dist-scheduler
    WatchPods   \* the --watch-pods flag

VARIABLES
    holder, terms, leading, ep, mgr, clr,  \* WebhookEndpoints
    st,      \* per pod at the API server: "absent", "unscheduled" or "bound"
    rounds,  \* per pod: its copies in a podQueue or in ProcessOne
    listed   \* leaders whose pod informer has delivered its initial list

leaseVars == <<holder, terms, leading, ep, mgr, clr>>
podVars == <<st, rounds, listed>>
vars == <<holder, terms, leading, ep, mgr, clr, st, rounds, listed>>

WE == INSTANCE WebhookEndpoints

TypeOK ==
    /\ WE!TypeOK
    /\ st \in [Pods -> {"absent", "unscheduled", "bound"}]
    /\ rounds \in [Pods -> 0..MaxTerms + 1]
    /\ listed \subseteq leading

Init ==
    /\ WE!Init
    /\ st = [x \in Pods |-> "absent"]
    /\ rounds = [x \in Pods |-> 0]
    /\ listed = {}

-----------------------------------------------------------------------------
\* The lease and Endpoints steps; losing the lease cancels lctx, which also
\* stops the leader's pod informer.
LeaseStep(p) ==
    \/ /\ WE!Acquire(p) \/ WE!Create(p) \/ WE!Update(p) \/ WE!Delete(p)
       /\ UNCHANGED podVars
    \/ /\ WE!LoseLease(p)
       /\ listed' = listed \ {p}
       /\ UNCHANGED <<st, rounds>>

\* Whether a CREATE now reaches a scheduler's podQueue: the webhook call
\* needs an Endpoints object; the Add event needs a running informer.
Delivered == IF WatchPods THEN listed # {} ELSE ep # None

\* A client creates pod x.
CreatePod(x) ==
    /\ st[x] = "absent"
    /\ st' = [st EXCEPT ![x] = "unscheduled"]
    /\ rounds' = [rounds EXCEPT ![x] = @ + (IF Delivered THEN 1 ELSE 0)]
    /\ UNCHANGED <<listed, leaseVars>>

\* The new leader's pod informer lists the unscheduled pods (field selector
\* spec.nodeName=) and AddFunc queues each, also those still in a round.
List(p) ==
    /\ WatchPods /\ p \in leading /\ p \notin listed
    /\ listed' = listed \cup {p}
    /\ rounds' = [x \in Pods |-> IF st[x] = "unscheduled" THEN rounds[x] + 1
                                 ELSE rounds[x]]
    /\ UNCHANGED <<st, leaseVars>>

\* A round ends with a permit and the pod is bound (a second round of a
\* bound pod fails its Bind, which changes nothing here).
RoundBinds(x) ==
    /\ rounds[x] > 0
    /\ rounds' = [rounds EXCEPT ![x] = @ - 1]
    /\ st' = [st EXCEPT ![x] = "bound"]
    /\ UNCHANGED <<listed, leaseVars>>

\* A round ends with no permit: podScheduleFailure returns without
\* queueing the pod again.
RoundFails(x) ==
    /\ rounds[x] > 0
    /\ rounds' = [rounds EXCEPT ![x] = @ - 1]
    /\ UNCHANGED <<st, listed, leaseVars>>

Next ==
    \/ \E p \in Peers : LeaseStep(p) \/ List(p)
    \/ \E x \in Pods : CreatePod(x) \/ RoundBinds(x) \/ RoundFails(x)

\* The lease's fairness as in WebhookEndpoints; an informer delivers its
\* list; a round ends.  Spec S2 takes the faults that fail a round
\* (a CollectScore to an unreachable aggregator) to be transient: a pod
\* that is queued again and again is eventually bound, hence the strong
\* fairness of RoundBinds.  Pod creation and lease loss are not forced.
Fairness ==
    /\ WE!Fairness
    /\ \A p \in Peers : WF_vars(List(p))
    /\ \A x \in Pods : WF_vars(RoundBinds(x) \/ RoundFails(x))
                       /\ SF_vars(RoundBinds(x))

Spec == Init /\ [][Next]_vars /\ Fairness

-----------------------------------------------------------------------------
\* Spec S2: a pod whose round is denied (its CollectScore fails) is
\* re-queued and eventually processed once the fault is gone, so a pod
\* that reached a podQueue is eventually bound.  podScheduleFailure never
\* re-queues, the webhook calls once per CREATE and the pod informer has no
\* resync, so one failed round leaves the pod unscheduled.
QueuedPodBound ==
    \A x \in Pods : rounds[x] > 0 ~> st[x] = "bound"

=============================================================================
