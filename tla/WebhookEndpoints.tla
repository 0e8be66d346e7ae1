-------------------------- MODULE WebhookEndpoints --------------------------
(***************************************************************************)
(* The webhook Endpoints object kept by the leader (src/unnamed/part_002:  *)
(* StartLeaderActivities, manageWebhookEndpoints, clearWebhookEndpoints).  *)
(*                                                                         *)
(* Every leader-eligible peer runs elector.Run in a loop.  On acquiring    *)
(* the lease, client-go starts OnStartedLeading in a goroutine, which ends *)
(* with manageWebhookEndpoints: Create "dist-scheduler-webhook" with the   *)
(* peer's IP, and on AlreadyExists an Update; any other error is logged    *)
(* and the function returns.  It runs once per term.  When renewal fails,  *)
(* Run calls OnStoppedLeading, which Deletes the object by name, with      *)
(* context.Background() and no precondition.                               *)
(*                                                                         *)
(* The lease times (renew deadline 10 s < lease duration 15 s) make the    *)
(* old holder stop leading before another peer can acquire: here the lease *)
(* is free in between.  The API requests are in flight between their issue *)
(* and their effect at the API server; the requests of manageWebhook-      *)
(* Endpoints carry the term's context and fail once it is cancelled.       *)
(***************************************************************************)
EXTENDS Integers

CONSTANTS
    Peers,     \* leader-eligible peers
    None,      \* no lease holder / no Endpoints object
    MaxTerms,  \* bound on lease acquisitions
    CanFail    \* whether a request may fail with another API error

ASSUME None \notin Peers /\ MaxTerms \in Nat /\ CanFail \in BOOLEAN

VARIABLES
    holder,   \* the lease holder, None while the lease is free
    terms,    \* acquisitions so far
    leading,  \* peers between OnStartedLeading and OnStoppedLeading
    ep,       \* the Endpoints object at the API server: its peer, or None
    mgr,      \* per peer: manageWebhookEndpoints' pending request
    clr       \* per peer: OnStoppedLeading's Delete is in flight

vars == <<holder, terms, leading, ep, mgr, clr>>

\* "idle" no call; "create"/"update" that request is in flight.
MgrPCs == {"idle", "create", "update"}

TypeOK ==
    /\ holder \in Peers \cup {None} /\ terms \in 0..MaxTerms
    /\ leading \in SUBSET Peers
    /\ ep \in Peers \cup {None}
    /\ mgr \in [Peers -> MgrPCs]
    /\ clr \in [Peers -> BOOLEAN]

Init ==
    /\ holder = None
    /\ terms = 0
    /\ leading = {}
    /\ ep = None
    /\ mgr = [p \in Peers |-> "idle"]
    /\ clr = [p \in Peers |-> FALSE]

-----------------------------------------------------------------------------
\* p's elector acquires the free lease; OnStartedLeading starts the node
\* labeler and the pod watcher and issues the Create.  Run is re-entered
\* only after OnStoppedLeading's Delete has returned; the previous term's
\* Create or Update is taken to have returned too.
Acquire(p) ==
    /\ holder = None /\ terms < MaxTerms
    /\ ~clr[p] /\ mgr[p] = "idle"
    /\ holder' = p /\ terms' = terms + 1
    /\ leading' = leading \cup {p}
    /\ mgr' = [mgr EXCEPT ![p] = "create"]
    /\ UNCHANGED <<ep, clr>>

\* Renewal fails: Run returns, lctx is cancelled and OnStoppedLeading
\* issues the Delete; the lease becomes free.
LoseLease(p) ==
    /\ holder = p
    /\ holder' = None
    /\ leading' = leading \ {p}
    /\ clr' = [clr EXCEPT ![p] = TRUE]
    /\ UNCHANGED <<terms, ep, mgr>>

\* The Create reaches the API server.  With lctx cancelled, or another
\* error, it fails and is logged; on AlreadyExists the Update follows;
\* otherwise the object names p.
Create(p) ==
    /\ mgr[p] = "create"
    /\ \/ /\ p \notin leading \/ CanFail
          /\ mgr' = [mgr EXCEPT ![p] = "idle"] /\ UNCHANGED ep
       \/ /\ p \in leading /\ ep = None
          /\ ep' = p /\ mgr' = [mgr EXCEPT ![p] = "idle"]
       \/ /\ p \in leading /\ ep # None
          /\ mgr' = [mgr EXCEPT ![p] = "update"] /\ UNCHANGED ep
    /\ UNCHANGED <<holder, terms, leading, clr>>

\* The Update reaches the API server: NotFound once the object is gone,
\* or a cancelled lctx, is logged and the function returns.
Update(p) ==
    /\ mgr[p] = "update"
    /\ \/ ep' = IF p \in leading /\ ep # None THEN p ELSE ep
       \/ CanFail /\ UNCHANGED ep
    /\ mgr' = [mgr EXCEPT ![p] = "idle"]
    /\ UNCHANGED <<holder, terms, leading, clr>>

\* OnStoppedLeading's Delete reaches the API server: the object goes,
\* whoever it names (NotFound if it is already gone).  An error is logged.
Delete(p) ==
    /\ clr[p]
    /\ \/ ep' = None
       \/ CanFail /\ UNCHANGED ep
    /\ clr' = [clr EXCEPT ![p] = FALSE]
    /\ UNCHANGED <<holder, terms, leading, mgr>>

Next ==
    \E p \in Peers :
        Acquire(p) \/ LoseLease(p) \/ Create(p) \/ Update(p) \/ Delete(p)

\* API requests complete; a free lease is eventually taken while terms
\* remain.  Losing the lease is a fault and is not forced.
Fairness ==
    /\ \A p \in Peers : WF_vars(Create(p)) /\ WF_vars(Update(p)) /\ WF_vars(Delete(p))
    /\ WF_vars(\E p \in Peers : Acquire(p))

Spec == Init /\ [][Next]_vars /\ Fairness

-----------------------------------------------------------------------------
\* A peer that holds the lease eventually has the webhook Endpoints object
\* name it (or loses the lease): the admission webhook, which feeds
\* podQueue, must reach the leader.  Breaks when the previous holder's
\* OnStoppedLeading Delete lands after the new holder's Create or Update,
\* which manageWebhookEndpoints never repeats within a term.
WebhookFollowsLeader ==
    \A p \in Peers : holder = p ~> (ep = p \/ holder # p)

=============================================================================
