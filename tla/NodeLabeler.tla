---------------------------- MODULE NodeLabeler ----------------------------
(***************************************************************************)
(* The leader's node labeler (startNodeLabeler, src/unnamed/part_002).     *)
(*                                                                         *)
(* Two informer listeners call stateChanged: the handler it adds to the    *)
(* SchedulerSet (a listener of the EndpointSlice informer, separate from   *)
(* the one that stores the slice in the cache) and the node informer's     *)
(* Add/Delete handler.  stateChanged sets dirty and, when the last update  *)
(* is more than 30 s old, sends on the unbuffered dirtyChan.  The labeler  *)
(* goroutine selects on ctx.Done, dirtyChan and a 30 s ticker; on either   *)
(* of the last two it runs updateNodeLabels if dirty.Swap(false).  The     *)
(* update reads the members and the node store, sends one patch goroutine  *)
(* per moved node and waits for all of them.                               *)
(***************************************************************************)
EXTENDS LabelAssign

CONSTANTS
    Nodes,            \* node names
    Peers,            \* pod names that may be in the dist-scheduler slice
    Absent,           \* no such node in the store
    MaxNodeChanges,   \* nodes added or deleted at the API server
    MaxMemberChanges, \* peers joining or leaving the slice
    Joiners,          \* the peers that may join or leave
    InitMembers,      \* the slices the labeler may start with
    CanFail,          \* a patch may fail (API error) while leading
    CanLoseLead       \* the lease may be lost

Listeners == {"members", "nodes"}

VARIABLES
    apiMembers,  \* members of the EndpointSlice at the API server
    members,     \* the SchedulerSet's endpointSliceCache
    cacheQ,      \* slices queued for the cache handler's listener
    apiNodes,    \* nodes at the API server
    label,       \* their SchedulerGroupLabelKey label
    store,       \* the node informer's store: label, or Absent
    calls,       \* per listener: stateChanged calls not yet finished
    lpc,         \* per listener: "idle", or "send" blocked on dirtyChan
    dirty,       \* the labeler's dirty flag
    elapsed,     \* time.Since(lastUpdateTime) > minInterval
    lab,         \* the labeler goroutine: "start", "select", "patch", "stopped"
    patches,     \* node -> group of the patch goroutines still running
    lead,        \* lctx not yet cancelled
    nodeChanges, memberChanges

vars == <<apiMembers, members, cacheQ, apiNodes, label, store, calls, lpc,
          dirty, elapsed, lab, patches, lead, nodeChanges, memberChanges>>

Labels == Peers \cup {NoLabel}

TypeOK ==
    /\ apiMembers \in SUBSET Peers /\ members \in SUBSET Peers
    /\ cacheQ \in Seq(SUBSET Peers)
    /\ apiNodes \in SUBSET Nodes /\ label \in [Nodes -> Labels]
    /\ store \in [Nodes -> Labels \cup {Absent}]
    /\ calls \in [Listeners -> Nat] /\ lpc \in [Listeners -> {"idle", "send"}]
    /\ dirty \in BOOLEAN /\ elapsed \in BOOLEAN /\ lead \in BOOLEAN
    /\ lab \in {"start", "select", "patch", "stopped"}
    /\ \E D \in SUBSET Nodes : patches \in [D -> Peers]

StoreNodes == {n \in Nodes : store[n] # Absent}

\* The orders in which a Go map can list the elements of S.
Orders(S) == {o \in [1..Cardinality(S) -> S] : ToSet(o) = S}

-----------------------------------------------------------------------------
\* updateNodeLabels up to the patch goroutines: GetMembers, the store's
\* List() in some order, the two passes; the patches of the moved nodes
\* start.  With nothing to patch it returns and lastUpdateTime = now.
Update ==
    \E ns \in Orders(StoreNodes), gorder \in Orders(Schedulers(members)) :
        LET r == UpdateNodeLabels(members, ns, store, gorder)
            P == Patches(r.assign, store)
        IN  /\ patches' = [n \in P |-> r.assign[n]]
            /\ lab' = IF P = {} THEN "select" ELSE "patch"
            /\ elapsed' = (elapsed /\ P # {})

\* The first updateNodeLabels after WaitForCacheSync: dirty stays set.
Start ==
    /\ lab = "start"
    /\ Update
    /\ UNCHANGED <<apiMembers, members, cacheQ, apiNodes, label, store, calls,
                   lpc, dirty, lead, nodeChanges, memberChanges>>

\* case <-ticker.C: if dirty.Swap(false) { updateNodeLabels }.  A tick
\* with dirty clear changes nothing.
Tick ==
    /\ lab = "select" /\ dirty
    /\ dirty' = FALSE
    /\ Update
    /\ UNCHANGED <<apiMembers, members, cacheQ, apiNodes, label, store, calls,
                   lpc, lead, nodeChanges, memberChanges>>

\* Mutant: the select has no dirtyChan case.
ReceiveNever(l) == FALSE

\* case <-dirtyChan: the listener l's send completes; then as on a tick.
Receive(l) ==
    /\ lab = "select" /\ lpc[l] = "send"
    /\ lpc' = [lpc EXCEPT ![l] = "idle"]
    /\ calls' = [calls EXCEPT ![l] = @ - 1]
    /\ dirty' = FALSE
    /\ IF dirty THEN Update ELSE UNCHANGED <<patches, lab, elapsed>>
    /\ UNCHANGED <<apiMembers, members, cacheQ, apiNodes, label, store, lead,
                   nodeChanges, memberChanges>>

\* case <-ctx.Done(): the goroutine returns.
Exit ==
    /\ lab = "select" /\ ~lead
    /\ lab' = "stopped"
    /\ UNCHANGED <<apiMembers, members, cacheQ, apiNodes, label, store, calls,
                   lpc, dirty, elapsed, patches, lead, nodeChanges, memberChanges>>

\* A patch goroutine finishes: the merge patch sets the label, or fails
\* (API error, node deleted, ctx cancelled).  After the last one the update
\* returns and lastUpdateTime = now.
PatchDone(n, ok) ==
    /\ lab = "patch" /\ n \in DOMAIN patches
    /\ ok => lead /\ n \in apiNodes
    /\ ~ok => CanFail \/ ~lead \/ n \notin apiNodes
    /\ label' = IF ok THEN [label EXCEPT ![n] = patches[n]] ELSE label
    /\ patches' = [m \in DOMAIN patches \ {n} |-> patches[m]]
    /\ lab' = IF DOMAIN patches = {n} THEN "select" ELSE "patch"
    /\ elapsed' = (elapsed /\ DOMAIN patches # {n})
    /\ UNCHANGED <<apiMembers, members, cacheQ, apiNodes, store, calls, lpc,
                   dirty, lead, nodeChanges, memberChanges>>

\* stateChanged in listener l: dirty.Store(true), then the send on the
\* unbuffered dirtyChan when the last update is more than 30 s old.
StateChanged(l) ==
    /\ lpc[l] = "idle" /\ calls[l] > 0
    /\ dirty' = TRUE
    /\ IF elapsed THEN /\ lpc' = [lpc EXCEPT ![l] = "send"] /\ UNCHANGED calls
                  ELSE /\ calls' = [calls EXCEPT ![l] = @ - 1] /\ UNCHANGED lpc
    /\ UNCHANGED <<apiMembers, members, cacheQ, apiNodes, label, store,
                   elapsed, lab, patches, lead, nodeChanges, memberChanges>>

\* 30 s pass since lastUpdateTime.
TimePasses ==
    /\ ~elapsed /\ lab # "start"
    /\ elapsed' = TRUE
    /\ UNCHANGED <<apiMembers, members, cacheQ, apiNodes, label, store, calls,
                   lpc, dirty, lab, patches, lead, nodeChanges, memberChanges>>

\* Mutant: the node informer has no Add/Delete handler.
WatchNoHandler(n) ==
    LET now == IF n \in apiNodes THEN label[n] ELSE Absent IN
    /\ lead /\ store[n] # now
    /\ store' = [store EXCEPT ![n] = now]
    /\ UNCHANGED <<apiMembers, members, cacheQ, apiNodes, label, calls, lpc, dirty,
                   elapsed, lab, patches, lead, nodeChanges, memberChanges>>

\* The node informer (stopped with lctx) applies the API's state of node n
\* to its store; an added or deleted node goes to the Add/Delete handler.
Watch(n) ==
    LET now == IF n \in apiNodes THEN label[n] ELSE Absent IN
    /\ lead /\ store[n] # now
    /\ store' = [store EXCEPT ![n] = now]
    /\ calls' = IF (store[n] = Absent) # (now = Absent)
                THEN [calls EXCEPT !["nodes"] = @ + 1] ELSE calls
    /\ UNCHANGED <<apiMembers, members, cacheQ, apiNodes, label, lpc, dirty,
                   elapsed, lab, patches, lead, nodeChanges, memberChanges>>

\* RunEndpointSliceWatcher's handler stores the slice in the cache.
CacheHandler ==
    /\ cacheQ # <<>>
    /\ members' = Head(cacheQ)
    /\ cacheQ' = Tail(cacheQ)
    /\ UNCHANGED <<apiMembers, apiNodes, label, store, calls, lpc, dirty,
                   elapsed, lab, patches, lead, nodeChanges, memberChanges>>

\* A node is created (without the label) or deleted.  The watch delivers
\* every create and delete in order; the model lets n change again once
\* the store has its previous create or delete.
NodeChange(n) ==
    /\ nodeChanges < MaxNodeChanges
    /\ (store[n] = Absent) = (n \notin apiNodes)
    /\ apiNodes' = IF n \in apiNodes THEN apiNodes \ {n} ELSE apiNodes \cup {n}
    /\ label' = [label EXCEPT ![n] = NoLabel]
    /\ nodeChanges' = nodeChanges + 1
    /\ UNCHANGED <<apiMembers, members, cacheQ, store, calls, lpc, dirty,
                   elapsed, lab, patches, lead, memberChanges>>

\* A peer joins or leaves the slice: both listeners get the change.
MemberChange(p) ==
    /\ memberChanges < MaxMemberChanges /\ p \in Joiners
    /\ apiMembers' = IF p \in apiMembers THEN apiMembers \ {p} ELSE apiMembers \cup {p}
    /\ cacheQ' = Append(cacheQ, apiMembers')
    /\ calls' = [calls EXCEPT !["members"] = @ + 1]
    /\ memberChanges' = memberChanges + 1
    /\ UNCHANGED <<members, apiNodes, label, store, lpc, dirty, elapsed, lab,
                   patches, lead, nodeChanges>>

\* The lease is lost: lctx is cancelled.
LoseLead ==
    /\ CanLoseLead /\ lead
    /\ lead' = FALSE
    /\ UNCHANGED <<apiMembers, members, cacheQ, apiNodes, label, store, calls,
                   lpc, dirty, elapsed, lab, patches, nodeChanges, memberChanges>>

-----------------------------------------------------------------------------
\* OnStartedLeading runs startNodeLabeler once the node store has synced;
\* the slice cache is in sync with the API server.
Init ==
    /\ apiMembers \in InitMembers /\ members = apiMembers /\ cacheQ = <<>>
    /\ apiNodes \in SUBSET Nodes
    /\ label \in {f \in [Nodes -> Labels] : \A n \in Nodes \ apiNodes : f[n] = NoLabel}
    /\ store = [n \in Nodes |-> IF n \in apiNodes THEN label[n] ELSE Absent]
    /\ calls = [l \in Listeners |-> 0] /\ lpc = [l \in Listeners |-> "idle"]
    /\ dirty = TRUE /\ elapsed = FALSE
    /\ lab = "start" /\ patches = <<>> /\ lead = TRUE
    /\ nodeChanges = 0 /\ memberChanges = 0

Next ==
    \/ Start \/ Tick \/ Exit \/ TimePasses \/ CacheHandler \/ LoseLead
    \/ \E l \in Listeners : Receive(l) \/ StateChanged(l)
    \/ \E n \in Nodes : Watch(n) \/ NodeChange(n) \/ \E ok \in BOOLEAN : PatchDone(n, ok)
    \/ \E p \in Peers : MemberChange(p)

\* Goroutines that can run eventually do, the ticker and the clock keep
\* going, a started patch finishes, the informers deliver.
Fairness ==
    /\ WF_vars(Start) /\ WF_vars(Tick) /\ WF_vars(Exit) /\ WF_vars(TimePasses)
    /\ WF_vars(CacheHandler)
    /\ \A l \in Listeners : WF_vars(Receive(l)) /\ WF_vars(StateChanged(l))
    /\ \A n \in Nodes : WF_vars(Watch(n)) /\ WF_vars(\E ok \in BOOLEAN : PatchDone(n, ok))

Spec == Init /\ [][Next]_vars /\ Fairness

-----------------------------------------------------------------------------
GroupSize(g) == Cardinality({n \in apiNodes : label[n] = g})

\* The labels at the API server satisfy spec 4.3 for the current nodes and
\* schedulers: every node is in a scheduler's group, none above desired.
Partitioned ==
    LET scheds == Schedulers(apiMembers) IN
    scheds # {} =>
        /\ \A n \in apiNodes : label[n] \in scheds
        /\ \A g \in scheds : GroupSize(g) <= Desired(Cardinality(apiNodes), Cardinality(scheds))

\* Spec 4.3 / S4: while the peer leads, the node labels converge to a
\* partition of the current nodes over the current schedulers once nodes
\* and members stop changing, whatever the order of the informer
\* listeners, the node store's lag and the dirty flag / ticker handshake.
LabelsConverge == <>[](lead => Partitioned)

\* A node created at the API server while the peer leads and has
\* schedulers is eventually labelled with one of them (or deleted): the
\* Add handler's stateChanged leads to an update that sees the node and
\* patches it.  An unlabelled node is filtered out by every peer.
NewNodeLabelled ==
    \A n \in Nodes :
        (n \in apiNodes /\ label[n] = NoLabel /\ lead /\ Schedulers(apiMembers) # {})
            ~> (n \notin apiNodes \/ label[n] \in Schedulers(apiMembers) \/ ~lead)

\* A stateChanged blocked on dirtyChan eventually completes while the
\* labeler goroutine runs: the goroutine comes back to its select after
\* every update, so the listener that called it keeps delivering.  A send
\* after the goroutine has returned is excused here; NoSendAfterStop is
\* about that case.
ListenerNotBlocked ==
    \A l \in Listeners : lpc[l] = "send" ~> (lpc[l] = "idle" \/ lab = "stopped")

\* Once the labeler goroutine has returned (lctx cancelled), no informer
\* listener is blocked in stateChanged's send on dirtyChan, which nobody
\* receives any more.
NoSendAfterStop ==
    lab = "stopped" => \A l \in Listeners : lpc[l] = "idle"

=============================================================================
