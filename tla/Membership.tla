----------------------------- MODULE Membership -----------------------------
(***************************************************************************)
(* Peer Self's SchedulerSet kept up to date by the EndpointSlice informer  *)
(* and the leader elector (pkg/schedulerset/endpointslices.go,             *)
(* src/unnamed/part_002 OnNewLeader).                                      *)
(*                                                                         *)
(* The API server's slice changes; the informer queues the change for each *)
(* of its two listeners, which run their handlers in their own goroutines: *)
(* the cache handler stores the new slice in the EndpointSliceCache, the   *)
(* dirty handler sets s.dirty.  GetSubMembers, called by ProcessOne for    *)
(* every pod, rebuilds subMembersCache when dirty is set.                  *)
(***************************************************************************)
EXTENDS SchedulerSet

CONSTANTS MaxChanges   \* slice and lease changes the API server makes

VARIABLES
    slice,      \* members of the dist-scheduler EndpointSlice at the API server
    lease,      \* holder of the leader lease
    changes,    \* changes made so far
    cacheQ,     \* slices queued for the cache handler's listener
    dirtyQ,     \* notifications queued for the dirty handler's listener
    leaderQ,    \* OnNewLeader calls not yet run
    esCache,    \* members in s.endpointSliceCache
    dirty,      \* s.dirty
    subCache,   \* s.subMembersCache
    leader      \* s.leader

vars == <<slice, lease, changes, cacheQ, dirtyQ, leaderQ, esCache, dirty,
          subCache, leader>>

TypeOK ==
    /\ slice \in SUBSET Peers /\ esCache \in SUBSET Peers
    /\ lease \in Peers /\ leader \in Peers \cup {NoLeader}
    /\ changes \in 0..MaxChanges
    /\ cacheQ \in Seq(SUBSET Peers) /\ dirtyQ \in Nat /\ leaderQ \in Seq(Peers)
    /\ dirty \in BOOLEAN /\ subCache \in Seq(Peers)

\* NewSchedulerSet returns after WaitForCacheSync: the cache holds the
\* slice, dirty is set, the cache is nil and no leader is known; the
\* elector will report the current lease holder.
Init ==
    /\ slice \in SUBSET Peers /\ Self \in slice
    /\ lease \in Peers
    /\ changes = 0
    /\ cacheQ = <<>> /\ dirtyQ = 0 /\ leaderQ = <<lease>>
    /\ esCache = slice
    /\ dirty = TRUE /\ subCache = <<>> /\ leader = NoLeader

-----------------------------------------------------------------------------
\* A peer other than Self joins or leaves the slice; the generation changes,
\* so both UpdateFuncs pass the change on.
SliceChange(p) ==
    /\ changes < MaxChanges /\ p # Self
    /\ slice' = IF p \in slice THEN slice \ {p} ELSE slice \cup {p}
    /\ cacheQ' = Append(cacheQ, slice')
    /\ dirtyQ' = dirtyQ + 1
    /\ changes' = changes + 1
    /\ UNCHANGED <<lease, leaderQ, esCache, dirty, subCache, leader>>

\* The lease moves to another peer; the elector calls OnNewLeader.
LeaseChange(p) ==
    /\ changes < MaxChanges /\ p # lease
    /\ lease' = p
    /\ leaderQ' = Append(leaderQ, p)
    /\ changes' = changes + 1
    /\ UNCHANGED <<slice, cacheQ, dirtyQ, esCache, dirty, subCache, leader>>

\* RunEndpointSliceWatcher's handler: endpointSliceCache.Update(newEss).
CacheHandler ==
    /\ cacheQ # <<>>
    /\ esCache' = Head(cacheQ)
    /\ cacheQ' = Tail(cacheQ)
    /\ UNCHANGED <<slice, lease, changes, dirtyQ, leaderQ, dirty, subCache, leader>>

\* The AddUpdateHandler handler of NewSchedulerSet: ss.dirty.Store(true).
DirtyHandler ==
    /\ dirtyQ > 0
    /\ dirty' = TRUE
    /\ dirtyQ' = dirtyQ - 1
    /\ UNCHANGED <<slice, lease, changes, cacheQ, leaderQ, esCache, subCache, leader>>

\* OnNewLeader -> SetLeader: under cacheLock, s.leader = leader, dirty.
SetLeader ==
    /\ leaderQ # <<>>
    /\ leader' = Head(leaderQ)
    /\ dirty' = TRUE
    /\ leaderQ' = Tail(leaderQ)
    /\ UNCHANGED <<slice, lease, changes, cacheQ, dirtyQ, esCache, subCache>>

\* GetSubMembers with dirty set: under cacheLock clear dirty, then rebuild
\* the cache from endpointSliceCache.GetMembers().  With dirty clear it only
\* reads the cache.
GetSubMembers ==
    /\ dirty
    /\ dirty' = FALSE
    /\ subCache' = SubMembers(Self, esCache, leader)
    /\ UNCHANGED <<slice, lease, changes, cacheQ, dirtyQ, leaderQ, esCache, leader>>

Next ==
    \/ \E p \in Peers : SliceChange(p) \/ LeaseChange(p)
    \/ CacheHandler \/ DirtyHandler \/ SetLeader \/ GetSubMembers

\* Listener goroutines and the elector run; pods keep arriving, so
\* ProcessOne keeps calling GetSubMembers.
Spec == Init /\ [][Next]_vars
             /\ WF_vars(CacheHandler) /\ WF_vars(DirtyHandler)
             /\ WF_vars(SetLeader) /\ WF_vars(GetSubMembers)

-----------------------------------------------------------------------------
\* Spec 4.2: once the slice and the lease stop changing, Self's relay
\* targets settle on the sub-members of the current membership and leader
\* (the dirty flag makes the next reader rebuild the cache).  Broken if the
\* dirty flag can be consumed before the cache handler stores the slice.
TopologyConverges ==
    <>[](subCache = SubMembers(Self, slice, lease))

=============================================================================
