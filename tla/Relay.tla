------------------------------- MODULE Relay -------------------------------
(***************************************************************************)
(* The relay transport of one peer (cmd/dist-scheduler/relay.go and the   *)
(* NewPod server of scheduler_metrics.go).                                 *)
(*                                                                         *)
(* Two kinds of goroutine call ProcessOne on the peer and so RelayPod:     *)
(*  - the numConcurrentSchedulers workers of DistScheduler.Run, worker i   *)
(*    passing schedulerIndex i, for pods of podQueue (filled by the        *)
(*    webhook, or the pod watcher, while the peer leads);                  *)
(*  - the server goroutine of every NewPod stream a parent opened to this  *)
(*    peer, which runs ProcessOne inside UnmarshalPodRaw with an index     *)
(*    taken from the concurrentCounter cc, one request at a time.          *)
(* sendPodToEndpoint keys its client stream cache by member/clientIndex,   *)
(* numbers each request with the stream's atomic requestIdCounter, stores  *)
(* the latch in pendingRequests and calls SendMsg; the stream's            *)
(* receiverLoop maps each echoed RequestId back to its latch and counts it *)
(* down.  A sub-member answers the requests of a stream in order.          *)
(*                                                                         *)
(* What ProcessOne does between RelayPod and its return (the engine and    *)
(* the latch wait with its 1 s timeout) is Dispatch's; here it is one      *)
(* step that may come before or after the answers.                         *)
(***************************************************************************)
EXTENDS Integers, Sequences, FiniteSets, SequencesExt

CONSTANTS
    NumWorkers,        \* numConcurrentSchedulers
    Streams,           \* NewPod streams parents hold open to this peer
    LeaderSub,         \* the sub-member while this peer leads
    ChildSub,          \* the sub-member while it is a child of another
    InitLeader,        \* whether the peer leads at the start
    MaxPods,           \* pods that reach the peer, from either side
    QueueCap,          \* PodQueueSize
    MaxStreams,        \* client streams sendPodToEndpoint may create
    MaxLeaderChanges,  \* OnNewLeader events
    CanFail            \* whether streams may break

Workers == 0..NumWorkers-1
Callers == Workers \cup Streams
Members == {LeaderSub, ChildSub}
Pods == 1..MaxPods
StreamIds == 1..MaxStreams
NoStream == 0

ASSUME Workers \cap Streams = {} /\ InitLeader \subseteq BOOLEAN

VARIABLES
    leader,     \* this peer holds the lease
    changes,    \* leader changes so far
    podQueue,   \* pods in the buffered podQueue channel
    npods,      \* pods that have reached the peer so far
    cl,         \* per caller goroutine: pc, index, pod, cache key, stream
    ccTotal,    \* cc.total
    ccFree,     \* cc.free, kept in descending order
    cache,      \* clientCache: key <<member, clientIndex>> -> stream
    nstreams,   \* client streams created so far
    st,         \* per client stream: requestIdCounter, pendingRequests,
                \* requests on the wire, and whether it is broken
    dones,      \* per pod: Done() calls on its relay latch
    answered,   \* pods whose request the sub-member has answered
    failed      \* pods whose send failed

vars == <<leader, changes, podQueue, npods, cl, ccTotal, ccFree, cache,
          nstreams, st, dones, answered, failed>>

Idxs == 0..(NumWorkers + Cardinality(Streams))
Keys == Members \X Idxs
PCs == {"idle", "lookup", "send", "sending", "wait"}

TypeOK ==
    /\ leader \in BOOLEAN /\ changes \in 0..MaxLeaderChanges
    /\ podQueue \in Seq(Pods) /\ npods \in 0..MaxPods
    /\ cl \in [Callers -> [pc : PCs, idx : Idxs, pod : Pods \cup {0},
                           key : Keys \cup {<<>>}, st : StreamIds \cup {NoStream},
                           rid : Nat]]
    /\ ccTotal \in Idxs /\ ccFree \in Seq(Idxs)
    /\ cache \in [Keys -> StreamIds \cup {NoStream}]
    /\ nstreams \in 0..MaxStreams
    /\ st \in [StreamIds -> [ctr : Nat, pending : SUBSET (Nat \X Pods),
                             wire : Seq(Nat \X Pods), broken : BOOLEAN]]
    /\ dones \in [Pods -> Nat]
    /\ answered \subseteq Pods /\ failed \subseteq Pods

Idle == [pc |-> "idle", idx |-> 0, pod |-> 0, key |-> <<>>, st |-> NoStream,
         rid |-> 0]

-----------------------------------------------------------------------------
(* concurrentCounter *)

\* Mutant: Get returns the last free index but leaves it on the free list.
GetNoPop ==
    IF ccFree # <<>>
    THEN [idx |-> ccFree[Len(ccFree)], free |-> ccFree, total |-> ccTotal]
    ELSE [idx |-> ccTotal, free |-> ccFree, total |-> ccTotal + 1]

\* Get: pop the smallest free index, else hand out a new one.
Get ==
    IF ccFree # <<>>
    THEN [idx |-> ccFree[Len(ccFree)], free |-> Front(ccFree), total |-> ccTotal]
    ELSE [idx |-> ccTotal, free |-> ccFree, total |-> ccTotal + 1]

\* Free: insert at the position BinarySearchFunc finds in descending order.
Free(idx) ==
    InsertAt(ccFree, Cardinality({i \in 1..Len(ccFree) : ccFree[i] > idx}) + 1, idx)

-----------------------------------------------------------------------------
(* The sources of pods. *)

\* The webhook (or the pod watcher's AddFunc) queues a pod while the peer
\* leads; `podQueue <- pod` blocks when the channel is full.
Enqueue ==
    /\ leader /\ npods < MaxPods /\ Len(podQueue) < QueueCap
    /\ podQueue' = Append(podQueue, npods + 1)
    /\ npods' = npods + 1
    /\ UNCHANGED <<leader, changes, cl, ccTotal, ccFree, cache, nstreams, st,
                   dones, answered, failed>>

\* Worker w of DistScheduler.Run takes a pod: ProcessOne(ctx, w, ...).
WorkerTake(w) ==
    /\ cl[w].pc = "idle" /\ podQueue # <<>>
    /\ cl' = [cl EXCEPT ![w] = [Idle EXCEPT !.pc = "lookup", !.idx = w,
                                            !.pod = Head(podQueue)]]
    /\ podQueue' = Tail(podQueue)
    /\ UNCHANGED <<leader, changes, npods, ccTotal, ccFree, cache, nstreams, st,
                   dones, answered, failed>>

\* The NewPod stream s of a parent delivers a pod: UnmarshalPodRaw takes
\* idx := cc.Get() and calls ProcessOne(ctx, idx, ...).  Only a peer that
\* does not lead is anybody's sub-member.
ServerRecv(s) ==
    LET g == Get IN
    /\ cl[s].pc = "idle" /\ ~leader /\ npods < MaxPods
    /\ cl' = [cl EXCEPT ![s] = [Idle EXCEPT !.pc = "lookup", !.idx = g.idx,
                                            !.pod = npods + 1]]
    /\ ccTotal' = g.total /\ ccFree' = g.free
    /\ npods' = npods + 1
    /\ UNCHANGED <<leader, changes, podQueue, cache, nstreams, st, dones,
                   answered, failed>>

-----------------------------------------------------------------------------
(* RelayPod and sendPodToEndpoint, for the one sub-member of the peer. *)

\* Under clientCacheLock: look the stream up by member/clientIndex, or
\* create it and start its receiverLoop.
Lookup(c) ==
    LET key == <<IF leader THEN LeaderSub ELSE ChildSub, cl[c].idx>> IN
    /\ cl[c].pc = "lookup"
    /\ \/ /\ cache[key] # NoStream
          /\ cl' = [cl EXCEPT ![c].pc = "send", ![c].key = key, ![c].st = cache[key]]
          /\ UNCHANGED <<cache, nstreams>>
       \/ /\ cache[key] = NoStream /\ nstreams < MaxStreams
          /\ nstreams' = nstreams + 1
          /\ cache' = [cache EXCEPT ![key] = nstreams + 1]
          /\ cl' = [cl EXCEPT ![c].pc = "send", ![c].key = key, ![c].st = nstreams + 1]
    /\ UNCHANGED <<leader, changes, podQueue, npods, ccTotal, ccFree, st, dones,
                   answered, failed>>

\* Mutant: the request id is read without the atomic increment.
NextRequestIdStale(k) == st[k].ctr

\* requestId := atomic.AddUint32(&cs.requestIdCounter, 1)
NextRequestId(k) == st[k].ctr + 1

\* Take a request id and store the pending request (sync.Map.Store
\* replaces an entry with the same id), then enter SendMsg.
SendBegin(c) ==
    LET k == cl[c].st
        rid == NextRequestId(k)
    IN
    /\ cl[c].pc = "send"
    /\ st' = [st EXCEPT ![k].ctr = rid,
                        ![k].pending = {e \in @ : e[1] # rid} \cup {<<rid, cl[c].pod>>}]
    /\ cl' = [cl EXCEPT ![c].pc = "sending", ![c].rid = rid]
    /\ UNCHANGED <<leader, changes, podQueue, npods, ccTotal, ccFree, cache,
                   nstreams, dones, answered, failed>>

\* SendMsg returns.  On a broken stream it fails: the cache entry of the
\* key is deleted, whatever stream it now holds, the pending entry stays,
\* and RelayPod counts the latch down itself.
SendEnd(c) ==
    LET k == cl[c].st
        q == cl[c].pod
    IN
    /\ cl[c].pc = "sending"
    /\ cl' = [cl EXCEPT ![c].pc = "wait"]
    /\ \/ /\ ~st[k].broken
          /\ st' = [st EXCEPT ![k].wire = Append(@, <<cl[c].rid, q>>)]
          /\ UNCHANGED <<cache, dones, failed>>
       \/ /\ st[k].broken
          /\ cache' = [cache EXCEPT ![cl[c].key] = NoStream]
          /\ dones' = [dones EXCEPT ![q] = @ + 1]
          /\ failed' = failed \cup {q}
          /\ UNCHANGED st
    /\ UNCHANGED <<leader, changes, podQueue, npods, ccTotal, ccFree, nstreams,
                   answered>>

\* ProcessOne returns (its latch released or timed out).  A stream's
\* server goroutine then frees its index (defer cc.Free) and answers its
\* parent; a worker goes back to podQueue.
Finish(c) ==
    /\ cl[c].pc = "wait"
    /\ cl' = [cl EXCEPT ![c] = Idle]
    /\ IF c \in Streams
       THEN /\ ccFree' = Free(cl[c].idx)
       ELSE UNCHANGED ccFree
    /\ UNCHANGED <<leader, changes, podQueue, npods, ccTotal, cache, nstreams,
                   st, dones, answered, failed>>

\* receiverLoop of stream k receives the sub-member's answer to the oldest
\* request on the wire: LoadAndDelete(RequestId) and pr.wg.Done(); an
\* unknown id is skipped.
Receive(k) ==
    LET m == Head(st[k].wire)
        hit == {e \in st[k].pending : e[1] = m[1]}
    IN
    /\ k <= nstreams /\ ~st[k].broken /\ st[k].wire # <<>>
    /\ st' = [st EXCEPT ![k].wire = Tail(@), ![k].pending = @ \ hit]
    /\ dones' = [q \in Pods |-> dones[q] + Cardinality({e \in hit : e[2] = q})]
    /\ answered' = answered \cup {m[2]}
    /\ UNCHANGED <<leader, changes, podQueue, npods, cl, ccTotal, ccFree, cache,
                   nstreams, failed>>

\* The stream breaks: Recv fails and receiverLoop returns; requests on
\* the wire are lost and later SendMsg calls fail.
Break(k) ==
    /\ CanFail /\ k <= nstreams /\ ~st[k].broken
    /\ st' = [st EXCEPT ![k].broken = TRUE, ![k].wire = <<>>]
    /\ UNCHANGED <<leader, changes, podQueue, npods, cl, ccTotal, ccFree, cache,
                   nstreams, dones, answered, failed>>

\* OnNewLeader: the lease moves to or from this peer.  Its workers keep
\* draining podQueue, and its streams stay open.
LeaderChange ==
    /\ changes < MaxLeaderChanges
    /\ leader' = ~leader /\ changes' = changes + 1
    /\ UNCHANGED <<podQueue, npods, cl, ccTotal, ccFree, cache, nstreams, st,
                   dones, answered, failed>>

-----------------------------------------------------------------------------
Init ==
    /\ leader \in InitLeader /\ changes = 0
    /\ podQueue = <<>> /\ npods = 0
    /\ cl = [c \in Callers |-> Idle]
    /\ ccTotal = 0 /\ ccFree = <<>>
    /\ cache = [key \in Keys |-> NoStream] /\ nstreams = 0
    /\ st = [k \in StreamIds |-> [ctr |-> 0, pending |-> {}, wire |-> <<>>,
                                  broken |-> FALSE]]
    /\ dones = [q \in Pods |-> 0]
    /\ answered = {} /\ failed = {}

Next ==
    \/ Enqueue \/ LeaderChange
    \/ \E w \in Workers : WorkerTake(w)
    \/ \E s \in Streams : ServerRecv(s)
    \/ \E c \in Callers : Lookup(c) \/ SendBegin(c) \/ SendEnd(c) \/ Finish(c)
    \/ \E k \in StreamIds : Receive(k) \/ Break(k)

Spec == Init /\ [][Next]_vars

-----------------------------------------------------------------------------
(* Properties. *)

\* gRPC forbids SendMsg on one stream from two goroutines at once.  The
\* clientIndex in the cache key is to give every concurrent ProcessOne a
\* stream of its own ("schedulerIndex cannot be the same for two separate
\* concurrent goroutines", scheduler.go).
SendMsgExclusive ==
    \A c1, c2 \in Callers :
        (c1 # c2 /\ cl[c1].pc = "sending" /\ cl[c2].pc = "sending")
            => cl[c1].st # cl[c2].st

\* concurrentCounter hands every UnmarshalPodRaw in progress its own index:
\* the indices in use and the free list are disjoint, together are
\* 0..total-1, and the free list stays in descending order however the
\* Get and Free calls of the streams interleave.
CounterSound ==
    LET busy == {cl[s].idx : s \in {x \in Streams : cl[x].pc # "idle"}} IN
    /\ Cardinality(busy) = Cardinality({x \in Streams : cl[x].pc # "idle"})
    /\ busy \cap ToSet(ccFree) = {}
    /\ busy \cup ToSet(ccFree) = 0..ccTotal-1
    /\ \A i \in 1..Len(ccFree)-1 : ccFree[i] > ccFree[i+1]

\* The receiver loop counts a pod's latch down only for that pod's own
\* answer, and every latch is counted down at most once per sub-member
\* (a second Done on a WaitGroup panics), though a caller whose wait
\* timed out sends its next pod on the same stream.
LatchSound ==
    \A q \in Pods :
        /\ dones[q] <= 1
        /\ dones[q] = 1 => q \in answered \cup failed

=============================================================================
