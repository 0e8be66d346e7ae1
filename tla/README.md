# TLA+ models of the distributed scheduler (dist-scheduler)

This directory holds TLA+ models of the Go code under `src/dist-scheduler` and
`src/unnamed/part_000..002`. TLC checks every model. Each module is written
from the code, and `PROJECT.json` maps each definition to the lines it
translates.

## The system

Every peer runs one `dist-scheduler` process. The peers learn about each other
from the EndpointSlices of the `dist-scheduler` service (**membership**,
`pkg/schedulerset`).

Pods come in on the leader, through the admission webhook or the pod watcher,
and enter a bounded `podQueue`. The leader's workers (`DistScheduler.Run` and
`ProcessOne`) then do two things with each pod:
- they relay it down a 10-ary tree of peers over persistent gRPC streams
  (**relay transport**, `relay.go`), and
- they run one of a pool of embedded kube-scheduler engines on it
  (**dispatch core**).

Each peer's engine does the following for a pod:
1. It filters and scores only the nodes labelled for that peer. The leader's
   **node labeler** keeps those labels balanced.
2. It reaches the `DistPermit` Permit plugin, which sends the peer's best
   score to one **aggregator** peer chosen by hashing the pod key.
3. The aggregator (`CollectScore`, `pkg/scoreevaluator`) waits for a score
   from every scheduler peer, or for 5 s.
4. The aggregator picks a winner and answers each caller
   `permit = (winner's node == your node)`.

A peer that fails before Permit sends a score of 0 from `podScheduleFailure`,
so the aggregator does not have to wait for it.

## Modules

| Module | Models | Source |
|---|---|---|
| `ScoreEvaluator` | Evaluator table, `RecordAndWait`, `startOneEvaluator`, `fire` | `pkg/scoreevaluator/scoreevaluator.go` |
| `Aggregation` | One pod's permit round over all peers: `Permit`/`SendScore`, `podScheduleFailure`, `CollectScore`, relay loss | `pkg/distpermit/distpermit.go`, `scheduler.go`, `scheduler_metrics.go` |
| `MCAggregation` | TLC instance of `Aggregation`: 3 peers, scores {0,2}, the aggregator's endpoint cache complete or missing one peer | |
| `ScoreRouting` | Every peer as scheduler and aggregator; `GetTargetForScoring` from each peer's own leader view, `OnNewLeader` per peer, the lease moving | `distpermit.go`, `scheduler.go`, `scheduler_metrics.go`, `endpointslices.go`, `src/unnamed/part_002` |
| `MCScoreRouting` | TLC instance of `ScoreRouting`: 3 integer peers, each with its own node | |
| `WebhookEndpoints` | Lease terms, `manageWebhookEndpoints`' Create and Update, `OnStoppedLeading`'s Delete, as requests in flight at the API server | `src/unnamed/part_002` |
| `SchedulerSet` | `podNameSort`, `sortMembers`, `GetSubMembers`' search and slice, `GetMembers`, `GetMemberCountNoRelays`, `GetTargetForScoring`, as operators | `pkg/schedulerset/endpointslices.go` |
| `MCTopology` | Every membership of up to 13 peers, checked for relay-tree coverage | |
| `Membership` | One peer's `SchedulerSet` fed by the informer's two listeners and by `OnNewLeader` | `endpointslices.go`, `src/unnamed/part_002` |
| `MCMembership` | TLC instance of `Membership` | |
| `Dispatch` | Webhook queueing, `Run`'s workers, `ProcessOne`, the engine `Stack`, `NextPod`, the done channel, the relay latch, the `ScheduleOne` goroutine's signals | `scheduler.go`, `relay.go`, `pkg/util/address.go`, `src/unnamed/part_000..001` |
| `LabelAssign` | `updateNodeLabels`' two passes as operators | `src/unnamed/part_002` |
| `MCLabelAssign` | Every store of up to 4 nodes, every labelling, membership and map order | |
| `MCAlgorithms` | `MCTopology` and `MCLabelAssign` in one state space, for one run | |
| `PodIntake` | Pod creation through the webhook or the leader's pod informer, composed with `WebhookEndpoints`; a round that binds or fails (`podScheduleFailure`) | `pod_watcher.go`, `scheduler.go`, `src/unnamed/part_000`, `part_002`, `part_019` |
| `NodeLabeler` | `startNodeLabeler`'s goroutine, dirty flag, `dirtyChan`, ticker, both listeners, node store, patches, loss of the lease | `src/unnamed/part_002`, `endpointslices.go` |
| `MCDispatch` | TLC instance of `Dispatch`: 2 workers, 2 pods | |
| `AbstractEvaluator` | What `RecordAndWait` promises its callers: one live evaluator per pod, one decision on a best score, each caller gets its evaluator's decision | `pkg/scoreevaluator/scoreevaluator.go` (abstract) |
| `Relay` | `sendPodToEndpoint`'s stream cache, request ids, `pendingRequests` and `SendMsg`; `receiverLoop`; the NewPod server (`UnmarshalPodRaw`, `concurrentCounter`); `Run`'s workers; the pod watcher's queueing; `OnNewLeader` | `relay.go`, `scheduler_metrics.go`, `scheduler.go`, `pod_watcher.go`, `src/unnamed/part_002` |

### ScoreEvaluator

- **State.** `table` is `e.evaluators`: each key maps to an evaluator number,
  or to 0 when the key has no evaluator. `evals` holds every `oneEvaluator`
  created so far, in creation order. Each evaluator records its `limit`,
  `scores`, `highestScore` and whether its ticker is still armed. `req` holds
  the program counter of each CollectScore server goroutine.
- **Steps.** `RecordAndWait` is cut where it changes locks:
  - `Lookup` runs under `e.lock`;
  - `Record` appends and, if the limit is reached, fires, all under
    `o.cond.L`;
  - `Return` re-acquires the lock after the Broadcast.
- **Atomic steps.** `fire()` holds `o.cond.L` throughout, so `Fire` is one step
  whether it is called by `Record` or by the ticker (`Tick`).
- **Creation.** `NewEvaluator` is `startOneEvaluator`: its `limit` is the
  aggregator's membership view, and it starts a fresh ticker.

### Aggregation

Each peer is in one of these states: `sched`, `awaiting`, `permitted`,
`denied`, `failed` or `unreached`.
- `Permit(p, s)` sends the peer's own node with score `s`. Score 0 is sent
  fire-and-forget and denied at once; any other score blocks on the RPC.
- `ScheduleFailure` sends `("", 0)`.
- `Unreached` stands for a failed relay send: the peer never sees the pod.
- `Deliver` invokes `CollectScore` on the aggregator.
- `Reply` returns `permit = (winner node = own node)`.
- `ViewCatchUp` is the aggregator's EndpointSlice cache catching up. Until
  then `memberView` may miss a peer (`InitViews`), and each new
  evaluator's limit is the smaller member count.

### ScoreRouting

`ScoreRouting` extends `ScoreEvaluator`. It keys the evaluators by
`<<aggregator, pod>>`, so one table stands for every peer's own table.
Every peer runs `Permit` or `ScheduleFailure`. The target comes from
`SchedulerSet!GetTargetForScoring` on that peer's `leaderView`. The lease
moves with `LeaderChange`. Each peer learns it in its own `NewLeader(p)`
(`OnNewLeader` -> `SetLeader`), on its own 2 s retry period. The member
views agree, so only the leader views differ.

### WebhookEndpoints

`holder` is the lease holder, or `None` while the lease is free. Between
two terms the lease is free, because the renew deadline (10 s) is shorter
than the lease duration (15 s). `mgr[p]` is `manageWebhookEndpoints`'
request in flight: `create`, `update` or `idle`. `clr[p]` is
`OnStoppedLeading`'s Delete in flight. `ep` is the object at the API
server.

`Acquire(p)` needs `p`'s earlier Delete to have returned, because
`OnStoppedLeading` runs inside `Run`, and the elector loop calls `Run`
again only after that. Requests with a cancelled `lctx` fail. `CanFail`
adds other API errors: they are logged and never retried.

### PodIntake

`PodIntake` instantiates `WebhookEndpoints` with its variables shared
(`WE == INSTANCE WebhookEndpoints`) and adds, per pod, its state at the API
server (`st`: absent, unscheduled, bound) and `rounds`, its copies in a
`podQueue` or in `ProcessOne`. `listed` holds the leaders whose pod informer
has delivered its initial list.

- `CreatePod`: in webhook mode (`WatchPods = FALSE`, the deployment's
  default) the CREATE reaches a scheduler only while the Endpoints object
  exists. The webhook's `failure_policy` is `Ignore`, so otherwise the pod
  is admitted and queued nowhere. In watch mode it reaches the leader's
  informer once that informer has listed.
- `List`: the new leader's informer lists every pod without a node; its
  `AddFunc` queues each, also those still in a round of the old leader.
- `LeaseStep`: the `WebhookEndpoints` steps; losing the lease stops the
  informer (`lctx`).
- `RoundBinds` and `RoundFails`: a round ends with a bind, or with no
  permit anywhere, after which `podScheduleFailure` returns without
  queueing the pod again.

### AbstractEvaluator and the refinement

`AbstractEvaluator` has three variables: `aevals` (per evaluator: its key, its
scores and its decision), `joined` and `result` (per caller). It has four
actions:
- `Open(k)` adds an evaluator, and only when every earlier one for `k` has
  decided.
- `Join(r, o, s)` appends a score. The evaluator may decide in the same step,
  on a best score, and the caller may return at once.
- `Decide(o)` decides on a best score.
- `Answer(r)` returns the decision to a waiting caller.

`Aggregation` maps `evals` to `aevals` field by field. A caller has joined once
its `pc` is past `append`, and its result is its `result` once it is `done`.
`Lookup`'s creation path is `Open`, `Record` is `Join`, a ticker `fire()` is
`Decide`, and `Return` is `Answer`. Every other step is a stutter. Whether a
caller returns at all is left open, because the `orphaned_waiter` run shows
one that never does.

### Relay

- **Callers.** A caller is a goroutine that runs `ProcessOne` on the peer:
  - a worker `0..NumWorkers-1` of `DistScheduler.Run`, with its own index;
  - the server goroutine of a `NewPod` stream from a parent, with an index
    from `concurrentCounter`.
  Each caller has a `pc`: `idle`, `lookup`, `send`, `sending` or `wait`.
- **Steps of a caller.**
  - `WorkerTake` and `ServerRecv` start `ProcessOne`. `ServerRecv` calls
    `Get`.
  - `Lookup` is the cache access under `clientCacheLock`. The key is
    `<<member, clientIndex>>`. The member is `LeaderSub` while the peer
    leads, and `ChildSub` otherwise.
  - `SendBegin` takes the request id and stores the pending request.
  - `SendEnd` is `SendMsg` returning. On a broken stream it deletes the
    cache key and counts the latch down (`RelayPod`'s `wg.Done()`).
  - `Finish` is the end of `ProcessOne`. A stream's caller then runs
    `Free`. The latch wait may time out, so `Finish` does not wait for the
    answer.
- **Client streams.** Each stream has its counter, its pending map, the
  requests on the wire and a `broken` flag. The sub-member answers the wire
  in order, and `Receive` is `receiverLoop` handling that answer. `Break` is
  a `Recv` error.
- **Pods and leadership.** `Enqueue` is the pod watcher's (or the webhook's)
  `podQueue <- pod` while the peer leads. `LeaderChange` is `OnNewLeader`
  moving the lease to or from the peer.

### SchedulerSet and MCTopology

Pod names are numbers, so their order is the order of the names. A relay
sorts before every scheduler, and the leader sorts first. `SortMembers`
ranks every member by how many members `PodNameSort` puts before it.
`SearchSelf` is `sort.Search` over `members[1:]`, step by step. `SubMembers`
is the slice `members[index*10+1 : min(start+fanOut, len)]`.

`MCTopology` has no dynamics. `Init` enumerates the memberships `1..n` with
at most one gap, and every choice of leader. `TopologyCoverage` asks that
every non-leader member is in exactly one peer's list and the leader in none.

### Membership

- **State.**
  - `slice` and `lease` are the API server's view.
  - `cacheQ` and `dirtyQ` are the informer's per-listener queues.
  - `leaderQ` holds the pending `OnNewLeader` calls.
  - `esCache`, `dirty`, `subCache` and `leader` are the fields of the
    `SchedulerSet`.
- **Steps.**
  - `CacheHandler` is `RunEndpointSliceWatcher`'s `Update`.
  - `DirtyHandler` is the `AddUpdateHandler` callback.
  - `SetLeader` runs under `cacheLock`.
  - `GetSubMembers` is the rebuild path. The read of a clean cache changes
    nothing, so it is a stutter.

### Dispatch

- **Workers.** Each worker has a `pc`: `idle`, `pop`, `wait`, `push` or
  `latch`. These follow `ProcessOne`:
  - relay with the latch (`TakePod`, with `errors` failed sends);
  - `Pop` with the nextPod check and `go ScheduleOne`;
  - `<-schedulerDoneChan` (`AwaitSignal`);
  - `Push`;
  - the latch `Wait`, or its 1 s timeout.
- **ScheduleOne.** Each pod's goroutine has its own `so` record.
  - `NextPod` takes the pod from the engine's slot.
  - `Cycle` either fails before Permit (2 signals) or reaches Permit (1
    signal, then the RPC).
  - `ScoreReply` returns from `SendScore`, followed by 1 or 2 more signals.
  - `Signal` blocks while the buffer of `SchedulerDoneChanCap` = 4 is full.
- **Latch.** `NewCountDownLatch` is translated with its `0.999999` threshold
  and its `int()` floor. `RelayResponse` and `RelayLost` are the receiver
  loop answering or dying.

### LabelAssign and NodeLabeler

`FirstPass` and `SecondPass` follow the two loops of `updateNodeLabels`.
The second pass indexes `shortGroups[i % len]` with the running `i` and
deletes a group when it fills. An empty list is reported as `panic`. Go
map iteration order is an argument: `gorder` for `nodeCountPerGroup`, `ns`
for the store's `List()`.

`NodeLabeler` has these parts:
- **Labeler goroutine.** `lab` is its program counter: `start`, `select`,
  `patch` or `stopped`.
- **Updates.** `Start` is the initial update, and it leaves `dirty` set.
  `Tick` and `Receive(l)` are the two `dirty.Swap(false)` cases.
- **Patches.** `PatchDone(n, ok)` finishes one patch goroutine.
- **Listeners.** `StateChanged(l)` runs in the SchedulerSet listener
  (`members`) or the node listener (`nodes`). It blocks as `lpc = "send"`
  when `elapsed` (more than 30 s since `lastUpdateTime`).
- **Node store.** `Watch(n)` is the node informer bringing its store up to
  date with the API server, one node at a time.

The ticker is abstracted: it may fire at any moment, not only every 30 s,
relative to the update's end.

## Runs

| Run | Cfg | Expect | Shows |
|---|---|---|---|
| aggregation | `MCAggregation.cfg` | pass | Every evaluator fires (`EvaluatorFires`). `ScoreEvaluator` implements `AbstractEvaluator` (`ImplementsAbstractEvaluator`), so all answers of one evaluator agree. Holds with peers failing, scoring 0 or never reached. |
| permit_straggler | `MCAggregation_permit.cfg` | violation of `AtMostOnePermit` | A peer's score arrives after the evaluator fired on its ticker and was deleted. The score creates a second evaluator, which fires again and permits that peer as well. |
| algorithms | `MCAlgorithms.cfg` | pass | With the leader among the members, the relay tree covers every member exactly once for every membership of up to 13 peers (`TopologyCoverage`). `updateNodeLabels` never takes a modulo by an empty `shortGroups`, every node ends in a scheduler group, and no group is above `desired` (`LabelingSound`). |
| membership_stale | `MCMembership_stale.cfg` | violation of `TopologyConverges` | The dirty listener runs first, and `GetSubMembers` rebuilds from the old cache and clears `dirty`. The cache handler then stores the new slice, but nothing rebuilds again: the relay targets stay stale for ever. |
| dispatch | `MCDispatch.cfg` | pass | `NoNextPodPanic`, `ScheduleOneTerminates` and `EveryPodProcessed` hold, although the engine returns to the pool while its `ScheduleOne` is still in Permit. |
| labeler | `MCNodeLabeler.cfg` | pass | A relay joins and the lease may be lost. A created node is eventually labelled unless the lease is lost (`NewNodeLabelled`). A blocked `stateChanged` is received while the labeler goroutine runs (`ListenerNotBlocked`); the send blocked after the goroutine stopped is the `lostlead` case below. |
| relay | `MCRelay.cfg` | pass | `concurrentCounter` hands each NewPod handler its own index and keeps its free list ordered (`CounterSound`). The receiver loops count each latch down once, and only for that pod's answer (`LatchSound`). Both hold although callers that timed out reuse their stream, streams break and the lease moves. |
| relay_index | `MCRelay_index.cfg` | violation of `SendMsgExclusive` | Around a lease change (traces take it in either direction), worker 0 drains `podQueue` with index 0 while a relayed pod gets cc index 0. Both get the same cached stream and are in `SendMsg` at once. |
| score_split | `MCScoreRouting.cfg` | violation of `PermitsFromOneAggregator` | The lease moves from 1 to 2. Peer 1 learns of it first and sends its score to 2, while peer 2 still sends to 1. Both evaluators fire on their tickers with one score each, and both peers are permitted. The API server rejects the second Bind, so the pod ends bound once, after two permits and a failed bind. |
| webhook_lost | `MCWebhookEndpoints.cfg` | violation of `WebhookFollowsLeader` | One peer loses the lease while its Delete is in flight. The other acquires the lease and its Create lands. Then the first peer's Delete lands (the peers are symmetric, so TLC's names for them vary). `manageWebhookEndpoints` does not run again that term, so the admission webhook reaches no peer until the next election. |
| pod_lost | `MCPodIntake.cfg` | violation of `QueuedPodBound` | In webhook mode, a pod is queued once. Its round ends with no permit, and `podScheduleFailure` returns without re-queuing it. Nothing queues it again, so it is never bound, although spec S2 says it is re-queued once the fault is gone. This holds even with strong fairness on the binding round. |
| orphaned_waiter | `MCAggregation_stuck.cfg` | violation of `CollectScoreReturns` | A CollectScore that looked up the evaluator just before it fired appends afterwards, below the limit, and waits for ever in `cond.Wait()`. |

## Bounds

- There are three peers. That is the smallest number where one peer can be
  unreached while two others race the ticker.
- The scores are {0,2}: enough for ties, for zero and for a strict winner
  (the value of a non-zero score does not matter, only its order). The
  aggregator's initial cache is complete or misses peer 3; the peers are
  symmetric, so one missing peer stands for each. The run takes about 65 s.
- There is one pod key. Evaluators of different keys share nothing but the
  table lock.
- The candidate cap of 100 is kept, but with 3 peers it is never reached.

- `MCTopology` goes up to 13 peers, because the 11th member is the first
  relayed from a second-level peer. A gap in `1..n` moves every later
  position.
- `MCScoreRouting` has 3 peers, one lease change and scores {0,1}. Two
  peers with different leader views and a third that may fail are enough
  for two aggregators to fire.
- `MCWebhookEndpoints` has 2 peers and 2 terms: the least for a Delete of
  one term to race the Create of the next.
- `MCMembership` has 3 peers and 2 changes. That is enough for a join and a
  leave to race the two listeners.
- `MCDispatch` has 2 workers, 1 engine and 2 pods, with `QueueCap` = 1. One
  engine is enough for the reuse race. Liveness with more pods or engines
  did not finish within minutes.

- `MCAlgorithms` holds the inputs of both `MCTopology` and `MCLabelAssign`
  as initial states, with the bounds below. It takes about 1 min 50 s.
- `MCPodIntake` has 2 peers, 2 terms and one pod. The one pod is
  enough, because the finding needs only one failed round.
- `MCLabelAssign` uses 4 nodes, 3 schedulers and a relay, with 5 label
  values. 4 nodes over 3 groups is the smallest case where a deletion
  shifts the index. 5 nodes also passes, in 2.5 minutes.
- `MCNodeLabeler` uses 2 nodes, one scheduler, one relay that may join, one
  node change and a possible loss of the lease. Only the relay may join
  (`Joiners`), because a scheduler joining breaks `NewNodeLabelled` through
  the listener race of `membership_stale`. The second scheduler is left
  out: with it the liveness check took 2.5 minutes. `algorithms` checks
  the assignment itself over 3 schedulers.
- `MCNodeLabeler_lostlead` lets either scheduler join, from every initial
  membership.
- `MCRelay` has 1 worker, 2 incoming streams, 4 pods, 3 client streams and
  one leader change, from either role. Two streams are the fewest for
  `concurrentCounter` to hand out and take back indices out of order. Four
  pods let a caller time out and send twice more on its stream, or let
  both streams cycle their indices. The run checks 1.4 million states in
  about 40 s.

## Fairness

Each goroutine is weakly fair: a runnable goroutine eventually runs. This
covers the CollectScore server goroutines, the ticker goroutine (the ticker
fires after 5 s), and the gRPC delivery of an RPC that was sent.

`Unreached` has no fairness, because a relay failure is not something that
must happen. The engine is assumed to eventually reach Permit or its failure
handler.

In `Membership`, the listeners, the elector callback and `GetSubMembers`
are weakly fair, because pods keep arriving. In `Dispatch`, every goroutine
is weakly fair, and so is the latch timer (a 1 s context). `RelayLost` is
not fair. `ScoreReply` (the engine's `SendScore`/`CollectScore` call
returning) is weakly fair as well. This is an assumption, not something
the code guarantees: the call's context has no deadline, and
`orphaned_waiter` shows a `CollectScore` that never returns.
`ScheduleOneTerminates` and `EveryPodProcessed` hold only under it.

In `WebhookEndpoints`, each API request eventually lands, and a free lease
is eventually taken. Losing the lease is not fair.

In `NodeLabeler`, the following are weakly fair: the goroutine's steps,
the ticker, the clock, each listener, each patch goroutine and the node
informer. Patch failure, node and member changes, and loss of the lease
are not fair.

In `PodIntake`, an informer eventually delivers its list, and a round
eventually ends. `RoundBinds` is strongly fair. Spec S2 treats the faults
that fail a round as transient, so a pod offered again and again is
eventually bound. This is the most favourable reading of the spec, and
`QueuedPodBound` still fails under it.

`Relay` has no fairness: its runs check only invariants.

`CHECK_DEADLOCK FALSE` is set in `MCMembership`, `MCDispatch`, `Relay` and
`NodeLabeler`, because
their inputs are finite and the system then rests. It is also set in
`Aggregation`, because one pod's round ends: once every peer
has its answer, nothing is left to do.

Several configurations are kept out of the run list. With them, TLC finds the
following:
- `MCLabelAssign_balance.cfg` (`PartitionBalance`): 4 nodes over 3
  schedulers end as 2, 2, 0. After a deletion, the index skips a group
  (spec 8.5, and the open question in spec 9).
- `MCNodeLabeler_lostlead.cfg` (`NoSendAfterStop`): after the lease is
  lost, the labeler's handler stays registered. A membership change blocks
  that listener on `dirtyChan` for ever (about 9,000 states). The labeler
  run's `ListenerNotBlocked` does not catch this. It asks only that a
  blocked send completes while the labeler goroutine runs (`lab #
  "stopped"`), so it covers the goroutine's return to its `select`, not the
  handler left behind.
- `WebhookEndpoints` with `CanFail = TRUE`: one failed Create leaves the
  leader without the webhook for its whole term.
- `MCDispatch_latch.cfg` (`LatchMatchesSpec`): with 3 sub-members and
  ratio 0.5 the code waits for `int(1.5)` = 1 answer, while spec.md 4.8 says
  `ceil` = 2. The default ratio 1.0 is exact, so the run list keeps the
  default.
- `MCTopology` with `LeaderInMembers = FALSE`: when the lease holder is not
  in the slice, the member that sorts first is nobody's sub-member.
- `NodeLabeler` with `CanFail = TRUE`: a failed patch is not retried, so a
  new node stays unlabelled.
- `NodeLabeler` with `MaxMemberChanges = 1` and `NewNodeLabelled`: the
  labeler's listener runs before the cache listener. The update skips the
  empty membership and clears `dirty`, and the node stays unlabelled. The
  root cause is the same as in `membership_stale`.
- `NodeLabeler` with `MaxNodeChanges = 0` and `LabelsConverge`: the first
  tick reruns the update (`dirty` stays set at line 142) before the store
  shows the first run's patches. Group 1 ends empty, and group 2 ends above
  `desired`. It is not kept as a run, because the ticker's period is
  abstracted.

## Not modelled (yet), and why

- Terraform, tfvars and shell scripts: declarative infrastructure.
- Stress tools (`part_003..005`): API clients outside the scheduler.
- Metrics, logging, tracing and TLS set-up: they change no state that any
  property reads.
- The FNV hash function itself: the key-to-target map is treated as an
  arbitrary function. `spec.md` says fnv1a, while the code uses FNV-1
  (`fnv.New32`). The two only disagree between versions of the program.
- The pod-name read at `rawPod[7]` in `RelayPod` (`relay.go:38`). It
  misreads the name when a varint is not 2 bytes wide. The name is only
  logged, and the `&&` in `doLog` short-circuits before the index that
  could panic.
- `SendScore`'s lock leak when `NewClient` fails (`distpermit.go:95`). It
  cannot happen, because `GRPCAddress` always builds a target that
  `NewClient` can parse.
- A modulo by zero in `GetTargetForScoring` with an empty member list.
  `NewSchedulerSet` waits for the cache to sync, so whether it can happen
  depends on the deployment's readiness gating.

- The admission response and the webhook's TLS set-up: I/O only.
  `PodIntake` keeps the one fact that matters, that a CREATE with no
  Endpoints object is admitted without a call.
- `relayOnly` peers running `ProcessOne` without an engine. They only
  relay, and `Relay` already models relaying.

The hazards in `PROJECT.json` that have no property each say why in their note.

## Plan

Done: `ScoreEvaluator`, `AbstractEvaluator` with its refinement,
`Aggregation`, `ScoreRouting`, `SchedulerSet`, `Membership`, `Dispatch`,
`LabelAssign`, `NodeLabeler`, `Relay`, `WebhookEndpoints`, and `PodIntake`,
which composes pod intake with `WebhookEndpoints`.

The run list is kept at 12 runs. `topology` and
`label_assign` were merged into `algorithms`. Further work adds properties
to the existing runs, or replaces a weaker run. The candidates are a
composition of `PodIntake`'s duplicate rounds with `Aggregation`'s
straggling evaluator, and `relayOnly` peers in `Dispatch`.
