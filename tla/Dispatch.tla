------------------------------ MODULE Dispatch ------------------------------
(***************************************************************************)
(* The dispatch core of one peer (cmd/dist-scheduler/scheduler.go          *)
(* DistScheduler.Run and ProcessOne) with the engine pool (util.Stack,     *)
(* src/unnamed/part_001), the scheduler-done channel, the relay latch      *)
(* (pkg/util/address.go NewCountDownLatch) and the ScheduleOne goroutine   *)
(* each pod gets.                                                          *)
(*                                                                         *)
(* A worker takes a pod from podQueue, relays it to SubCount sub-members   *)
(* (each send either fails, counting the latch down at once, or is         *)
(* answered later by the stream's receiver loop), pops an engine, installs *)
(* the pod in its nextPod slot, starts ScheduleOne in a goroutine, waits   *)
(* for the first signal on the done channel, pushes the engine back and    *)
(* waits for the latch with a 1 s timeout.                                 *)
(*                                                                         *)
(* ScheduleOne signals the channel from DistPermit.Permit (before the      *)
(* CollectScore RPC), from podScheduleFailure, and when it returns; the    *)
(* binding goroutine it leaves behind signals again if binding fails.      *)
(***************************************************************************)
EXTENDS Integers, Sequences, FiniteSets

CONSTANTS
    Workers,      \* the numConcurrentSchedulers worker goroutines
    Engines,      \* the pre-built kube-scheduler engines
    Pods,         \* the pods admitted by the webhook, in this order
    NoPod,        \* nil
    QueueCap,     \* PodQueueSize
    SubCount,     \* len(GetSubMembers())
    RatioNum, RatioDen  \* wait-for-subschedulers = RatioNum / RatioDen

ASSUME Pods \in Seq(Nat) /\ NoPod \notin Engines
ASSUME RatioNum \in Nat /\ RatioDen \in Nat \ {0} /\ RatioNum <= RatioDen

VARIABLES
    podQueue,   \* pods in the buffered channel
    admitted,   \* number of Pods the webhook has queued
    wk,         \* per worker: pc and current pod and engine
    stack,      \* the engine Stack (top = last)
    nextPod,    \* per engine: its nextPod slot
    so,         \* per pod: its ScheduleOne goroutine
    latch,      \* per pod: the relay latch
    finished    \* pods whose ProcessOne has returned

vars == <<podQueue, admitted, wk, stack, nextPod, so, latch, finished>>

PodIds == {Pods[i] : i \in 1..Len(Pods)}

WorkerPCs == {"idle", "pop", "wait", "push", "latch", "panic"}
SoPCs == {"none", "next", "cycle", "signals", "rpc", "end", "panic"}

TypeOK ==
    /\ podQueue \in Seq(PodIds) /\ admitted \in 0..Len(Pods)
    /\ wk \in [Workers -> [pc : WorkerPCs, pod : PodIds \cup {NoPod},
                           eng : Engines \cup {NoPod}]]
    /\ stack \in Seq(Engines)
    /\ nextPod \in [Engines -> PodIds \cup {NoPod}]
    /\ so \in [PodIds -> [pc : SoPCs, eng : Engines \cup {NoPod},
                          sigs : Nat, then : SoPCs, buf : Nat]]
    /\ latch \in [PodIds -> [wg : BOOLEAN, count : Nat, dones : Nat,
                             pending : Nat]]
    /\ finished \subseteq PodIds

\* Mutant: a done channel with room for a single signal.
SchedulerDoneChanCapOne == 1

\* `make(chan struct{}, 4)` in ProcessOne.
SchedulerDoneChanCap == 4

-----------------------------------------------------------------------------
(* NewCountDownLatch(n, ratio): a WaitGroup of n when ratio > 0.999999,   *)
(* otherwise a counter of int(n * ratio).                                  *)

NewCountDownLatch(n, errors) ==
    [wg      |-> RatioNum * 1000000 > 999999 * RatioDen,
     count   |-> IF RatioNum * 1000000 > 999999 * RatioDen
                 THEN n ELSE (n * RatioNum) \div RatioDen,
     dones   |-> errors,       \* RelayPod calls wg.Done() for a failed send
     pending |-> n - errors]   \* requests the receiver loops will answer

\* Wait() returns: the WaitGroup counter or the count has reached 0.
Released(l) == l.count - l.dones <= 0

-----------------------------------------------------------------------------
(* The webhook: respond, then `ws.podQueue <- &pod` (blocks when full). *)
Admit ==
    /\ admitted < Len(Pods) /\ Len(podQueue) < QueueCap
    /\ podQueue' = Append(podQueue, Pods[admitted + 1])
    /\ admitted' = admitted + 1
    /\ UNCHANGED <<wk, stack, nextPod, so, latch, finished>>

\* Worker w receives a pod and runs ProcessOne's RelayPod: `errors` of the
\* SubCount sends fail and are counted down at once.
TakePod(w, errors) ==
    LET q == Head(podQueue) IN
    /\ wk[w].pc = "idle" /\ podQueue # <<>>
    /\ podQueue' = Tail(podQueue)
    /\ latch' = [latch EXCEPT ![q] = NewCountDownLatch(SubCount, errors)]
    /\ wk' = [wk EXCEPT ![w] = [pc |-> "pop", pod |-> q, eng |-> NoPod]]
    /\ UNCHANGED <<admitted, stack, nextPod, so, finished>>

\* schedulerStack.Pop() (waits while empty), the nextPod check and
\* install, and `go ScheduleOne` with a fresh done channel.
Pop(w) ==
    LET e == stack[Len(stack)]
        q == wk[w].pod
    IN
    /\ wk[w].pc = "pop" /\ stack # <<>>
    /\ stack' = SubSeq(stack, 1, Len(stack) - 1)
    /\ IF nextPod[e] # NoPod
       THEN /\ wk' = [wk EXCEPT ![w].pc = "panic", ![w].eng = e]
            /\ UNCHANGED <<nextPod, so>>
       ELSE /\ nextPod' = [nextPod EXCEPT ![e] = q]
            /\ so' = [so EXCEPT ![q] = [pc |-> "next", eng |-> e, sigs |-> 0,
                                        then |-> "end", buf |-> 0]]
            /\ wk' = [wk EXCEPT ![w].pc = "wait", ![w].eng = e]
    /\ UNCHANGED <<podQueue, admitted, latch, finished>>

\* `<-schedulerDoneChan`: one signal is enough.
AwaitSignal(w) ==
    LET q == wk[w].pod IN
    /\ wk[w].pc = "wait" /\ so[q].buf > 0
    /\ so' = [so EXCEPT ![q].buf = @ - 1]
    /\ wk' = [wk EXCEPT ![w].pc = "push"]
    /\ UNCHANGED <<podQueue, admitted, stack, nextPod, latch, finished>>

\* Mutant: the engine goes back to the pool before the done signal.
PushEarly(w) ==
    /\ wk[w].pc = "wait"
    /\ stack' = Append(stack, wk[w].eng)
    /\ wk' = [wk EXCEPT ![w].pc = "latch"]
    /\ UNCHANGED <<podQueue, admitted, nextPod, so, latch, finished>>

\* schedulerStack.Push(scheduler), though ScheduleOne may still run.
Push(w) ==
    /\ wk[w].pc = "push"
    /\ stack' = Append(stack, wk[w].eng)
    /\ wk' = [wk EXCEPT ![w].pc = "latch"]
    /\ UNCHANGED <<podQueue, admitted, nextPod, so, latch, finished>>

\* The relay wait: Wait() returns, or the 1 s context times out first.
\* A pod with no sub-members has no latch to wait for.
LatchWait(w) ==
    /\ wk[w].pc = "latch"
    /\ \/ Released(latch[wk[w].pod]) \/ SubCount = 0
    /\ wk' = [wk EXCEPT ![w] = [pc |-> "idle", pod |-> NoPod, eng |-> NoPod]]
    /\ finished' = finished \cup {wk[w].pod}
    /\ UNCHANGED <<podQueue, admitted, stack, nextPod, so, latch>>

\* Mutant: Wait() without the timeout.
LatchNoTimeout(w) == FALSE

LatchTimeout(w) ==
    /\ wk[w].pc = "latch" /\ SubCount > 0
    /\ wk' = [wk EXCEPT ![w] = [pc |-> "idle", pod |-> NoPod, eng |-> NoPod]]
    /\ finished' = finished \cup {wk[w].pod}
    /\ UNCHANGED <<podQueue, admitted, stack, nextPod, so, latch>>

\* A sub-member's NewPod response: the receiver loop does pr.wg.Done().
RelayResponse(q) ==
    /\ latch[q].pending > 0
    /\ latch' = [latch EXCEPT ![q].pending = @ - 1, ![q].dones = @ + 1]
    /\ UNCHANGED <<podQueue, admitted, wk, stack, nextPod, so, finished>>

\* The stream to the sub-member breaks: its receiver loop returns on the
\* Recv error and the pending request is never counted down.
RelayLost(q) ==
    /\ latch[q].pending > 0
    /\ latch' = [latch EXCEPT ![q].pending = @ - 1]
    /\ UNCHANGED <<podQueue, admitted, wk, stack, nextPod, so, finished>>

-----------------------------------------------------------------------------
(* The ScheduleOne goroutine of pod q on engine so[q].eng.                 *)

Unscheduled == [pc |-> "none", eng |-> NoPod, sigs |-> 0, then |-> "none", buf |-> 0]

\* Scheduler.NextPod: panics on a nil slot, otherwise takes the pod.
NextPod(q) ==
    LET e == so[q].eng IN
    /\ so[q].pc = "next"
    /\ IF nextPod[e] = NoPod
       THEN /\ so' = [so EXCEPT ![q].pc = "panic"]
            /\ UNCHANGED nextPod
       ELSE /\ nextPod' = [nextPod EXCEPT ![e] = NoPod]
            /\ so' = [so EXCEPT ![q].pc = "cycle"]
    /\ UNCHANGED <<podQueue, admitted, wk, stack, latch, finished>>

\* The scheduling cycle ends either before DistPermit (podScheduleFailure
\* signals, then ScheduleOne returns and signals), or in DistPermit.Permit,
\* which signals before it calls SendScore.
Cycle(q) ==
    /\ so[q].pc = "cycle"
    /\ \/ so' = [so EXCEPT ![q].pc = "signals", ![q].sigs = 2, ![q].then = "end"]
       \/ so' = [so EXCEPT ![q].pc = "signals", ![q].sigs = 1, ![q].then = "rpc"]
    /\ UNCHANGED <<podQueue, admitted, wk, stack, nextPod, latch, finished>>

\* `schedulerDoneChan <- struct{}{}`: blocks while the buffer is full.
Signal(q) ==
    /\ so[q].pc = "signals" /\ so[q].sigs > 0 /\ so[q].buf < SchedulerDoneChanCap
    /\ so' = [so EXCEPT ![q].buf = @ + 1, ![q].sigs = @ - 1,
                        ![q].pc = IF so[q].sigs = 1 THEN so[q].then ELSE "signals"]
    /\ UNCHANGED <<podQueue, admitted, wk, stack, nextPod, latch, finished>>

\* SendScore returns.  Denied: Permit fails the cycle, podScheduleFailure
\* and the return of ScheduleOne signal.  Permitted: ScheduleOne returns
\* and signals, and the binding goroutine signals once more if binding
\* fails (podScheduleFailure for DefaultBinder).
ScoreReply(q) ==
    /\ so[q].pc = "rpc"
    /\ \E n \in {1, 2} :
          so' = [so EXCEPT ![q].pc = "signals", ![q].sigs = n, ![q].then = "end"]
    /\ UNCHANGED <<podQueue, admitted, wk, stack, nextPod, latch, finished>>

-----------------------------------------------------------------------------
Init ==
    /\ podQueue = <<>> /\ admitted = 0
    /\ wk = [w \in Workers |-> [pc |-> "idle", pod |-> NoPod, eng |-> NoPod]]
    /\ stack \in {s \in [1..Cardinality(Engines) -> Engines] :
                    \A e \in Engines : \E i \in DOMAIN s : s[i] = e}
    /\ nextPod = [e \in Engines |-> NoPod]
    /\ so = [q \in PodIds |-> Unscheduled]
    /\ latch = [q \in PodIds |-> [wg |-> FALSE, count |-> 0, dones |-> 0, pending |-> 0]]
    /\ finished = {}

WorkerStep(w) ==
    \/ \E errors \in 0..SubCount : TakePod(w, errors)
    \/ Pop(w) \/ AwaitSignal(w) \/ Push(w) \/ LatchWait(w) \/ LatchTimeout(w)

PodStep(q) ==
    RelayResponse(q) \/ RelayLost(q) \/ NextPod(q) \/ Cycle(q) \/ Signal(q) \/ ScoreReply(q)

Next == Admit \/ \E w \in Workers : WorkerStep(w) \/ \E q \in PodIds : PodStep(q)

\* Every goroutine that can run eventually does; the 1 s timer always
\* ends the relay wait; sub-members eventually answer; SendScore returns
\* (the aggregator's own liveness is the business of Aggregation).
Fairness ==
    /\ WF_vars(Admit)
    /\ \A w \in Workers :
          /\ WF_vars(\E errors \in 0..SubCount : TakePod(w, errors))
          /\ WF_vars(Pop(w)) /\ WF_vars(AwaitSignal(w)) /\ WF_vars(Push(w))
          /\ WF_vars(LatchWait(w) \/ LatchTimeout(w))
    /\ \A q \in PodIds :
          /\ WF_vars(RelayResponse(q)) /\ WF_vars(NextPod(q)) /\ WF_vars(Cycle(q))
          /\ WF_vars(Signal(q)) /\ WF_vars(ScoreReply(q))

Spec == Init /\ [][Next]_vars /\ Fairness

-----------------------------------------------------------------------------
(* Properties. *)

\* Neither "nextPod is not nil" (ProcessOne) nor "nextPod is nil" (NextPod)
\* can panic, although the engine goes back to the pool while the
\* ScheduleOne that uses it is still blocked in Permit.
NoNextPodPanic ==
    /\ \A w \in Workers : wk[w].pc # "panic"
    /\ \A q \in PodIds : so[q].pc # "panic"

\* Every ScheduleOne goroutine finishes: no signal it sends after
\* ProcessOne stopped reading blocks on a full done channel.
ScheduleOneTerminates ==
    \A q \in PodIds : so[q].pc = "next" ~> so[q].pc = "end"

\* Every pod the webhook queued is eventually through ProcessOne.
EveryPodProcessed ==
    \A i \in 1..Len(Pods) : admitted >= i ~> Pods[i] \in finished

\* Spec 4.8: the latch lets ProcessOne go on only after ceil(n * ratio)
\* Done() calls.
LatchMatchesSpec ==
    \A w \in Workers :
        (wk[w].pc = "latch" /\ SubCount > 0 /\ Released(latch[wk[w].pod]))
            => latch[wk[w].pod].dones * RatioDen >= SubCount * RatioNum

=============================================================================
