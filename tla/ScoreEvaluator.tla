--------------------------- MODULE ScoreEvaluator ---------------------------
(***************************************************************************)
(* The per-pod score aggregator of pkg/scoreevaluator/scoreevaluator.go:   *)
(* the evaluator table (ScoreEvaluator.evaluators under e.lock), the       *)
(* evaluators themselves (oneEvaluator: limit, scores, highestScore and    *)
(* the one-shot ticker goroutine) and the CollectScore server goroutines   *)
(* that call RecordAndWait.                                                *)
(*                                                                         *)
(* Each server goroutine is one request r in Reqs.  RecordAndWait is split *)
(* at the points where it gives up a lock: the table lookup (under         *)
(* e.lock), the append and possible early fire (under o.cond.L), the      *)
(* cond.Wait, and the return after the Broadcast.  fire() holds o.cond.L  *)
(* for its whole body and takes e.lock inside it, so it is one step.       *)
(*                                                                         *)
(* Evaluators are numbered in creation order (a pointer in the code); the  *)
(* table maps a key to the number of its live evaluator or to 0.           *)
(***************************************************************************)
EXTENDS Integers, Sequences, FiniteSets

CONSTANTS
    Keys,           \* pod keys "<namespace>/<name>"
    Reqs,           \* CollectScore server goroutines
    Nodes,          \* node names a score may carry (NoNode included)
    CandidateCap    \* the 100 of `make([]Score, 0, 100)` in fire()

VARIABLES
    table,      \* e.evaluators: key -> evaluator number, 0 when absent
    evals,      \* the oneEvaluator objects created so far, in order
    req,        \* state of each CollectScore server goroutine
    memberView  \* the aggregator's endpoint cache: scheduler peers it sees

evVars == <<table, evals, req>>

\* highestScore is initialised to {"", -1}: Score = -1 means "not fired".
NotFired == [node |-> "none", score |-> -1]

Score == [node : Nodes, score : Nat]

\* pc of a server goroutine:
\*   "idle"    not (yet) called
\*   "lookup"  inside CollectScore, about to take e.lock
\*   "append"  holds a pointer to evaluator ev, about to take o.cond.L
\*   "wait"    parked in o.cond.Wait()
\*   "woken"   released by Broadcast, re-acquiring o.cond.L
\*   "done"    returned `result`
ReqPCs == {"idle", "lookup", "append", "wait", "woken", "done"}

IdleReq == [pc |-> "idle", key |-> CHOOSE k \in Keys : TRUE,
            sc |-> NotFired, ev |-> 0, result |-> NotFired]

Evaluator == [key : Keys, limit : Nat, scores : Seq(Score),
              highest : Score \cup {NotFired}, ticker : {"armed", "spent"}]

TypeOK ==
    /\ table \in [Keys -> 0..Cardinality(Reqs)]
    /\ evals \in Seq(Evaluator)
    /\ req \in [Reqs -> [pc : ReqPCs, key : Keys, sc : Score \cup {NotFired},
                         ev : 0..Cardinality(Reqs),
                         result : Score \cup {NotFired}]]
    /\ memberView \in SUBSET Reqs

-----------------------------------------------------------------------------
(* fire(): pick the highest score, ties broken by rand.Intn among the     *)
(* first CandidateCap of them in arrival order, delete the key from the   *)
(* table and Broadcast.  A second call returns at the Score != -1 check.  *)

\* Mutant: the scan appends a new maximum without `candidates[:0]`, so
\* every score that was a running maximum stays a candidate.
CandidatesNoReset(scores) ==
    LET I == {i \in DOMAIN scores : \A j \in 1..i-1 : scores[j].score <= scores[i].score}
    IN  [n \in 1..Cardinality(I) |->
            scores[CHOOSE i \in I : Cardinality({j \in I : j <= i}) = n]]

\* The ties for the best score, in the order fire() scans o.scores.
Candidates(scores) ==
    LET best == CHOOSE m \in {s.score : s \in {scores[i] : i \in DOMAIN scores}} :
                    \A i \in DOMAIN scores : scores[i].score <= m
        ties == SelectSeq(scores, LAMBDA s : s.score = best)
    IN  SubSeq(ties, 1, IF Len(ties) < CandidateCap THEN Len(ties) ELSE CandidateCap)

\* The effect of o.fire(e, key, ...) on evals and the table; `ev1` is evals
\* with o's scores already updated by the caller.
Fire(o, ev1) ==
    IF ev1[o].highest # NotFired
    THEN /\ evals' = ev1
         /\ UNCHANGED table
    ELSE \E i \in DOMAIN Candidates(ev1[o].scores) :
            /\ evals' = [ev1 EXCEPT ![o].highest = Candidates(ev1[o].scores)[i]]
            /\ table' = [table EXCEPT ![ev1[o].key] = 0]

\* The Broadcast at the end of fire(): the goroutines parked on o wake up;
\* a fire() that returns at the guard broadcasts nothing.
Broadcast(o, ev1) ==
    IF ev1[o].highest # NotFired
    THEN req
    ELSE [r \in Reqs |-> IF req[r].pc = "wait" /\ req[r].ev = o
                         THEN [req[r] EXCEPT !.pc = "woken"] ELSE req[r]]

-----------------------------------------------------------------------------
(* RecordAndWait(key, score), step by step. *)

\* CollectScore(r) is invoked with a key and a score.
Call(r, k, s) ==
    /\ req[r].pc = "idle"
    /\ req' = [req EXCEPT ![r] = [pc |-> "lookup", key |-> k, sc |-> s,
                                  ev |-> 0, result |-> NotFired]]
    /\ UNCHANGED <<table, evals>>

\* Mutant: startOneEvaluator without the ticker goroutine.
NewEvaluatorNoTicker(k) ==
    [key |-> k, limit |-> Cardinality(memberView), scores |-> <<>>,
     highest |-> NotFired, ticker |-> "spent"]

\* startOneEvaluator: limit from GetMemberCountNoRelays(), a fresh ticker.
NewEvaluator(k) ==
    [key |-> k, limit |-> Cardinality(memberView), scores |-> <<>>,
     highest |-> NotFired, ticker |-> "armed"]

\* Under e.lock: get-or-create the evaluator of the key, then unlock.
Lookup(r) ==
    LET k == req[r].key IN
    /\ req[r].pc = "lookup"
    /\ IF table[k] # 0
       THEN /\ req' = [req EXCEPT ![r].pc = "append", ![r].ev = table[k]]
            /\ UNCHANGED <<table, evals>>
       ELSE /\ evals' = Append(evals, NewEvaluator(k))
            /\ table' = [table EXCEPT ![k] = Len(evals) + 1]
            /\ req' = [req EXCEPT ![r].pc = "append", ![r].ev = Len(evals) + 1]

\* Under o.cond.L: append the score; fire early when len(scores) >= limit
\* and return the winner, otherwise cond.Wait().
Record(r) ==
    LET o   == req[r].ev
        ev1 == [evals EXCEPT ![o].scores = Append(@, req[r].sc)]
    IN
    /\ req[r].pc = "append"
    /\ IF Len(ev1[o].scores) >= ev1[o].limit
       THEN /\ Fire(o, ev1)
            /\ req' = [Broadcast(o, ev1) EXCEPT ![r].pc = "done",
                                                ![r].result = evals'[o].highest]
       ELSE /\ evals' = ev1
            /\ req' = [req EXCEPT ![r].pc = "wait"]
            /\ UNCHANGED table

\* After Broadcast, Wait re-acquires o.cond.L and returns o.highestScore.
Return(r) ==
    /\ req[r].pc = "woken"
    /\ req' = [req EXCEPT ![r].pc = "done",
                          ![r].result = evals[req[r].ev].highest]
    /\ UNCHANGED <<table, evals>>

\* The ticker goroutine: <-o.ticker.C, then o.fire(e, key, false).  The
\* delay (5 s) is far longer than the hand-off from the table lookup to
\* the first append, so the ticker is taken to fire only once the creator
\* has appended its score (with no score fire() would panic in rand.Intn).
Tick(o) ==
    /\ evals[o].ticker = "armed"
    /\ evals[o].scores # <<>>
    /\ LET ev1 == [evals EXCEPT ![o].ticker = "spent"] IN
       /\ Fire(o, ev1)
       /\ req' = Broadcast(o, ev1)

-----------------------------------------------------------------------------
EvInit ==
    /\ table = [k \in Keys |-> 0]
    /\ evals = <<>>
    /\ req = [r \in Reqs |-> IdleReq]

\* The server-side steps; Call is left to the module that composes this one.
EvStep ==
    \/ \E r \in Reqs : Lookup(r) \/ Record(r) \/ Return(r)
    \/ \E o \in DOMAIN evals : Tick(o)

EvFairness ==
    /\ \A r \in Reqs : WF_evVars(Lookup(r)) /\ WF_evVars(Record(r))
                        /\ WF_evVars(Return(r))
    /\ \A o \in 1..Cardinality(Reqs) : WF_evVars(o \in DOMAIN evals /\ Tick(o))

=============================================================================
