------------------------- MODULE AbstractEvaluator -------------------------
(***************************************************************************)
(* What the score aggregator of pkg/scoreevaluator promises its callers,  *)
(* without the table, the locks, the limit or the ticker.                  *)
(*                                                                         *)
(* Decisions are made per evaluator, numbered in creation order.  A pod    *)
(* has at most one undecided evaluator at a time.  An evaluator collects   *)
(* the scores of the callers that join it and decides once, on one of the *)
(* highest scores it holds at that moment.  A caller returns that decision *)
(* and nothing else, and the decision never changes afterwards.  Whether   *)
(* and when a caller returns is left open: ScoreEvaluator's callers may    *)
(* wait for ever (the orphaned waiter).                                    *)
(***************************************************************************)
EXTENDS Integers, Sequences

CONSTANTS Keys, Reqs, Nodes, ScoreVals, NotFired

VARIABLES
    aevals,   \* per evaluator: its key, the scores it holds, its decision
    joined,   \* per caller: the evaluator it gave its score to, or 0
    result    \* per caller: what it returned, NotFired while it has not

avars == <<aevals, joined, result>>

Score == [node : Nodes, score : ScoreVals]

\* The highest scores among those an evaluator holds.
Best(scores) ==
    {scores[i] : i \in {j \in DOMAIN scores :
                          \A l \in DOMAIN scores : scores[l].score <= scores[j].score}}

Undecided(k) == {o \in DOMAIN aevals : aevals[o].key = k /\ aevals[o].winner = NotFired}

AInit ==
    /\ aevals = <<>>
    /\ joined = [r \in Reqs |-> 0]
    /\ result = [r \in Reqs |-> NotFired]

\* A new evaluator for k, only when every earlier one for k has decided.
Open(k) ==
    /\ Undecided(k) = {}
    /\ aevals' = Append(aevals, [key |-> k, scores |-> <<>>, winner |-> NotFired])
    /\ UNCHANGED <<joined, result>>

\* Caller r gives score s to evaluator o; the evaluator may decide in the
\* same step, and r may return the decision at once.
Join(r, o, s) ==
    LET sc1 == Append(aevals[o].scores, s) IN
    /\ joined[r] = 0
    /\ \E w \in {aevals[o].winner} \cup
               (IF aevals[o].winner = NotFired THEN Best(sc1) ELSE {}) :
          /\ aevals' = [aevals EXCEPT ![o].scores = sc1, ![o].winner = w]
          /\ result' \in {[result EXCEPT ![r] = v] : v \in {NotFired, w}}
    /\ joined' = [joined EXCEPT ![r] = o]

\* Evaluator o decides on one of its best scores.
Decide(o) ==
    /\ aevals[o].winner = NotFired /\ aevals[o].scores # <<>>
    /\ \E w \in Best(aevals[o].scores) :
          aevals' = [aevals EXCEPT ![o].winner = w]
    /\ UNCHANGED <<joined, result>>

\* A waiting caller returns the decision of its evaluator.
Answer(r) ==
    /\ joined[r] # 0 /\ result[r] = NotFired
    /\ aevals[joined[r]].winner # NotFired
    /\ result' = [result EXCEPT ![r] = aevals[joined[r]].winner]
    /\ UNCHANGED <<aevals, joined>>

ANext ==
    \/ \E k \in Keys : Open(k)
    \/ \E r \in Reqs, o \in DOMAIN aevals, s \in Score : Join(r, o, s)
    \/ \E o \in DOMAIN aevals : Decide(o)
    \/ \E r \in Reqs : Answer(r)

ASpec == AInit /\ [][ANext]_avars

=============================================================================
