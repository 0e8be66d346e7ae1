---------------------------- MODULE SchedulerSet ----------------------------
(***************************************************************************)
(* The membership view and relay topology of one peer                      *)
(* (pkg/schedulerset/endpointslices.go).                                   *)
(*                                                                         *)
(* Pure part: the order of podNameSort, GetSubMembers' position search and *)
(* slice, GetMembers with solo mode and GetTargetForScoring, as operators  *)
(* over a member set and a leader.                                         *)
(*                                                                         *)
(* State part: the peer Self's SchedulerSet object fed by the EndpointSlice *)
(* informer.  The informer hands every slice change to each registered     *)
(* handler through that handler's own listener goroutine: the cache        *)
(* handler of RunEndpointSliceWatcher (Update/Delete of the slice map) and *)
(* the dirty handler NewSchedulerSet adds with AddUpdateHandler.  The two  *)
(* run in either order.  OnNewLeader reaches SetLeader from the leader     *)
(* elector's goroutine.                                                    *)
(*                                                                         *)
(* Pod names are numbers: the lexicographic order of the names is the      *)
(* order of the numbers, and a relay's name (prefix                        *)
(* "dist-scheduler-relay") sorts before every scheduler's once             *)
(* podNameSort has put "a" in front of it.                                 *)
(***************************************************************************)
EXTENDS Integers, Sequences, FiniteSets, SequencesExt

CONSTANTS
    Peers,        \* pod names of every peer that may appear in the slices
    RelayNames,   \* the peers whose name starts with RelayPrefix
    NoLeader,     \* s.leader before the first OnNewLeader (the "" string)
    FanOut,       \* s.fanOut (10 in NewSchedulerSet's caller)
    AllowSolo,    \* ALLOW_SOLO
    Keys,         \* pod keys
    Hash,         \* fnv.New32 over the key, reduced to [Keys -> Nat]
    Self          \* the peer whose SchedulerSet the state part models

ASSUME RelayNames \subseteq Peers /\ NoLeader \notin Peers /\ Self \in Peers
ASSUME Hash \in [Keys -> Nat] /\ FanOut \in Nat \ {0}

\* GetTargetForScoring's result when it divides by len(members) = 0.
Panic == "integer divide by zero"

-----------------------------------------------------------------------------
(* podNameSort(a, b): negative when a sorts before b. *)
PodNameSort(a, b, leader) ==
    LET role(x) == IF x \in RelayNames THEN 0 ELSE 1   \* "a"+relay < "dist-..."
    IN  CASE a = leader -> -1
          [] b = leader -> 1
          [] role(a) # role(b) -> role(a) - role(b)
          [] OTHER -> a - b

\* sortMembers: the members in podNameSort order (the i-th has i-1 members
\* before it; podNameSort is a strict total order on distinct names).
SortMembers(members, leader) ==
    LET rank(x) == Cardinality({y \in members \ {x} : PodNameSort(y, x, leader) < 0})
    IN  [i \in 1..Cardinality(members) |-> CHOOSE x \in members : rank(x) = i - 1]

\* sort.Search over members[1:] for `self`: the binary search
\*   for i < j { h := (i+j)/2; if !f(h) { i = h+1 } else { j = h } }
\* with f(h) = podNameSort(members[h+1], self) >= 0 (members 0-based).
RECURSIVE SearchSelf(_, _, _, _, _)
SearchSelf(i, j, sorted, self, leader) ==
    IF i >= j THEN i
    ELSE LET h == (i + j) \div 2 IN
         IF PodNameSort(sorted[h + 2], self, leader) >= 0
         THEN SearchSelf(i, h, sorted, self, leader)
         ELSE SearchSelf(h + 1, j, sorted, self, leader)

\* The position GetSubMembers gives `self` in the sorted list: 0 for the
\* leader, otherwise one more than the search over members[1:].
Index(self, sorted, leader) ==
    IF leader = self THEN 0
    ELSE SearchSelf(0, Len(sorted) - 1, sorted, self, leader) + 1

\* Mutant: the slice starts at index*10 instead of index*10+1.
SubMembersFromIndex(self, members, leader) ==
    IF Cardinality(members) <= 1 THEN <<>>
    ELSE LET s     == SortMembers(members, leader)
             start == Index(self, s, leader) * 10
             end   == IF start + FanOut > Len(s) THEN Len(s) ELSE start + FanOut
         IN  IF start >= Len(s) THEN <<>> ELSE SubSeq(s, start + 1, end)

\* The sub-members GetSubMembers computes from the cache's members:
\* members[start:end] with start = index*10+1, end = min(start+fanOut, len).
SubMembers(self, members, leader) ==
    IF Cardinality(members) <= 1 THEN <<>>
    ELSE LET s     == SortMembers(members, leader)
             start == Index(self, s, leader) * 10 + 1
             end   == IF start + FanOut > Len(s) THEN Len(s) ELSE start + FanOut
         IN  IF start >= Len(s) THEN <<>> ELSE SubSeq(s, start + 1, end)

\* GetMembers: in solo mode an empty list becomes [self at 127.0.0.1].
GetMembers(self, members) ==
    IF members = {} /\ AllowSolo THEN {self} ELSE members

\* GetMemberCountNoRelays: the limit of a new evaluator.
GetMemberCountNoRelays(members) == Cardinality(members \ RelayNames)

\* GetTargetForScoring: the single member, or the sorted members indexed by
\* the key's hash modulo their number (a panic when there are none).
GetTargetForScoring(self, key, members, leader) ==
    LET ms == GetMembers(self, members) IN
    CASE Cardinality(ms) = 1 -> CHOOSE m \in ms : TRUE
      [] ms = {} -> Panic
      [] OTHER -> SortMembers(ms, leader)[(Hash[key] % Cardinality(ms)) + 1]

=============================================================================
