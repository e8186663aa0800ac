--------------------------- MODULE PriorityQueue ---------------------------
(***************************************************************************)
(* What a heap of gps/utils/LocHeap.h promises: a set of elements that     *)
(* clients add, of which pop takes out one that no other outranks, and     *)
(* remove takes out the one it is given, if it is there.                   *)
(***************************************************************************)
EXTENDS Integers

CONSTANTS
  Elements,     \* what clients put into the heap
  Rank,         \* the rank of each element; a larger number outranks a smaller one
  Null

RankAssumption == Rank \in [Elements -> Int]
NullAssumption == Null \notin Elements

VARIABLES
  elements,     \* those in the queue
  lastCall      \* the last operation, what it was given and what it returned

queueVars == <<elements, lastCall>>

outRanks(a, b) == Rank[a] > Rank[b]
Highest(S) == {x \in S : \A y \in S : ~outRanks(y, x)}

Push(x) ==
  /\ x \notin elements
  /\ elements' = elements \cup {x}
  /\ lastCall' = <<"push", x, Null>>

PopEmpty == elements = {} /\ lastCall' = <<"pop", Null, Null>> /\ UNCHANGED elements

PopHighest ==
  \E x \in Highest(elements) : elements' = elements \ {x} /\ lastCall' = <<"pop", Null, x>>

Remove(x) ==
  /\ elements' = elements \ {x}
  /\ lastCall' = <<"remove", x, IF x \in elements THEN x ELSE Null>>

Init == elements = {} /\ lastCall = <<>>

Next == PopEmpty \/ PopHighest \/ \E x \in Elements : Push(x) \/ Remove(x)

Spec == Init /\ [][Next]_queueVars
=============================================================================
