------------------------------- MODULE LocHeap -------------------------------
(***************************************************************************)
(* The heap of gps/utils/LocHeap.{h,cpp}: a binary tree in which no node   *)
(* is outranked by one below it and every node knows the size of its       *)
(* subtree.  Nodes are never moved: data is swapped along a path, and the  *)
(* node that leaves the tree is a leaf.  So a node is known by its place,  *)
(* the sides to take from the top to get there, and the recursion of each  *)
(* operation follows one path: the prefixes of the place it ends at.       *)
(***************************************************************************)
EXTENDS Integers, SequencesExt

CONSTANTS Elements, Rank, Null

VARIABLES
  mTree,      \* the nodes by their places
  lastCall    \* ghost: the last operation, what it was given and what it returned

vars == <<mTree, lastCall>>

outRanks(a, b) == Rank[a] > Rank[b]

Node(data) == [mData |-> data, mSize |-> 1]

(***************************************************************************)
(* Places.                                                                 *)
(***************************************************************************)
Sides == {"mLeft", "mRight"}
places == DOMAIN mTree

mLeft(p) == Append(p, "mLeft")
mRight(p) == Append(p, "mRight")

\* The place n steps from the top on the way to p.
upTo(p, n) == SubSeq(p, 1, n)

\* What clients find in the tree.
elements == {mTree[p].mData : p \in places}

(***************************************************************************)
(* Adding: a node is hung into the smaller subtrees.                       *)
(***************************************************************************)
\* The side on which a node below p is added.
side(p) ==
  IF mLeft(p) \notin places THEN "mLeft"
  ELSE IF mRight(p) \notin places THEN "mRight"
  ELSE IF mTree[mLeft(p)].mSize <= mTree[mRight(p)].mSize THEN "mLeft" ELSE "mRight"

newPlace ==
  CHOOSE p \in ({<<>>} \cup {Append(q, s) : q \in places, s \in Sides}) \ places :
    \A n \in 0 .. Len(p) - 1 : p[n+1] = side(upTo(p, n))

\* The data that stays and the data that goes below.
swap(own, data) == IF outRanks(data, own) THEN <<data, own>> ELSE <<own, data>>

pushNode(data) ==
  LET new == newPlace
      low[n \in 0 .. Len(new)] == IF n = 0 THEN data ELSE swap(mTree[upTo(new, n - 1)].mData, low[n - 1])[2]
  IN [p \in places \cup {new} |->
       IF p = new THEN Node(low[Len(p)])
       ELSE IF IsPrefix(p, new) THEN [mData |-> swap(mTree[p].mData, low[Len(p)])[1], mSize |-> mTree[p].mSize + 1]
       ELSE mTree[p]]

(***************************************************************************)
(* Taking out.                                                             *)
(***************************************************************************)
isLeaf(p) == mLeft(p) \notin places /\ mRight(p) \notin places

\* The side whose data moves up.
subTop(p) ==
  IF mLeft(p) \notin places THEN "mRight"
  ELSE IF mRight(p) \notin places THEN "mLeft"
  ELSE IF outRanks(mTree[mLeft(p)].mData, mTree[mRight(p)].mData) THEN "mLeft" ELSE "mRight"

\* The node that leaves the tree when the data at top does.
popped(top) ==
  CHOOSE p \in places :
    isLeaf(p) /\ IsPrefix(top, p) /\ \A n \in Len(top) .. Len(p) - 1 : p[n+1] = subTop(upTo(p, n))

\* The tree without the data at top: everything above the node that leaves loses one below.
popNode(top) ==
  LET last == popped(top) IN
  [p \in places \ {last} |->
    IF ~IsPrefix(p, last) THEN mTree[p]
    ELSE [mData |-> IF IsPrefix(top, p) THEN mTree[upTo(last, Len(p) + 1)].mData ELSE mTree[p].mData,
          mSize |-> mTree[p].mSize - 1]]

\* Mutant: data of equal rank is not looked for below.
equalAbove(data, top) == outRanks(top, data)

mayBeBelow(data, top) == ~outRanks(data, top)

\* Where the search finds data.
found(data) ==
  {p \in places : mTree[p].mData = data /\ \A n \in 0 .. Len(p) - 1 : mayBeBelow(data, mTree[upTo(p, n)].mData)}

(***************************************************************************)
(* The heap.  A client pushes data that is not in it.                      *)
(***************************************************************************)
push(data) ==
  /\ data \notin elements
  /\ mTree' = pushNode(data)
  /\ lastCall' = <<"push", data, Null>>

peek == IF places = {} THEN Null ELSE mTree[<<>>].mData

pop ==
  /\ lastCall' = <<"pop", Null, peek>>
  /\ mTree' = IF places = {} THEN mTree ELSE popNode(<<>>)

\* The node that holds data is known by its address; no two hold the same.
remove(data) ==
  IF found(data) = {} THEN lastCall' = <<"remove", data, Null>> /\ UNCHANGED mTree
  ELSE /\ lastCall' = <<"remove", data, data>>
       /\ \E top \in found(data) : mTree' = popNode(top)

Init == mTree = <<>> /\ lastCall = <<>>

Next == pop \/ \E data \in Elements : push(data) \/ remove(data)

Spec == Init /\ [][Next]_vars

-----------------------------------------------------------------------------
sizeAt(p) == IF p \in places THEN mTree[p].mSize ELSE 0

\* checkTree() of the unit tests: after any sequence of pushes, pops and removals from the
\* middle, the data of a node is not outranked by what is below it and its size is that of
\* its subtree.
TreeConsistent ==
  \A p \in places :
    /\ mTree[p].mSize = 1 + sizeAt(mLeft(p)) + sizeAt(mRight(p))
    /\ \A s \in Sides : Append(p, s) \in places => ~outRanks(mTree[Append(p, s)].mData, mTree[p].mData)

\* The heap is a priority queue: whatever the shape of the tree, pop returns what no other
\* outranks and remove takes out exactly what it is asked to, equal ranks included;
\* and the tree is well formed at every step.
Queue == INSTANCE PriorityQueue WITH elements <- elements
ImplementsQueue == Queue!Spec /\ []TreeConsistent
=============================================================================
