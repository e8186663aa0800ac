------------------------------ MODULE MCPlatform ------------------------------
(***************************************************************************)
(* Model checking of what the adapters stand on: the observer of the       *)
(* operating system, the timers' heap, and the linked list under the       *)
(* message queues.                                                         *)
(*                                                                         *)
(* None reads the state of another, so a behaviour of them together is one *)
(* behaviour of each, and a property of one part holds of them together if *)
(* it holds of that part alone.  Init chooses the part that runs; the      *)
(* others stay as they were made.                                          *)
(***************************************************************************)
EXTENDS MCOsObserver, Integers

\* Of the heap: the timers, and the rank of each.
CONSTANTS Timers, Rank

\* Of the list: the data and, a bound, the elements allocated.
CONSTANTS Data, MaxElements

VARIABLES part,
          mTree, heapCall,
          mem, p_head, p_tail, listCall

\* Five timers, of which two pairs expire at the same time.
MCRank == 1 :> 1 @@ 2 :> 1 @@ 3 :> 2 @@ 4 :> 2 @@ 5 :> 3

Heap == INSTANCE LocHeap WITH Elements <- Timers, Null <- None, lastCall <- heapCall
List == INSTANCE LinkedList WITH Null <- None, lastCall <- listCall

ASSUME PlatformAssumption == Heap!Queue!RankAssumption /\ Heap!Queue!NullAssumption /\ List!ListAssumption

heapVars == <<mTree, heapCall>>
listVars == <<mem, p_head, p_tail, listCall>>
allVars == <<part, vars, heapVars, listVars>>

PlatformInit ==
  /\ part \in {"observer", "heap", "list"}
  /\ Init /\ Heap!Init /\ List!Init

PlatformNext ==
  \/ part = "observer" /\ Next /\ UNCHANGED <<part, heapVars, listVars>>
  \/ part = "heap" /\ Heap!Next /\ UNCHANGED <<part, vars, listVars>>
  \/ part = "list" /\ List!Next /\ UNCHANGED <<part, vars, heapVars>>

PlatformSpec == PlatformInit /\ [][PlatformNext]_allVars

(***************************************************************************)
(* The properties of the parts, stated where their modules state them.     *)
(***************************************************************************)
\* LocHeap is a priority queue: pop returns what nothing outranks, remove takes what it is asked to.
ImplementsQueue == Heap!ImplementsQueue
\* linked_list gives its data back in the order they were added.
ImplementsFifo == List!ImplementsFifo
=============================================================================
