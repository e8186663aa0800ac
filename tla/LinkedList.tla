----------------------------- MODULE LinkedList -----------------------------
(***************************************************************************)
(* The doubly linked list of gps/utils/linked_list.c, on which the message *)
(* queues are built: new elements become the head, the tail is removed.    *)
(* mem is the memory of its elements; an address is free if mem has no     *)
(* element there.  Calls hold the mutex of the queue, so each is one step. *)
(***************************************************************************)
EXTENDS Integers, FiniteSets, SequencesExt

CONSTANTS
  Data,
  Null,          \* NULL
  MaxElements    \* bound: elements allocated

ListAssumption == MaxElements \in Nat /\ Null \notin 1..MaxElements

VARIABLES
  mem,
  p_head,
  p_tail,
  lastCall       \* ghost: the last call, what it was given and what it gave back

vars == <<mem, p_head, p_tail, lastCall>>

Address == 1 .. MaxElements
Free == Address \ DOMAIN mem

malloc(m, e, element) == [a \in DOMAIN m \cup {e} |-> IF a = e THEN element ELSE m[a]]
free(m, e) == [a \in DOMAIN m \ {e} |-> m[a]]

\* The pointer at e is changed, if e is not NULL.
setNext(m, e, to) == IF e = Null THEN m ELSE [m EXCEPT ![e].next = to]
setPrev(m, e, to) == IF e = Null THEN m ELSE [m EXCEPT ![e].prev = to]

linked_list_add(data) ==
  /\ lastCall' = <<"add", data, Null>>
  /\ \E e \in Free :
       /\ mem' = setPrev(malloc(mem, e, [next |-> p_head, prev |-> Null, data_ptr |-> data]), p_head, e)
       /\ p_head' = e
       /\ p_tail' = IF p_head = Null THEN e ELSE p_tail

mallocFails(data) == lastCall' = <<"add", data, Null>> /\ UNCHANGED <<mem, p_head, p_tail>>

linked_list_remove ==
  IF p_tail = Null
  THEN lastCall' = <<"remove", Null, Null>> /\ UNCHANGED <<mem, p_head, p_tail>>
  ELSE LET prev == mem[p_tail].prev IN
       /\ lastCall' = <<"remove", Null, mem[p_tail].data_ptr>>
       /\ p_tail' = prev
       /\ p_head' = IF prev = Null THEN Null ELSE p_head
       /\ mem' = free(setNext(mem, prev, Null), p_tail)

\* The addresses from one end on, following one of the pointers.
Walk(first, pointer) ==
  LET at[n \in 0 .. MaxElements] ==
        IF n = 0 THEN first
        ELSE LET e == at[n - 1] IN IF e = Null THEN Null ELSE mem[e][pointer]
      length == Cardinality({n \in 0 .. MaxElements : at[n] # Null})
  IN [i \in 1 .. length |-> at[i - 1]]

linked_list_flush ==
  /\ mem' = [a \in DOMAIN mem \ ToSet(Walk(p_head, "next")) |-> mem[a]]
  /\ p_head' = Null /\ p_tail' = Null /\ lastCall' = <<"flush", Null, Null>>

unlink(e) ==
  /\ p_head' = IF mem[e].prev = Null THEN mem[e].next ELSE p_head
  /\ p_tail' = IF mem[e].next = Null THEN mem[e].prev ELSE p_tail
  /\ mem' = free(setPrev(setNext(mem, mem[e].prev, mem[e].next), mem[e].next, mem[e].prev), e)

\* Mutant: from the tail.
oldestFirst == Walk(p_tail, "prev")

searchOrder == Walk(p_head, "next")

linked_list_search(data, rm_if_found) ==
  LET found == {i \in DOMAIN searchOrder : mem[searchOrder[i]].data_ptr = data}
  IN IF found = {}
     THEN lastCall' = <<"search", data, Null>> /\ UNCHANGED <<mem, p_head, p_tail>>
     ELSE /\ lastCall' = <<"search", data, data>>
          /\ IF rm_if_found THEN unlink(searchOrder[Min(found)]) ELSE UNCHANGED <<mem, p_head, p_tail>>

Init == mem = <<>> /\ p_head = Null /\ p_tail = Null /\ lastCall = <<>>

Next ==
  \/ linked_list_remove \/ linked_list_flush
  \/ \E data \in Data :
       linked_list_add(data) \/ mallocFails(data) \/ \E rm_if_found \in BOOLEAN : linked_list_search(data, rm_if_found)

Spec == Init /\ [][Next]_vars

-----------------------------------------------------------------------------
\* No pointer dangles, from the tail backwards one finds what one finds from the head, and
\* that is all that is allocated: removals at the end and inside leave no element behind.
DoublyLinked ==
  /\ {p_head, p_tail} \cup UNION {{mem[e].next, mem[e].prev} : e \in DOMAIN mem}
       \subseteq DOMAIN mem \cup {Null}
  /\ Walk(p_head, "next") = Reverse(Walk(p_tail, "prev"))
  /\ ToSet(Walk(p_head, "next")) = DOMAIN mem

\* The list is a FIFO of its data, with a search for the newest, and it is well formed at
\* every step.
Contents == LET order == Walk(p_tail, "prev") IN [i \in DOMAIN order |-> mem[order[i]].data_ptr]
Fifo == INSTANCE FifoList WITH items <- Contents, lastCall <- lastCall
ImplementsFifo == Fifo!Spec /\ []DoublyLinked
=============================================================================
