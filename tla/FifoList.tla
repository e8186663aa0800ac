------------------------------ MODULE FifoList ------------------------------
(***************************************************************************)
(* What a list of gps/utils/linked_list.h promises: data is removed in the *)
(* order it was added, and a search finds the newest data that is equal.   *)
(***************************************************************************)
EXTENDS SequencesExt

CONSTANTS Data, Null, MaxElements

VARIABLES
  items,
  lastCall    \* the last operation, what it was given and what it gave back

vars == <<items, lastCall>>

Add(x) == Len(items) < MaxElements /\ items' = Append(items, x) /\ lastCall' = <<"add", x, Null>>
AddFails(x) == lastCall' = <<"add", x, Null>> /\ UNCHANGED items

Take ==
  /\ items' = IF items = <<>> THEN items ELSE Tail(items)
  /\ lastCall' = <<"remove", Null, IF items = <<>> THEN Null ELSE Head(items)>>

Flush == items' = <<>> /\ lastCall' = <<"flush", Null, Null>>

Newest(x) == CHOOSE i \in DOMAIN items : /\ items[i] = x
                                         /\ \A j \in DOMAIN items : items[j] = x => j <= i

Search(x, rm_if_found) ==
  IF Contains(items, x)
  THEN lastCall' = <<"search", x, x>> /\ items' = IF rm_if_found THEN RemoveAt(items, Newest(x)) ELSE items
  ELSE lastCall' = <<"search", x, Null>> /\ UNCHANGED items

Init == items = <<>> /\ lastCall = <<>>

Next ==
  \/ Take \/ Flush
  \/ \E x \in Data : Add(x) \/ AddFails(x) \/ \E rm_if_found \in BOOLEAN : Search(x, rm_if_found)

Spec == Init /\ [][Next]_vars
=============================================================================
