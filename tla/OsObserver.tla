----------------------------- MODULE OsObserver -----------------------------
(***************************************************************************)
(* The observer of the operating system's data items                       *)
(* (gps/core/SystemStatusOsObserver.cpp, gps/utils/LocUnorderedSetMap.h).  *)
(*                                                                         *)
(* Clients subscribe to data items (network, cell, time zone, ...).  The   *)
(* observer keeps who wants what in two maps, one the inverse of the other,*)
(* caches the last value of each item, subscribes in the framework to the  *)
(* items somebody wants and passes news on to those who want them.         *)
(*                                                                         *)
(* Every operation posts a message and returns nothing; the one message    *)
(* thread runs a handler from beginning to end.  So the callers' threads   *)
(* decide only which handlers run, in which order: each action here is the *)
(* handler of one message, with any arguments, and the queue is left out.  *)
(*                                                                         *)
(* An entry of a LocUnorderedSetMap is removed with its last value: the    *)
(* maps are total functions and an absent entry is the empty set.          *)
(***************************************************************************)

CONSTANTS
  Clients,       \* IDataItemObserver objects
  Items,         \* the data items SystemStatus records
  RequestItems,  \* the items clients ask for with requestData(); to the others they subscribe
  Values,        \* values of the items
  None           \* no value

ASSUME ItemsAssumption == RequestItems \subseteq Items
ASSUME NoneAssumption == None \notin Values

VARIABLES
  mClientToDataItems,
  mDataItemToClients,
  mDataItemCache,
  mSubscriptionObj,  \* TRUE when the framework's subscription object is known
  subscribed,        \* items subscribed to in the framework
  told,              \* the last value each client was notified of, for each item
  updaters           \* clients that have called updateSubscription()

vars == <<mClientToDataItems, mDataItemToClients, mDataItemCache, mSubscriptionObj,
          subscribed, told, updaters>>

-----------------------------------------------------------------------------
(***************************************************************************)
(* LocUnorderedSetMap.                                                     *)
(***************************************************************************)
getKeys(map) == {k \in DOMAIN map : map[k] # {}}

add(map, keys, vals) == [k \in DOMAIN map |-> IF k \in keys THEN map[k] \cup vals ELSE map[k]]
newKeys(map, keys) == keys \ getKeys(map)

trimOrRemove(map, keys, vals) ==
  [k \in DOMAIN map |-> IF k \in keys THEN map[k] \ vals ELSE map[k]]

\* Mutant: an entry that was trimmed counts as gone though values are left.
trimmedKeys(map, keys, vals) == {k \in keys : map[k] \cap vals # {}}

goneKeys(map, keys, vals) == {k \in keys : map[k] # {} /\ map[k] \subseteq vals}
goneVals(map, keys, vals) == UNION {map[k] \cap vals : k \in keys}

\* removeAndReturnInterset(): it steps on from an element it has erased, which is undefined;
\* the loop then goes on or ends.
intersections(s1, s2) == {common \in SUBSET (s1 \cap s2) : s1 \cap s2 # {} => common # {}}

-----------------------------------------------------------------------------
\* Mutant: the client is told only of items it has not seen yet.
sendUnseen(set, to) ==
  told' = [told EXCEPT ![to] = [d \in Items |->
             IF d \in set /\ told[to][d] = None THEN mDataItemCache[d] ELSE told[to][d]]]

sendCachedDataItems(set, to) ==
  told' = [told EXCEPT ![to] = [d \in Items |->
             IF d \in set /\ mDataItemCache[d] # None THEN mDataItemCache[d] ELSE told[to][d]]]

subscribeInFramework(set) ==
  subscribed' = IF mSubscriptionObj THEN subscribed \cup set ELSE subscribed

unsubscribeInFramework(set) ==
  subscribed' = IF mSubscriptionObj THEN subscribed \ set ELSE subscribed

\* SetSubsObj: subscribes to what clients have asked for so far, and requests its data.
SetSubscriptionObj ==
  /\ mSubscriptionObj' = TRUE
  /\ subscribed' = subscribed \cup getKeys(mDataItemToClients)
  /\ UNCHANGED <<mClientToDataItems, mDataItemToClients, mDataItemCache, told, updaters>>

AddClient(c, set) ==
  /\ mDataItemToClients' = add(mDataItemToClients, set, {c})
  /\ mClientToDataItems' = add(mClientToDataItems, {c}, set)
  /\ sendCachedDataItems(set, c)

Subscribe(c, set) ==
  /\ AddClient(c, set)
  /\ subscribeInFramework(newKeys(mDataItemToClients, set))
  /\ UNCHANGED <<mDataItemCache, mSubscriptionObj, updaters>>

\* The data come later, with Notify; the framework does not follow the items.
RequestData(c, set) ==
  /\ AddClient(c, set)
  /\ UNCHANGED <<mDataItemCache, mSubscriptionObj, subscribed, updaters>>

UpdateSubscription(c, set) ==
  /\ \E unused \in intersections(mClientToDataItems[c], set) :
       LET trimmed == trimOrRemove(mDataItemToClients, unused, {c})
           new     == set \ unused
           gone    == goneKeys(mDataItemToClients, unused, {c})
           opened  == newKeys(trimmed, new) IN
       /\ mDataItemToClients' = add(trimmed, new, {c})
       /\ sendCachedDataItems(new, c)
       /\ subscribed' = IF mSubscriptionObj THEN (subscribed \cup opened) \ gone ELSE subscribed
  /\ mClientToDataItems' = [mClientToDataItems EXCEPT ![c] = set]
  /\ updaters' = updaters \cup {c}
  /\ UNCHANGED <<mDataItemCache, mSubscriptionObj>>

RemoveClient(c, set) ==
  /\ mDataItemToClients' = trimOrRemove(mDataItemToClients, set, {c})
  /\ unsubscribeInFramework(goneKeys(mDataItemToClients, set, {c}))
  /\ UNCHANGED <<mDataItemCache, mSubscriptionObj, told, updaters>>

Unsubscribe(c, set) ==
  /\ mClientToDataItems' = trimOrRemove(mClientToDataItems, {c}, set)
  /\ RemoveClient(c, goneVals(mClientToDataItems, {c}, set))

UnsubscribeAll(c) ==
  /\ mClientToDataItems' = [mClientToDataItems EXCEPT ![c] = {}]
  /\ RemoveClient(c, mClientToDataItems[c])

\* news gives the items notified of and their values, None for the others.
Notify(news) ==
  LET changed == {d \in Items : news[d] # None /\ news[d] # mDataItemCache[d]}
      clients == UNION {mDataItemToClients[d] : d \in changed} IN
  /\ mDataItemCache' = [d \in Items |-> IF d \in changed THEN news[d] ELSE mDataItemCache[d]]
  /\ told' = [c \in Clients |-> [d \in Items |->
                IF c \in clients /\ d \in changed \cap mClientToDataItems[c]
                THEN news[d] ELSE told[c][d]]]
  /\ UNCHANGED <<mClientToDataItems, mDataItemToClients, mSubscriptionObj, subscribed, updaters>>

-----------------------------------------------------------------------------
Init ==
  /\ mClientToDataItems = [c \in Clients |-> {}]
  /\ mDataItemToClients = [d \in Items |-> {}]
  /\ mDataItemCache = [d \in Items |-> None]
  /\ mSubscriptionObj = FALSE
  /\ subscribed = {}
  /\ told = [c \in Clients |-> [d \in Items |-> None]]
  /\ updaters = {}

Some(set) == SUBSET set \ {{}}

Next ==
  \/ SetSubscriptionObj
  \/ \E c \in Clients : \E set \in Some(Items \ RequestItems) : Subscribe(c, set)
  \/ \E c \in Clients : \E set \in Some(RequestItems) : RequestData(c, set)
  \/ \E c \in Clients : \E set \in Some(Items) : UpdateSubscription(c, set)
  \/ \E c \in Clients : \E set \in Some(Items) : Unsubscribe(c, set)
  \/ \E c \in Clients : UnsubscribeAll(c)
  \/ \E news \in [Items -> Values \cup {None}] : Notify(news)

Spec == Init /\ [][Next]_vars

-----------------------------------------------------------------------------
\* The state's types; the framework is asked only through its subscription object.
TypeOK ==
  /\ mClientToDataItems \in [Clients -> SUBSET Items]
  /\ mDataItemToClients \in [Items -> SUBSET Clients]
  /\ mDataItemCache \in [Items -> Values \cup {None}]
  /\ mSubscriptionObj \in BOOLEAN
  /\ subscribed \subseteq Items
  /\ told \in [Clients -> [Items -> Values \cup {None}]]
  /\ updaters \subseteq Clients
  /\ subscribed # {} => mSubscriptionObj

\* The two maps are inverse of each other after every operation, as far as clients that
\* never updated their subscription are concerned: none of them is forgotten in one of the
\* maps or left behind in the other, whatever the other clients do.
MapsInverse ==
  \A c \in Clients \ updaters, d \in Items :
    d \in mClientToDataItems[c] <=> c \in mDataItemToClients[d]

\* What the framework is subscribed to is what mDataItemToClients holds: an item is not
\* followed for nobody, and one that a client subscribed to is followed.
FrameworkFollows ==
  mSubscriptionObj =>
    /\ subscribed \subseteq getKeys(mDataItemToClients)
    /\ getKeys(mDataItemToClients) \ RequestItems \subseteq subscribed

KnowsLatest(c) == \A d \in mClientToDataItems[c] : told[c][d] = mDataItemCache[d]

\* A client that never updated its subscription has been told the latest value of every
\* item it is subscribed to, whatever it subscribed to, left and came back to meanwhile.
UpToDate == \A c \in Clients \ updaters : KnowsLatest(c)

\* The same of every client: after updateSubscription({2,3,4,5}) its subscription contains
\* 2, 3, 4 and 5 (IDataItemSubscription.h), so it is told of their changes.
EveryoneUpToDate == \A c \in Clients : KnowsLatest(c)
=============================================================================
