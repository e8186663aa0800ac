--------------------------- MODULE PlatformProofs ---------------------------
(***************************************************************************)
(* Proofs about what MCPlatform composes.                                  *)
(*                                                                         *)
(* OsObserver, for any clients, items and values: each property is         *)
(* inductive with the ones before it; the handlers share the lemmas about  *)
(* what they do to the maps of one client.                                 *)
(*                                                                         *)
(* LocHeap, for any timers and ranks: what a push or a removal makes of a  *)
(* tree is stated of any two trees, so that the shape, the order, the      *)
(* sizes and the content of the second follow from those of the first one  *)
(* by one; that the operations of the module are these comes last.         *)
(*                                                                         *)
(* LinkedList, for any data and any addresses: the memory in use is one    *)
(* sequence that both pointers follow.                                     *)
(***************************************************************************)
EXTENDS MCPlatform, Sequences, FiniteSetTheorems, TLAPS

LEMMA InitTypes == Init => TypeOK
<1> SUFFICES ASSUME Init PROVE TypeOK
  OBVIOUS
<1>1. mDataItemCache \in [Items -> Values \cup {None}]
  BY DEF Init
<1>2. told \in [Clients -> [Items -> Values \cup {None}]]
  BY DEF Init
<1> QED BY <1>1, <1>2 DEF Init, TypeOK

LEMMA SomeSets ==
  /\ \A set \in Some(Items \ RequestItems) : set \subseteq Items
  /\ \A set \in Some(RequestItems) : set \subseteq Items
  /\ \A set \in Some(Items) : set \subseteq Items
  BY ItemsAssumption DEF Some

\* Telling a client of cached items keeps the type of told.
LEMMA SendTypes ==
  ASSUME TypeOK, NEW to \in Clients, NEW set, sendCachedDataItems(set, to)
  PROVE  told' \in [Clients -> [Items -> Values \cup {None}]]
<1> DEFINE new == [d \in Items |->
                     IF d \in set /\ mDataItemCache[d] # None THEN mDataItemCache[d] ELSE told[to][d]]
<1>1. told' = [told EXCEPT ![to] = new]
  BY DEF sendCachedDataItems
<1>2. new \in [Items -> Values \cup {None}]
  BY DEF TypeOK
<1> HIDE DEF new
<1> QED BY <1>1, <1>2 DEF TypeOK

LEMMA AddTypes ==
  ASSUME TypeOK, NEW c \in Clients, NEW set \in SUBSET Items, AddClient(c, set)
  PROVE  /\ mClientToDataItems' \in [Clients -> SUBSET Items]
         /\ mDataItemToClients' \in [Items -> SUBSET Clients]
         /\ told' \in [Clients -> [Items -> Values \cup {None}]]
<1>1. told' \in [Clients -> [Items -> Values \cup {None}]]
  BY SendTypes DEF AddClient
<1> QED BY <1>1 DEF AddClient, add, TypeOK

LEMMA RemoveTypes ==
  ASSUME TypeOK, NEW c \in Clients, NEW set, RemoveClient(c, set),
         mClientToDataItems' \in [Clients -> SUBSET Items]
  PROVE  TypeOK'
<1>1. mDataItemToClients' \in [Items -> SUBSET Clients]
  BY DEF RemoveClient, trimOrRemove, TypeOK
<1>2. subscribed' \subseteq subscribed
  BY DEF RemoveClient, unsubscribeInFramework
<1> QED BY <1>1, <1>2 DEF RemoveClient, TypeOK

LEMMA StepTypes == TypeOK /\ [Next]_vars => TypeOK'
<1> SUFFICES ASSUME TypeOK, [Next]_vars PROVE TypeOK'
  OBVIOUS
<1>1. CASE SetSubscriptionObj
  BY <1>1 DEF SetSubscriptionObj, getKeys, TypeOK
<1>2. ASSUME NEW c \in Clients, NEW set \in SUBSET Items, Subscribe(c, set)
      PROVE  TypeOK'
  <2>1. AddClient(c, set)
    BY <1>2 DEF Subscribe
  <2>2. subscribed' \subseteq Items /\ (subscribed' # {} => mSubscriptionObj)
    BY <1>2 DEF Subscribe, subscribeInFramework, newKeys, TypeOK
  <2> QED BY <1>2, <2>1, <2>2, AddTypes DEF Subscribe, TypeOK
<1>3. ASSUME NEW c \in Clients, NEW set \in SUBSET Items, RequestData(c, set)
      PROVE  TypeOK'
  BY <1>3, AddTypes DEF RequestData, TypeOK
<1>4. ASSUME NEW c \in Clients, NEW set \in SUBSET Items, UpdateSubscription(c, set)
      PROVE  TypeOK'
  <2>1. PICK unused \in intersections(mClientToDataItems[c], set) :
          UpdateSubscription(c, set)!1!(unused)
    BY <1>4 DEF UpdateSubscription
  <2> DEFINE trimmed == trimOrRemove(mDataItemToClients, unused, {c})
  <2>2. trimmed \in [Items -> SUBSET Clients]
    BY DEF trimOrRemove, TypeOK
  <2>3. mDataItemToClients' = add(trimmed, set \ unused, {c})
    BY <2>1
  <2>4. mDataItemToClients' \in [Items -> SUBSET Clients]
    <3> HIDE DEF trimmed
    <3> QED BY <2>2, <2>3 DEF add
  <2>5. told' \in [Clients -> [Items -> Values \cup {None}]]
    BY <2>1, SendTypes
  <2>6. subscribed' \subseteq Items /\ (subscribed' # {} => mSubscriptionObj)
    BY <2>1 DEF newKeys, TypeOK
  <2> QED BY <1>4, <2>4, <2>5, <2>6 DEF UpdateSubscription, TypeOK
<1>5. ASSUME NEW c \in Clients, NEW set \in SUBSET Items, Unsubscribe(c, set)
      PROVE  TypeOK'
  <2>1. mClientToDataItems' \in [Clients -> SUBSET Items]
    BY <1>5 DEF Unsubscribe, trimOrRemove, TypeOK
  <2> QED BY <1>5, <2>1, RemoveTypes DEF Unsubscribe
<1>6. ASSUME NEW c \in Clients, UnsubscribeAll(c)
      PROVE  TypeOK'
  <2>1. mClientToDataItems' \in [Clients -> SUBSET Items]
    BY <1>6 DEF UnsubscribeAll, TypeOK
  <2> QED BY <1>6, <2>1, RemoveTypes DEF UnsubscribeAll
<1>7. ASSUME NEW news \in [Items -> Values \cup {None}], Notify(news)
      PROVE  TypeOK'
  BY <1>7 DEF Notify, TypeOK
<1>8. CASE UNCHANGED vars
  BY <1>8 DEF vars, TypeOK
<1> QED BY <1>1, <1>2, <1>3, <1>4, <1>5, <1>6, <1>7, <1>8, SomeSets DEF Next

\* The types of the observer's state, for any clients, items and values.
THEOREM TypeCorrect == Spec => []TypeOK
<1>1. Init => TypeOK
  BY InitTypes
<1>2. TypeOK /\ [Next]_vars => TypeOK'
  BY StepTypes
<1> QED BY <1>1, <1>2, PTL DEF Spec

-----------------------------------------------------------------------------
(***************************************************************************)
(* The maps are inverse of each other.                                     *)
(***************************************************************************)
LEMMA AddInverse ==
  ASSUME TypeOK, MapsInverse, NEW c \in Clients, NEW set \in SUBSET Items,
         AddClient(c, set), updaters' = updaters
  PROVE  MapsInverse'
  BY DEF AddClient, add, TypeOK, MapsInverse

LEMMA StepInverse == TypeOK /\ MapsInverse /\ [Next]_vars => MapsInverse'
<1> SUFFICES ASSUME TypeOK, MapsInverse, [Next]_vars PROVE MapsInverse'
  OBVIOUS
<1>1. CASE SetSubscriptionObj
  BY <1>1 DEF SetSubscriptionObj, MapsInverse
<1>2. ASSUME NEW c \in Clients, NEW set \in SUBSET Items, Subscribe(c, set)
      PROVE  MapsInverse'
  BY <1>2, AddInverse DEF Subscribe
<1>3. ASSUME NEW c \in Clients, NEW set \in SUBSET Items, RequestData(c, set)
      PROVE  MapsInverse'
  BY <1>3, AddInverse DEF RequestData
<1>4. ASSUME NEW c \in Clients, NEW set \in SUBSET Items, UpdateSubscription(c, set)
      PROVE  MapsInverse'
  <2>1. PICK unused \in intersections(mClientToDataItems[c], set) :
          UpdateSubscription(c, set)!1!(unused)
    BY <1>4 DEF UpdateSubscription
  <2>2. \A o \in Clients \ {c} : \A d \in Items :
          o \in mDataItemToClients'[d] <=> o \in mDataItemToClients[d]
    BY <2>1 DEF add, trimOrRemove, TypeOK
  <2>3. \A o \in Clients \ {c} : mClientToDataItems'[o] = mClientToDataItems[o]
    BY <1>4 DEF UpdateSubscription, TypeOK
  <2>4. updaters' = updaters \cup {c}
    BY <1>4 DEF UpdateSubscription
  <2> QED BY <2>2, <2>3, <2>4 DEF MapsInverse
<1>5. ASSUME NEW c \in Clients, NEW set \in SUBSET Items, Unsubscribe(c, set)
      PROVE  MapsInverse'
  <2> DEFINE gone == goneVals(mClientToDataItems, {c}, set)
  <2>1. gone = mClientToDataItems[c] \cap set
    BY DEF goneVals
  <2>2. mDataItemToClients' = trimOrRemove(mDataItemToClients, gone, {c}) /\ updaters' = updaters
    BY <1>5 DEF Unsubscribe, RemoveClient
  <2>3. mClientToDataItems' = trimOrRemove(mClientToDataItems, {c}, set)
    BY <1>5 DEF Unsubscribe
  <2> HIDE DEF gone
  <2> QED BY <2>1, <2>2, <2>3 DEF trimOrRemove, TypeOK, MapsInverse
<1>6. ASSUME NEW c \in Clients, UnsubscribeAll(c)
      PROVE  MapsInverse'
  BY <1>6 DEF UnsubscribeAll, RemoveClient, trimOrRemove, TypeOK, MapsInverse
<1>7. ASSUME NEW news \in [Items -> Values \cup {None}], Notify(news)
      PROVE  MapsInverse'
  BY <1>7 DEF Notify, MapsInverse
<1>8. CASE UNCHANGED vars
  BY <1>8 DEF vars, MapsInverse
<1> QED BY <1>1, <1>2, <1>3, <1>4, <1>5, <1>6, <1>7, <1>8, SomeSets DEF Next

\* The maps stay inverse of each other for every client that never updates its subscription.
THEOREM MapsStayInverse == Spec => []MapsInverse
<1>1. Init => TypeOK /\ MapsInverse
  BY InitTypes DEF Init, MapsInverse
<1>2. TypeOK /\ MapsInverse /\ [Next]_vars => (TypeOK /\ MapsInverse)'
  BY StepTypes, StepInverse
<1> QED BY <1>1, <1>2, PTL DEF Spec

-----------------------------------------------------------------------------
(***************************************************************************)
(* Every client is up to date.  What keeps the proof going when a client   *)
(* comes back to an item without a cached value is that nobody was ever    *)
(* told one.                                                               *)
(***************************************************************************)
ToldWasCached ==
  \A c \in Clients, d \in Items : mDataItemCache[d] = None => told[c][d] = None

NewsInv == TypeOK /\ MapsInverse /\ ToldWasCached /\ UpToDate

\* What a client is told when cached items are sent to it, and what the others are.
LEMMA SendTold ==
  ASSUME TypeOK, NEW to \in Clients, NEW set, sendCachedDataItems(set, to)
  PROVE  /\ \A c \in Clients \ {to} : told'[c] = told[c]
         /\ \A d \in Items : told'[to][d] =
              IF d \in set /\ mDataItemCache[d] # None THEN mDataItemCache[d] ELSE told[to][d]
<1> DEFINE new == [d \in Items |->
                     IF d \in set /\ mDataItemCache[d] # None THEN mDataItemCache[d] ELSE told[to][d]]
<1>1. told' = [told EXCEPT ![to] = new]
  BY DEF sendCachedDataItems
<1>2. told' = [c \in Clients |-> IF c = to THEN new ELSE told[c]]
  <2> HIDE DEF new
  <2> QED BY <1>1 DEF TypeOK
<1>3. told'[to] = new /\ \A c \in Clients \ {to} : told'[c] = told[c]
  <2> HIDE DEF new
  <2> QED BY <1>2
<1> QED BY <1>3

LEMMA AddNews ==
  ASSUME NewsInv, NEW c \in Clients, NEW set \in SUBSET Items, AddClient(c, set),
         mDataItemCache' = mDataItemCache, updaters' = updaters
  PROVE  ToldWasCached' /\ UpToDate'
<1>1. /\ \A o \in Clients \ {c} : told'[o] = told[o]
      /\ \A d \in Items : told'[c][d] =
           IF d \in set /\ mDataItemCache[d] # None THEN mDataItemCache[d] ELSE told[c][d]
  BY SendTold DEF AddClient, NewsInv
<1>2. \A o \in Clients \ {c} : mClientToDataItems'[o] = mClientToDataItems[o]
  BY DEF AddClient, add, TypeOK, NewsInv
<1>3. mClientToDataItems'[c] = mClientToDataItems[c] \cup set
  BY DEF AddClient, add, TypeOK, NewsInv
<1>4. ToldWasCached'
  BY <1>1 DEF ToldWasCached, NewsInv
<1>5. mClientToDataItems[c] \subseteq Items
  BY DEF TypeOK, NewsInv
<1>6. ASSUME NEW o \in Clients \ updaters PROVE KnowsLatest(o)'
  <2>1. CASE o = c
    BY <1>1, <1>3, <1>5, <1>6, <2>1 DEF KnowsLatest, ToldWasCached, UpToDate, NewsInv
  <2>2. CASE o # c
    BY <1>1, <1>2, <1>6, <2>2 DEF KnowsLatest, UpToDate, NewsInv
  <2> QED BY <2>1, <2>2
<1> QED BY <1>4, <1>6 DEF UpToDate

LEMMA StepNews == NewsInv /\ [Next]_vars => ToldWasCached' /\ UpToDate'
<1> SUFFICES ASSUME NewsInv, [Next]_vars PROVE ToldWasCached' /\ UpToDate'
  OBVIOUS
<1>1. CASE SetSubscriptionObj
  BY <1>1 DEF SetSubscriptionObj, NewsInv, ToldWasCached, UpToDate, KnowsLatest
<1>2. ASSUME NEW c \in Clients, NEW set \in SUBSET Items, Subscribe(c, set)
      PROVE  ToldWasCached' /\ UpToDate'
  BY <1>2, AddNews DEF Subscribe
<1>3. ASSUME NEW c \in Clients, NEW set \in SUBSET Items, RequestData(c, set)
      PROVE  ToldWasCached' /\ UpToDate'
  BY <1>3, AddNews DEF RequestData
<1>4. ASSUME NEW c \in Clients, NEW set \in SUBSET Items, UpdateSubscription(c, set)
      PROVE  ToldWasCached' /\ UpToDate'
  <2>1. PICK unused \in intersections(mClientToDataItems[c], set) :
          UpdateSubscription(c, set)!1!(unused)
    BY <1>4 DEF UpdateSubscription
  <2>2. /\ \A o \in Clients \ {c} : told'[o] = told[o]
        /\ \A d \in Items : told'[c][d] =
             IF d \in set \ unused /\ mDataItemCache[d] # None
             THEN mDataItemCache[d] ELSE told[c][d]
    BY <2>1, SendTold DEF NewsInv
  <2>3. mDataItemCache' = mDataItemCache /\ updaters' = updaters \cup {c}
    BY <1>4 DEF UpdateSubscription
  <2>4. \A o \in Clients \ {c} : mClientToDataItems'[o] = mClientToDataItems[o]
    BY <1>4 DEF UpdateSubscription, TypeOK, NewsInv
  <2>5. ToldWasCached'
    BY <2>2, <2>3 DEF ToldWasCached, NewsInv
  <2>6. UpToDate'
    BY <2>2, <2>3, <2>4 DEF UpToDate, KnowsLatest, NewsInv
  <2> QED BY <2>5, <2>6
<1>5. ASSUME NEW c \in Clients, NEW set \in SUBSET Items, Unsubscribe(c, set)
      PROVE  ToldWasCached' /\ UpToDate'
  <2>1. \A o \in Clients : mClientToDataItems'[o] \subseteq mClientToDataItems[o]
    BY <1>5 DEF Unsubscribe, trimOrRemove, TypeOK, NewsInv
  <2>2. UNCHANGED <<told, mDataItemCache, updaters>>
    BY <1>5 DEF Unsubscribe, RemoveClient
  <2> QED BY <2>1, <2>2 DEF NewsInv, ToldWasCached, UpToDate, KnowsLatest
<1>6. ASSUME NEW c \in Clients, UnsubscribeAll(c)
      PROVE  ToldWasCached' /\ UpToDate'
  <2>1. \A o \in Clients : mClientToDataItems'[o] \subseteq mClientToDataItems[o]
    BY <1>6 DEF UnsubscribeAll, TypeOK, NewsInv
  <2>2. UNCHANGED <<told, mDataItemCache, updaters>>
    BY <1>6 DEF UnsubscribeAll, RemoveClient
  <2> QED BY <2>1, <2>2 DEF NewsInv, ToldWasCached, UpToDate, KnowsLatest
<1>7. ASSUME NEW news \in [Items -> Values \cup {None}], Notify(news)
      PROVE  ToldWasCached' /\ UpToDate'
  <2> DEFINE changed == {d \in Items : news[d] # None /\ news[d] # mDataItemCache[d]}
             clients == UNION {mDataItemToClients[d] : d \in changed}
  <2>1. \A d \in Items : mDataItemCache'[d] = IF d \in changed THEN news[d] ELSE mDataItemCache[d]
    BY <1>7 DEF Notify
  <2>2. \A c \in Clients, d \in Items :
          told'[c][d] = IF c \in clients /\ d \in changed \cap mClientToDataItems[c]
                        THEN news[d] ELSE told[c][d]
    BY <1>7 DEF Notify
  <2>3. \A d \in changed : news[d] # None /\ d \in Items
    OBVIOUS
  <2>4. \A c \in Clients \ updaters : \A d \in changed \cap mClientToDataItems[c] : c \in clients
    BY <2>3 DEF MapsInverse, NewsInv
  <2>5. mClientToDataItems' = mClientToDataItems /\ updaters' = updaters
    BY <1>7 DEF Notify
  <2>6. \A c \in Clients : mClientToDataItems[c] \subseteq Items
    BY DEF TypeOK, NewsInv
  <2> HIDE DEF changed, clients
  <2>7. ToldWasCached'
    BY <2>1, <2>2, <2>3 DEF ToldWasCached, NewsInv
  <2>8. UpToDate'
    BY <2>1, <2>2, <2>4, <2>5, <2>6 DEF UpToDate, KnowsLatest, NewsInv
  <2> QED BY <2>7, <2>8
<1>8. CASE UNCHANGED vars
  BY <1>8 DEF vars, NewsInv, ToldWasCached, UpToDate, KnowsLatest
<1> QED BY <1>1, <1>2, <1>3, <1>4, <1>5, <1>6, <1>7, <1>8, SomeSets DEF Next

\* No client that never updates its subscription misses the latest value of an item.
THEOREM ClientsStayUpToDate == Spec => []UpToDate
<1>1. Init => NewsInv
  <2> SUFFICES ASSUME Init PROVE NewsInv
    OBVIOUS
  <2>1. TypeOK
    BY InitTypes
  <2>2. MapsInverse /\ UpToDate
    BY DEF Init, MapsInverse, UpToDate, KnowsLatest
  <2>3. ToldWasCached
    BY DEF Init, ToldWasCached
  <2> QED BY <2>1, <2>2, <2>3 DEF NewsInv
<1>2. NewsInv /\ [Next]_vars => NewsInv'
  BY StepTypes, StepInverse, StepNews DEF NewsInv
<1>3. NewsInv => UpToDate
  BY DEF NewsInv
<1> QED BY <1>1, <1>2, <1>3, PTL DEF Spec

-----------------------------------------------------------------------------
(***************************************************************************)
(* The framework follows the map.  Each lemma says what an operation does  *)
(* to the keys.                                                            *)
(***************************************************************************)
LEMMA AddKeys ==
  ASSUME NEW map \in [Items -> SUBSET Clients], NEW c \in Clients, NEW set \in SUBSET Items
  PROVE  getKeys(add(map, set, {c})) = getKeys(map) \cup set
  BY DEF getKeys, add

LEMMA TrimKeys ==
  ASSUME NEW map \in [Items -> SUBSET Clients], NEW c \in Clients, NEW set
  PROVE  getKeys(trimOrRemove(map, set, {c})) = getKeys(map) \ goneKeys(map, set, {c})
  BY DEF getKeys, trimOrRemove, goneKeys

LEMMA RemoveFollows ==
  ASSUME TypeOK, FrameworkFollows, NEW c \in Clients, NEW set, RemoveClient(c, set)
  PROVE  FrameworkFollows'
<1>1. mDataItemToClients' = trimOrRemove(mDataItemToClients, set, {c})
  BY DEF RemoveClient
<1>2. getKeys(mDataItemToClients)' =
        getKeys(mDataItemToClients) \ goneKeys(mDataItemToClients, set, {c})
  <2>1. getKeys(mDataItemToClients)' = getKeys(mDataItemToClients')
    BY DEF getKeys
  <2> QED BY <1>1, <2>1, TrimKeys DEF TypeOK
<1> QED BY <1>2 DEF RemoveClient, unsubscribeInFramework, FrameworkFollows

LEMMA StepFollows == TypeOK /\ FrameworkFollows /\ [Next]_vars => FrameworkFollows'
<1> SUFFICES ASSUME TypeOK, FrameworkFollows, [Next]_vars PROVE FrameworkFollows'
  OBVIOUS
<1> DEFINE K == getKeys(mDataItemToClients)
<1>k. K' = getKeys(mDataItemToClients')
  BY DEF getKeys
<1>1. CASE SetSubscriptionObj
  <2>1. K' = K
    BY <1>1 DEF SetSubscriptionObj, getKeys
  <2> QED BY <1>1, <2>1 DEF SetSubscriptionObj, FrameworkFollows, TypeOK
<1>2. ASSUME NEW c \in Clients, NEW set \in SUBSET Items, Subscribe(c, set)
      PROVE  FrameworkFollows'
  <2>1. K' = K \cup set
    BY <1>2, <1>k, AddKeys DEF Subscribe, AddClient, TypeOK
  <2> QED BY <1>2, <2>1 DEF Subscribe, subscribeInFramework, newKeys, FrameworkFollows
<1>3. ASSUME NEW c \in Clients, NEW set \in SUBSET RequestItems, RequestData(c, set)
      PROVE  FrameworkFollows'
  <2>1. K' = K \cup set
    BY <1>3, <1>k, AddKeys, ItemsAssumption DEF RequestData, AddClient, TypeOK
  <2> QED BY <1>3, <2>1 DEF RequestData, FrameworkFollows
<1>4. ASSUME NEW c \in Clients, NEW set \in SUBSET Items, UpdateSubscription(c, set)
      PROVE  FrameworkFollows'
  <2>1. PICK unused \in intersections(mClientToDataItems[c], set) :
          UpdateSubscription(c, set)!1!(unused)
    BY <1>4 DEF UpdateSubscription
  <2> DEFINE trimmed == trimOrRemove(mDataItemToClients, unused, {c})
             gone == goneKeys(mDataItemToClients, unused, {c})
             opened == newKeys(trimmed, set \ unused)
  <2>2. trimmed \in [Items -> SUBSET Clients]
    BY DEF trimOrRemove, TypeOK
  <2>3. /\ mDataItemToClients' = add(trimmed, set \ unused, {c})
        /\ subscribed' = IF mSubscriptionObj THEN (subscribed \cup opened) \ gone ELSE subscribed
    BY <2>1
  <2>4. mSubscriptionObj' = mSubscriptionObj
    BY <1>4 DEF UpdateSubscription
  <2>5. getKeys(trimmed) = K \ gone
    BY TrimKeys DEF TypeOK
  <2>6. gone \subseteq unused
    BY DEF goneKeys
  <2>7. opened = (set \ unused) \ getKeys(trimmed)
    BY DEF newKeys
  <2>8. K' = getKeys(trimmed) \cup (set \ unused)
    <3> HIDE DEF trimmed, K
    <3> QED BY <1>k, <2>2, <2>3, AddKeys
  <2> HIDE DEF trimmed, gone, opened
  <2> QED BY <2>3, <2>4, <2>5, <2>6, <2>7, <2>8 DEF FrameworkFollows
<1>5. ASSUME NEW c \in Clients, NEW set \in SUBSET Items, Unsubscribe(c, set)
      PROVE  FrameworkFollows'
  BY <1>5, RemoveFollows DEF Unsubscribe
<1>6. ASSUME NEW c \in Clients, UnsubscribeAll(c)
      PROVE  FrameworkFollows'
  BY <1>6, RemoveFollows DEF UnsubscribeAll
<1>7. ASSUME NEW news \in [Items -> Values \cup {None}], Notify(news)
      PROVE  FrameworkFollows'
  BY <1>7 DEF Notify, FrameworkFollows, getKeys
<1>8. CASE UNCHANGED vars
  BY <1>8 DEF vars, FrameworkFollows, getKeys
<1>9. Some(RequestItems) \subseteq SUBSET RequestItems
  BY DEF Some
<1> QED BY <1>1, <1>2, <1>3, <1>4, <1>5, <1>6, <1>7, <1>8, <1>9, SomeSets DEF Next

\* The framework's subscription is the observer's map, up to the items only requested.
THEOREM FrameworkAlwaysFollows == Spec => []FrameworkFollows
<1>1. Init => TypeOK /\ FrameworkFollows
  BY InitTypes DEF Init, FrameworkFollows
<1>2. TypeOK /\ FrameworkFollows /\ [Next]_vars => (TypeOK /\ FrameworkFollows)'
  BY StepTypes, StepFollows
<1> QED BY <1>1, <1>2, PTL DEF Spec

-----------------------------------------------------------------------------
(***************************************************************************)
(* The heap, for any timers and ranks.  Its operations follow paths, of    *)
(* which facts are shown step by step, from one end or from the other.     *)
(***************************************************************************)
\* A set of numbers has a least one.
LEMMA NatMin == ASSUME NEW T, T \subseteq Nat, T # {} PROVE \E m \in T : \A k \in T : m <= k
<1> DEFINE R == OpToRel(<, Nat)
<1>1. \E x \in T : \A y \in T : ~(<<y, x>> \in R)
  <2>1. IsWellFoundedOn(R, Nat)
    BY NatLessThanWellFounded
  <2> HIDE DEF R
  <2> QED  BY <2>1, WFMin
<1>2. PICK x \in T : \A y \in T : ~(<<y, x>> \in R)
  BY <1>1
<1>3. \A y \in T : ~(y < x)
  BY <1>2 DEF OpToRel
<1> QED  BY <1>3

\* What holds at the start of a path and is passed on holds along it.
LEMMA Downwards ==
  ASSUME NEW a \in Nat, NEW k \in Nat, a <= k, NEW S, a \in S, \A n \in a .. k : n < k /\ n \in S => n + 1 \in S
  PROVE  \A n \in a .. k : n \in S
<1> DEFINE bad == {n \in a .. k : n \notin S}
<1> SUFFICES bad = {}
  OBVIOUS
<1> SUFFICES ASSUME bad # {} PROVE FALSE
  OBVIOUS
<1>1. bad \subseteq Nat
  OBVIOUS
<1>2. PICK n \in bad : \A m \in bad : n <= m
  <2> HIDE DEF bad
  <2> QED  BY <1>1, NatMin
<1>3. n \in a .. k /\ n # a /\ n \notin S
  BY <1>2
<1>4. n - 1 \in a .. k /\ n - 1 < k /\ n - 1 \notin bad /\ (n - 1) + 1 = n
  BY <1>2, <1>3
<1>5. n - 1 \in S
  BY <1>4
<1> QED  BY <1>3, <1>4, <1>5

\* What holds at the end of a path and is passed back holds along it.
LEMMA Upwards ==
  ASSUME NEW a \in Nat, NEW k \in Nat, a <= k, NEW S, k \in S, \A n \in a .. k : n < k /\ n + 1 \in S => n \in S
  PROVE  \A n \in a .. k : n \in S
<1> DEFINE T == {j \in a .. k : (a + k) - j \in S}
<1>1. a \in T
  OBVIOUS
<1>2. ASSUME NEW j \in a .. k, j < k, j \in T PROVE j + 1 \in T
  <2>1. (a + k) - (j + 1) \in a .. k /\ (a + k) - (j + 1) < k /\ ((a + k) - (j + 1)) + 1 = (a + k) - j /\ j + 1 \in a .. k
    BY <1>2
  <2> QED  BY <2>1, <1>2
<1>3. \A j \in a .. k : j \in T
  <2> HIDE DEF T
  <2> QED  BY <1>1, <1>2, Downwards
<1>4. ASSUME NEW n \in a .. k PROVE n \in S
  <2>1. (a + k) - n \in a .. k /\ (a + k) - ((a + k) - n) = n
    OBVIOUS
  <2>2. (a + k) - n \in T
    BY <2>1, <1>3
  <2> QED  BY <2>1, <2>2
<1> QED  BY <1>4

\* A place: the sides to take from the top.
Place == Seq(Heap!Sides)

\* The way to a place.
LEMMA Upto ==
  ASSUME NEW p \in Place, NEW n \in 0 .. Len(p)
  PROVE  /\ Len(p) \in Nat /\ n \in Nat /\ n <= Len(p)
         /\ Heap!upTo(p, n) \in Place /\ Len(Heap!upTo(p, n)) = n
         /\ Heap!upTo(p, 0) = <<>> /\ Heap!upTo(p, Len(p)) = p
         /\ \A i \in 1 .. n : Heap!upTo(p, n)[i] = p[i]
<1> DEFINE q == SubSeq(p, 1, n)
<1>1. Len(p) \in Nat /\ n \in Nat /\ n <= Len(p)
  BY DEF Place
<1>2. q \in Seq(Heap!Sides) /\ Len(q) = n /\ \A i \in 1 .. n : q[i] = p[i]
  BY <1>1 DEF Place
<1>3. SubSeq(p, 1, 0) = <<>> /\ SubSeq(p, 1, Len(p)) = p
  BY <1>1 DEF Place
<1> QED  BY <1>1, <1>2, <1>3 DEF Heap!upTo, Place

\* Places with the same way to them are the same.
LEMMA SamePlace ==
  ASSUME NEW p \in Place, NEW q \in Place, Len(p) = Len(q), \A i \in 1 .. Len(p) : p[i] = q[i]
  PROVE  p = q
  BY DEF Place

\* The place one step on.
Child(p, s) == Append(p, s)

LEMMA OneMore ==
  ASSUME NEW p \in Place, NEW s \in Heap!Sides
  PROVE  /\ Child(p, s) \in Place /\ Child(p, s) # <<>> /\ Len(p) \in Nat /\ Len(Child(p, s)) = Len(p) + 1
         /\ Child(p, s)[Len(p) + 1] = s /\ \A i \in 1 .. Len(p) : Child(p, s)[i] = p[i]
         /\ \A n \in 0 .. Len(p) : Heap!upTo(Child(p, s), n) = Heap!upTo(p, n)
<1> DEFINE q == Child(p, s)
<1>1. q \in Place /\ q # <<>> /\ Len(p) \in Nat /\ Len(q) = Len(p) + 1 /\ q[Len(p) + 1] = s /\ \A i \in 1 .. Len(p) : q[i] = p[i]
  BY DEF Place, Child
<1> HIDE DEF q
<1>2. ASSUME NEW n \in 0 .. Len(p) PROVE Heap!upTo(q, n) = Heap!upTo(p, n)
  <2>1. n \in 0 .. Len(q) /\ \A i \in 1 .. n : i \in 1 .. Len(p)
    BY <1>1
  <2>2. /\ Heap!upTo(q, n) \in Place /\ Len(Heap!upTo(q, n)) = n /\ \A i \in 1 .. n : Heap!upTo(q, n)[i] = q[i]
        /\ Heap!upTo(p, n) \in Place /\ Len(Heap!upTo(p, n)) = n /\ \A i \in 1 .. n : Heap!upTo(p, n)[i] = p[i]
    BY <2>1, <1>1, Upto
  <2>3. \A i \in 1 .. n : Heap!upTo(q, n)[i] = Heap!upTo(p, n)[i]
    BY <2>1, <2>2, <1>1
  <2> QED  BY <2>2, <2>3, SamePlace
<1>3. \A n \in 0 .. Len(p) : Heap!upTo(q, n) = Heap!upTo(p, n)
  BY <1>2
<1> QED  BY <1>1, <1>3, Zenon DEF q

\* Two places that are one step beyond two others.
LEMMA SameParent ==
  ASSUME NEW p \in Place, NEW s \in Heap!Sides, NEW q \in Place, NEW r \in Heap!Sides, Child(p, s) = Child(q, r)
  PROVE  p = q /\ s = r
<1>1. Len(p) = Len(q) /\ s = r
  BY OneMore
<1>2. \A i \in 1 .. Len(p) : p[i] = q[i]
  BY <1>1, OneMore
<1> QED  BY <1>1, <1>2, SamePlace

\* The next step of a way.
LEMMA NextStep ==
  ASSUME NEW p \in Place, NEW n \in 0 .. Len(p), n < Len(p)
  PROVE  /\ p[n+1] \in Heap!Sides /\ Heap!upTo(p, n) \in Place /\ n + 1 \in 0 .. Len(p)
         /\ Heap!upTo(p, n + 1) = Child(Heap!upTo(p, n), p[n+1])
<1>1. p[n+1] \in Heap!Sides /\ n + 1 \in 0 .. Len(p) /\ n + 1 \in 1 .. n + 1 /\ \A i \in 1 .. n + 1 : i \in 1 .. n \/ i = n + 1
  BY DEF Place
<1> DEFINE q == Heap!upTo(p, n)
           s == p[n+1]
           r == Heap!upTo(p, n + 1)
<1>2. q \in Place /\ Len(q) = n /\ \A i \in 1 .. n : q[i] = p[i]
  BY Upto
<1>3. r \in Place /\ Len(r) = n + 1 /\ \A i \in 1 .. n + 1 : r[i] = p[i]
  BY <1>1, Upto
<1> HIDE DEF q, r, s
<1>4. /\ Child(q, s) \in Place /\ Len(Child(q, s)) = n + 1 /\ Child(q, s)[n + 1] = s
      /\ \A i \in 1 .. n : Child(q, s)[i] = q[i]
  BY <1>1, <1>2, OneMore DEF s
<1>5. \A i \in 1 .. n + 1 : r[i] = Child(q, s)[i]
  BY <1>1, <1>2, <1>3, <1>4 DEF s
<1>6. r = Child(q, s)
  BY <1>3, <1>4, <1>5, SamePlace
<1> QED  BY <1>1, <1>2, <1>6 DEF q, r, s

\* The way to a place on the way.
LEMMA UptoUpto ==
  ASSUME NEW p \in Place, NEW n \in 0 .. Len(p), NEW m \in 0 .. n
  PROVE  Heap!upTo(Heap!upTo(p, n), m) = Heap!upTo(p, m)
<1> DEFINE q == Heap!upTo(p, n)
<1>1. q \in Place /\ Len(q) = n /\ (\A i \in 1 .. n : q[i] = p[i]) /\ Len(p) \in Nat /\ n <= Len(p) /\ n \in Nat
  BY Upto
<1>2. m \in 0 .. Len(p) /\ m \in 0 .. Len(q) /\ \A i \in 1 .. m : i \in 1 .. n
  BY <1>1
<1> HIDE DEF q
<1>3. /\ Heap!upTo(q, m) \in Place /\ Len(Heap!upTo(q, m)) = m /\ \A i \in 1 .. m : Heap!upTo(q, m)[i] = q[i]
      /\ Heap!upTo(p, m) \in Place /\ Len(Heap!upTo(p, m)) = m /\ \A i \in 1 .. m : Heap!upTo(p, m)[i] = p[i]
  BY <1>1, <1>2, Upto
<1>4. \A i \in 1 .. m : Heap!upTo(q, m)[i] = Heap!upTo(p, m)[i]
  BY <1>1, <1>2, <1>3
<1>5. Heap!upTo(q, m) = Heap!upTo(p, m)
  BY <1>3, <1>4, SamePlace
<1> QED  BY <1>5 DEF q

\* A prefix is a place on the way.
LEMMA Prefixes ==
  ASSUME NEW p \in Place, NEW q \in Place
  PROVE  Heap!IsPrefix(q, p) <=> Len(q) <= Len(p) /\ q = Heap!upTo(p, Len(q))
<1>1. SubSeq(q, 1, Len(q)) = q /\ Len(q) \in Nat /\ Len(p) \in Nat
  BY DEF Place
<1> QED  BY <1>1 DEF Heap!IsPrefix, Heap!upTo

\* The places on the way to a place.
LEMMA OnTheWay ==
  ASSUME NEW w \in Place, NEW n \in 0 .. Len(w)
  PROVE  Heap!IsPrefix(Heap!upTo(w, n), w) /\ Heap!upTo(w, n) \in Place /\ Len(Heap!upTo(w, n)) = n
<1> DEFINE q == Heap!upTo(w, n)
<1>1. q \in Place /\ Len(q) = n /\ n <= Len(w)
  BY Upto
<1>2. q = Heap!upTo(w, Len(q))
  BY <1>1
<1> HIDE DEF q
<1>3. Heap!IsPrefix(q, w)
  BY <1>1, <1>2, Prefixes
<1> QED  BY <1>1, <1>3 DEF q

\* A prefix is met after as many steps as it is long.
LEMMA OnIsUpto ==
  ASSUME NEW w \in Place, NEW p \in Place, Heap!IsPrefix(p, w)
  PROVE  /\ Len(p) \in 0 .. Len(w) /\ Len(p) \in Nat /\ Len(w) \in Nat /\ Len(p) <= Len(w)
         /\ p = Heap!upTo(w, Len(p)) /\ (Len(p) = Len(w) => p = w)
<1>1. Len(p) <= Len(w) /\ p = Heap!upTo(w, Len(p)) /\ Len(p) \in Nat /\ Len(w) \in Nat
  BY Prefixes DEF Place
<1>2. Len(w) \in 0 .. Len(w) /\ Len(p) \in 0 .. Len(w)
  BY <1>1
<1>3. Heap!upTo(w, Len(w)) = w
  BY <1>2, Upto
<1> QED  BY <1>1, <1>2, <1>3

\* The way to a place ends there.
LEMMA OnItself == ASSUME NEW w \in Place PROVE Heap!IsPrefix(w, w) /\ Len(w) \in Nat
<1>1. Len(w) \in Nat /\ Len(w) \in 0 .. Len(w)
  BY DEF Place
<1> QED  BY <1>1, Upto, OnTheWay

\* The way goes on to one side.
LEMMA OnOneSide ==
  ASSUME NEW w \in Place, NEW p \in Place, NEW s \in Heap!Sides
  PROVE  Heap!IsPrefix(Child(p, s), w) <=> Heap!IsPrefix(p, w) /\ Len(p) < Len(w) /\ s = w[Len(p) + 1]
<1> DEFINE q == Child(p, s)
           n == Len(p)
<1>1. q \in Place /\ n \in Nat /\ Len(w) \in Nat /\ Len(q) = n + 1 /\ q = Child(p, s)
  BY OneMore DEF Place
<1>a. Heap!upTo(q, n) = p
  <2>1. n \in 0 .. n
    BY <1>1
  <2>2. Heap!upTo(q, n) = Heap!upTo(p, n)
    BY <2>1, OneMore
  <2>3. Heap!upTo(p, n) = p
    BY <2>1, Upto
  <2> QED  BY <2>2, <2>3
<1> HIDE DEF q
<1>2. ASSUME Heap!IsPrefix(q, w) PROVE Heap!IsPrefix(p, w) /\ n < Len(w) /\ s = w[n + 1]
  <2>1. n + 1 \in 0 .. Len(w) /\ q = Heap!upTo(w, n + 1)
    BY <1>1, <1>2, OnIsUpto
  <2>2. n < Len(w) /\ n \in 0 .. Len(w) /\ n \in 0 .. n + 1
    BY <1>1, <2>1
  <2>3. Heap!upTo(q, n) = Heap!upTo(w, n)
    BY <2>1, <2>2, UptoUpto
  <2>4. p = Heap!upTo(w, n)
    BY <2>3, <1>a
  <2>5. Heap!IsPrefix(p, w)
    BY <2>4, <2>2, OnTheWay
  <2>6. w[n + 1] \in Heap!Sides /\ q = Child(p, w[n + 1])
    BY <2>1, <2>2, <2>4, NextStep
  <2>7. Child(p, s) = Child(p, w[n + 1])
    BY <2>6, <1>1
  <2>8. s = w[n + 1]
    <3> DEFINE r == w[n + 1]
    <3>1. r \in Heap!Sides /\ Child(p, s) = Child(p, r)
      BY <2>6, <2>7
    <3> HIDE DEF r
    <3>2. p = p /\ s = r
      BY <3>1, SameParent
    <3> QED  BY <3>2 DEF r
  <2> QED  BY <2>2, <2>5, <2>8
<1>3. ASSUME Heap!IsPrefix(p, w), n < Len(w), s = w[n + 1] PROVE Heap!IsPrefix(q, w)
  <2>1. n \in 0 .. Len(w) /\ p = Heap!upTo(w, n)
    BY <1>1, <1>3, OnIsUpto
  <2>2. n + 1 \in 0 .. Len(w) /\ Heap!upTo(w, n + 1) = Child(p, s)
    BY <2>1, <1>3, NextStep
  <2> QED  BY <2>2, <1>1, OnTheWay
<1> QED  BY <1>2, <1>3 DEF q

\* One of two places on a way is on the way to the other.
LEMMA OnOneWay ==
  ASSUME NEW w \in Place, NEW p \in Place, NEW q \in Place, Heap!IsPrefix(p, w), Heap!IsPrefix(q, w)
  PROVE  Heap!IsPrefix(p, q) <=> Len(p) <= Len(q)
<1>1. /\ Len(p) \in 0 .. Len(w) /\ p = Heap!upTo(w, Len(p)) /\ Len(q) \in 0 .. Len(w) /\ q = Heap!upTo(w, Len(q))
      /\ Len(p) \in Nat /\ Len(q) \in Nat
  BY OnIsUpto
<1>2. ASSUME Len(p) <= Len(q) PROVE Heap!IsPrefix(p, q)
  <2>1. Len(p) \in 0 .. Len(q)
    BY <1>1, <1>2
  <2>2. Heap!upTo(q, Len(p)) = p
    BY <1>1, <2>1, UptoUpto
  <2> QED  BY <2>1, <2>2, OnTheWay
<1> QED  BY <1>2, OnIsUpto

-----------------------------------------------------------------------------
(***************************************************************************)
(* Trees.                                                                  *)
(***************************************************************************)
\* The size of the subtree at p, and the data of a tree.
SizeAt(t, p) == IF p \in DOMAIN t THEN t[p].mSize ELSE 0
Content(t) == {t[p].mData : p \in DOMAIN t}

\* The data are timers, no place is deeper than some depth, and every place is reached from the top.
Typed(t) == t \in [DOMAIN t -> [mData : Timers, mSize : Int]] /\ DOMAIN t \subseteq Place
Bounded(t) == \E k \in Nat : \A p \in DOMAIN t : Len(p) <= k
Reached(t) == \A p \in Place : \A s \in Heap!Sides : Child(p, s) \in DOMAIN t => p \in DOMAIN t
Distinct(t) == \A p, q \in DOMAIN t : t[p].mData = t[q].mData => p = q
Ordered(t) == \A p \in DOMAIN t : \A s \in Heap!Sides :
                Child(p, s) \in DOMAIN t => Rank[t[Child(p, s)].mData] <= Rank[t[p].mData]
Sized(t) == \A p \in DOMAIN t : t[p].mSize = 1 + SizeAt(t, Child(p, "mLeft")) + SizeAt(t, Child(p, "mRight"))

Tree(t) == Typed(t) /\ Bounded(t) /\ Reached(t) /\ Distinct(t) /\ Ordered(t) /\ Sized(t)

\* Ranks are numbers.
LEMMA Ranks == \A x \in Timers : Rank[x] \in Int
  BY PlatformAssumption DEF Heap!Queue!RankAssumption

\* What is known of a node.
LEMMA NodeTypes ==
  ASSUME NEW t, Typed(t), NEW p \in DOMAIN t
  PROVE  /\ p \in Place /\ t[p].mData \in Timers /\ t[p].mSize \in Int /\ Rank[t[p].mData] \in Int
         /\ t[p] = [mData |-> t[p].mData, mSize |-> t[p].mSize]
<1>1. p \in Place /\ t[p] \in [mData : Timers, mSize : Int]
  BY DEF Typed
<1> QED  BY <1>1, Ranks

\* The way to a place of the tree is in the tree ...
LEMMA WayIn ==
  ASSUME NEW t, Typed(t), Reached(t), NEW p \in DOMAIN t, NEW n \in 0 .. Len(p)
  PROVE  Heap!upTo(p, n) \in DOMAIN t
<1>1. p \in Place /\ Len(p) \in Nat
  BY NodeTypes DEF Place
<1> DEFINE S == {m \in 0 .. Len(p) : Heap!upTo(p, m) \in DOMAIN t}
<1>2. Len(p) \in S
  <2>1. Len(p) \in 0 .. Len(p)
    BY <1>1
  <2>2. Heap!upTo(p, Len(p)) = p
    BY <2>1, <1>1, Upto
  <2> QED  BY <2>1, <2>2
<1>3. ASSUME NEW m \in 0 .. Len(p), m < Len(p), m + 1 \in S PROVE m \in S
  <2>1. p[m+1] \in Heap!Sides /\ Heap!upTo(p, m) \in Place /\ Heap!upTo(p, m + 1) = Child(Heap!upTo(p, m), p[m+1])
    BY <1>1, <1>3, NextStep
  <2>2. Heap!upTo(p, m + 1) \in DOMAIN t
    BY <1>3
  <2>3. Child(Heap!upTo(p, m), p[m+1]) \in DOMAIN t
    BY <2>1, <2>2
  <2> QED  BY <2>1, <2>3 DEF Reached
<1>4. \A m \in 0 .. Len(p) : m \in S
  <2> HIDE DEF S
  <2>1. 0 \in Nat /\ 0 <= Len(p) /\ Len(p) \in Nat
    BY <1>1
  <2> QED  BY <2>1, <1>2, <1>3, Upwards
<1> QED  BY <1>4

\* ... and along it ranks do not rise.
LEMMA RanksFall ==
  ASSUME NEW t, Typed(t), Reached(t), Ordered(t), NEW p \in DOMAIN t, NEW m \in 0 .. Len(p)
  PROVE  Rank[t[p].mData] <= Rank[t[Heap!upTo(p, m)].mData]
<1> DEFINE d(n) == Rank[t[Heap!upTo(p, n)].mData]
           S == {n \in m .. Len(p) : d(n) <= d(m)}
<1>1. p \in Place /\ Len(p) \in Nat /\ m \in Nat /\ m <= Len(p) /\ m \in m .. Len(p) /\ Len(p) \in m .. Len(p)
  BY NodeTypes DEF Place
<1>2. \A n \in 0 .. Len(p) : Heap!upTo(p, n) \in DOMAIN t /\ d(n) \in Int
  BY WayIn, NodeTypes
<1>3. ASSUME NEW n \in m .. Len(p), n < Len(p), n \in S PROVE n + 1 \in S
  <2>1. n \in 0 .. Len(p) /\ n + 1 \in 0 .. Len(p) /\ n + 1 \in m .. Len(p)
    BY <1>1, <1>3
  <2>2. p[n+1] \in Heap!Sides /\ Heap!upTo(p, n + 1) = Child(Heap!upTo(p, n), p[n+1])
    BY <1>1, <1>3, <2>1, NextStep
  <2>3. d(n + 1) <= d(n)
    BY <2>1, <2>2, <1>2 DEF Ordered
  <2>4. d(n) <= d(m) /\ d(n) \in Int /\ d(n + 1) \in Int /\ d(m) \in Int
    BY <1>2, <1>3, <2>1
  <2> HIDE DEF d
  <2> QED  BY <2>1, <2>3, <2>4
<1>4. m \in S
  BY <1>1, <1>2
<1>5. Len(p) \in S
  <2> HIDE DEF S
  <2> QED  BY <1>1, <1>3, <1>4, Downwards
<1>6. Heap!upTo(p, Len(p)) = p
  <2>1. Len(p) \in 0 .. Len(p)
    BY <1>1
  <2> QED  BY <2>1, <1>1, Upto
<1> QED  BY <1>5, <1>6

\* Of some places of bounded depth one is deepest.
LEMMA Deepest ==
  ASSUME NEW t, Typed(t), Bounded(t), NEW G, G \subseteq DOMAIN t, G # {}
  PROVE  \E p \in G : \A q \in G : Len(q) <= Len(p)
<1>1. PICK k \in Nat : \A p \in DOMAIN t : Len(p) <= k
  BY DEF Bounded
<1>2. \A p \in G : Len(p) \in Nat /\ Len(p) <= k
  BY <1>1, NodeTypes DEF Place
<1> DEFINE T == {k - Len(p) : p \in G}
<1>3. T \subseteq Nat /\ T # {}
  BY <1>2
<1>4. PICK m \in T : \A j \in T : m <= j
  <2> HIDE DEF T
  <2> QED  BY <1>3, NatMin
<1>5. PICK p \in G : m = k - Len(p)
  BY <1>4
<1>6. ASSUME NEW q \in G PROVE Len(q) <= Len(p)
  <2>1. m <= k - Len(q)
    BY <1>4
  <2> QED  BY <2>1, <1>5, <1>2
<1> QED  BY <1>6

-----------------------------------------------------------------------------
(***************************************************************************)
(* A push: data sinks along the way to a new place.                        *)
(***************************************************************************)
\* The data n steps on the way, and the data that stays there.
Along(t, w, n) == t[Heap!upTo(w, n)].mData
Stays(t, w, low, n) == Heap!swap(Along(t, w, n), low[n])[1]

\* A place that is not in the tree though the way to it is.
NewIn(t, w) == w \in Place /\ w \notin DOMAIN t /\ \A n \in 0 .. Len(w) : n < Len(w) => Heap!upTo(w, n) \in DOMAIN t

\* low[n] is the data that comes to the place n steps on the way when x is pushed.
Sinks(t, w, low, x) ==
  low[0] = x /\ \A n \in 0 .. Len(w) : n < Len(w) => low[n + 1] = Heap!swap(Along(t, w, n), low[n])[2]

\* The tree u is t after that push.
Pushed(t, u, w, low) ==
  /\ DOMAIN u = DOMAIN t \cup {w}
  /\ u = [p \in DOMAIN u |-> u[p]]
  /\ u[w] = [mData |-> low[Len(w)], mSize |-> 1]
  /\ \A p \in DOMAIN t :
       u[p] = IF Heap!IsPrefix(p, w) THEN [mData |-> Stays(t, w, low, Len(p)), mSize |-> t[p].mSize + 1] ELSE t[p]

\* Of two data the one that outranks the other stays.
LEMMA Swaps ==
  ASSUME NEW a \in Timers, NEW b \in Timers
  PROVE  LET hi == Heap!swap(a, b)[1]
             lo == Heap!swap(a, b)[2]
         IN /\ (hi = a /\ lo = b) \/ (hi = b /\ lo = a)
            /\ Rank[lo] <= Rank[hi] /\ Rank[a] <= Rank[hi] /\ Rank[b] <= Rank[hi]
  BY Ranks DEF Heap!swap, Heap!outRanks

\* Timers sink.
LEMMA SinkingTypes ==
  ASSUME NEW t, NEW w, NEW low, NEW x \in Timers, Typed(t), NewIn(t, w), Sinks(t, w, low, x), NEW n \in 0 .. Len(w)
  PROVE  low[n] \in Timers
<1> DEFINE S == {m \in 0 .. Len(w) : low[m] \in Timers}
<1>1. Len(w) \in Nat /\ 0 \in Nat /\ 0 <= Len(w)
  BY DEF NewIn, Place
<1>2. 0 \in S
  BY <1>1 DEF Sinks
<1>3. ASSUME NEW m \in 0 .. Len(w), m < Len(w), m \in S PROVE m + 1 \in S
  <2>1. Along(t, w, m) \in Timers
    BY <1>3, NodeTypes DEF Along, NewIn
  <2>2. Heap!swap(Along(t, w, m), low[m])[2] \in Timers
    BY <2>1, <1>3, Swaps
  <2> QED  BY <2>2, <1>1, <1>3 DEF Sinks
<1>4. \A m \in 0 .. Len(w) : m \in S
  <2> HIDE DEF S
  <2> QED  BY <1>1, <1>2, <1>3, Downwards
<1> QED  BY <1>4

\* A step: of the data that comes and the data that is there, one stays and the other sinks.
LEMMA SinkingStep ==
  ASSUME NEW t, NEW w, NEW low, NEW x \in Timers, Typed(t), NewIn(t, w), Sinks(t, w, low, x),
         NEW n \in 0 .. Len(w), n < Len(w)
  PROVE  LET a == Along(t, w, n)
             b == low[n]
             hi == Stays(t, w, low, n)
             lo == low[n + 1]
         IN /\ a \in Timers /\ b \in Timers /\ hi \in Timers /\ lo \in Timers /\ n + 1 \in 0 .. Len(w)
            /\ (hi = a /\ lo = b) \/ (hi = b /\ lo = a)
            /\ Rank[lo] <= Rank[hi] /\ Rank[a] <= Rank[hi]
            /\ Heap!upTo(w, n) \in DOMAIN t
<1> DEFINE a == Along(t, w, n)
           b == low[n]
<1>1. Heap!upTo(w, n) \in DOMAIN t
  BY DEF NewIn
<1>2. a \in Timers /\ b \in Timers /\ n + 1 \in 0 .. Len(w)
  BY <1>1, NodeTypes, SinkingTypes DEF Along, NewIn, Place
<1>3. low[n + 1] = Heap!swap(a, b)[2] /\ Stays(t, w, low, n) = Heap!swap(a, b)[1]
  BY DEF Sinks, Stays
<1> HIDE DEF a, b
<1>4. LET hi == Heap!swap(a, b)[1]
          lo == Heap!swap(a, b)[2]
      IN /\ (hi = a /\ lo = b) \/ (hi = b /\ lo = a)
         /\ Rank[lo] <= Rank[hi] /\ Rank[a] <= Rank[hi] /\ Rank[b] <= Rank[hi]
  BY <1>2, Swaps
<1> QED  BY <1>1, <1>2, <1>3, <1>4 DEF a, b

\* What sinks is the new data or was above; so it is nowhere else.
LEMMA SinkingFrom ==
  ASSUME NEW t, NEW w, NEW low, NEW x \in Timers, Tree(t), x \notin Content(t), NewIn(t, w), Sinks(t, w, low, x),
         NEW n \in 0 .. Len(w), NEW p \in DOMAIN t, Heap!IsPrefix(p, w) => n <= Len(p)
  PROVE  low[n] # t[p].mData
<1>1. Typed(t) /\ Distinct(t) /\ Len(w) \in Nat /\ w \in Place /\ p \in Place /\ Len(p) \in Nat /\ n \in Nat
  BY NodeTypes DEF Tree, NewIn, Place
<1> DEFINE S == {m \in 0 .. n : low[m] # t[p].mData}
<1>2. 0 \in S
  BY <1>1 DEF Content, Sinks
<1>3. ASSUME NEW m \in 0 .. n, m < n, m \in S PROVE m + 1 \in S
  <2>1. m \in 0 .. Len(w) /\ m < Len(w) /\ m + 1 \in 0 .. n
    BY <1>1, <1>3
  <2>2. low[m + 1] = Along(t, w, m) \/ low[m + 1] = low[m]
    BY <2>1, <1>1, SinkingStep
  <2>3. Along(t, w, m) # t[p].mData
    <3>1. Heap!upTo(w, m) \in DOMAIN t
      BY <2>1, <1>1, SinkingStep
    <3>2. Heap!upTo(w, m) # p
      <4>1. Heap!IsPrefix(Heap!upTo(w, m), w) /\ Len(Heap!upTo(w, m)) = m
        BY <2>1, <1>1, OnTheWay
      <4> QED  BY <4>1, <1>1, <1>3
    <3> QED  BY <3>1, <3>2, <1>1 DEF Along, Distinct
  <2> QED  BY <2>1, <2>2, <2>3, <1>3
<1>4. n \in S
  <2>1. 0 \in Nat /\ n \in Nat /\ 0 <= n /\ n \in 0 .. n
    BY <1>1
  <2> HIDE DEF S
  <2> QED  BY <2>1, <1>2, <1>3, Downwards
<1> QED  BY <1>4

\* What stays does not sink on.
LEMMA StaysAbove ==
  ASSUME NEW t, NEW w, NEW low, NEW x \in Timers, Tree(t), x \notin Content(t), NewIn(t, w), Sinks(t, w, low, x),
         NEW m \in 0 .. Len(w), NEW n \in 0 .. Len(w), m < n
  PROVE  /\ Stays(t, w, low, m) # low[n]
         /\ n < Len(w) => Stays(t, w, low, m) # Along(t, w, n)
<1>1. Typed(t) /\ Distinct(t) /\ Len(w) \in Nat /\ w \in Place /\ m \in Nat /\ n \in Nat /\ m < Len(w)
  BY DEF Tree, NewIn, Place
<1> DEFINE hi == Stays(t, w, low, m)
<1>a. \A k \in 0 .. Len(w) : k < Len(w) =>
        Heap!IsPrefix(Heap!upTo(w, k), w) /\ Heap!upTo(w, k) \in DOMAIN t /\ Len(Heap!upTo(w, k)) = k
  BY <1>1, OnTheWay DEF NewIn
<1>2. ASSUME NEW k \in 0 .. Len(w), m < k, k < Len(w) PROVE hi # Along(t, w, k)
  <2>1. hi = Along(t, w, m) \/ hi = low[m]
    BY <1>1, SinkingStep
  <2>2. Along(t, w, m) # Along(t, w, k)
    BY <1>a, <1>1, <1>2 DEF Along, Distinct
  <2>3. low[m] # t[Heap!upTo(w, k)].mData
    BY <1>a, <1>1, <1>2, SinkingFrom
  <2> QED  BY <2>1, <2>2, <2>3 DEF Along
<1> DEFINE S == {k \in m + 1 .. n : hi # low[k]}
<1>3. m + 1 \in S
  <2>1. (hi = Along(t, w, m) /\ low[m + 1] = low[m]) \/ (hi = low[m] /\ low[m + 1] = Along(t, w, m))
    BY <1>1, SinkingStep
  <2>2. low[m] # t[Heap!upTo(w, m)].mData
    BY <1>a, <1>1, SinkingFrom
  <2> QED  BY <1>1, <2>1, <2>2 DEF Along
<1>4. ASSUME NEW k \in m + 1 .. n, k < n, k \in S PROVE k + 1 \in S
  <2>1. k \in 0 .. Len(w) /\ k < Len(w) /\ m < k /\ k + 1 \in m + 1 .. n
    BY <1>1, <1>4
  <2>2. low[k + 1] = Along(t, w, k) \/ low[k + 1] = low[k]
    BY <2>1, <1>1, SinkingStep
  <2> QED  BY <2>1, <2>2, <1>2, <1>4
<1>5. n \in S
  <2>1. m + 1 \in Nat /\ n \in Nat /\ m + 1 <= n /\ n \in m + 1 .. n
    BY <1>1
  <2> HIDE DEF S
  <2> QED  BY <2>1, <1>3, <1>4, Downwards
<1> QED  BY <1>2, <1>5

\* A push of new data into a tree.
Pushing(t, u, w, low, x) ==
  Tree(t) /\ x \in Timers /\ x \notin Content(t) /\ NewIn(t, w) /\ Sinks(t, w, low, x) /\ Pushed(t, u, w, low)

\* A place after the push is the new one, or one on the way to it, or as it was.
LEMMA PushedNodes ==
  ASSUME NEW t, NEW u, NEW w, NEW low, NEW x, Pushing(t, u, w, low, x)
  PROVE  /\ w \in DOMAIN u /\ w \in Place /\ Len(w) \in Nat /\ u[w].mData = low[Len(w)] /\ u[w].mSize = 1 /\ low[Len(w)] \in Timers
         /\ \A p \in DOMAIN u : p \in Place /\ Len(p) \in Nat /\ (p # w => p \in DOMAIN t)
         /\ \A p \in DOMAIN t : p \in DOMAIN u /\ p # w
         /\ \A p \in DOMAIN t : ~Heap!IsPrefix(p, w) => u[p] = t[p]
         /\ \A p \in DOMAIN t : Heap!IsPrefix(p, w) =>
              /\ Len(p) \in 0 .. Len(w) /\ Len(p) < Len(w)
              /\ t[p].mData = Along(t, w, Len(p)) /\ u[p].mData = Stays(t, w, low, Len(p)) /\ u[p].mSize = t[p].mSize + 1
              /\ u[p].mData \in Timers
<1>1. Typed(t) /\ NewIn(t, w) /\ Sinks(t, w, low, x) /\ x \in Timers /\ Pushed(t, u, w, low) /\ w \in Place /\ w \notin DOMAIN t
  BY DEF Pushing, Tree, NewIn
<1>2. Len(w) \in Nat /\ Len(w) \in 0 .. Len(w)
  BY <1>1 DEF Place
<1>3. \A p \in DOMAIN t : p \in Place /\ Len(p) \in Nat
  BY <1>1, NodeTypes DEF Place
<1>4. w \in DOMAIN u /\ u[w].mData = low[Len(w)] /\ u[w].mSize = 1
  BY <1>1 DEF Pushed
<1>5. low[Len(w)] \in Timers
  BY <1>1, <1>2, SinkingTypes
<1>6. \A p \in DOMAIN u : p \in Place /\ Len(p) \in Nat /\ (p # w => p \in DOMAIN t)
  BY <1>1, <1>2, <1>3 DEF Pushed
<1>7. \A p \in DOMAIN t : p \in DOMAIN u /\ p # w /\ (~Heap!IsPrefix(p, w) => u[p] = t[p])
  BY <1>1 DEF Pushed
<1>8. ASSUME NEW p \in DOMAIN t, Heap!IsPrefix(p, w)
      PROVE  /\ Len(p) \in 0 .. Len(w) /\ Len(p) < Len(w)
             /\ t[p].mData = Along(t, w, Len(p)) /\ u[p].mData = Stays(t, w, low, Len(p)) /\ u[p].mSize = t[p].mSize + 1
             /\ u[p].mData \in Timers
  <2>1. Len(p) \in 0 .. Len(w) /\ Len(p) <= Len(w) /\ p = Heap!upTo(w, Len(p)) /\ Len(p) # Len(w) /\ p # w
    BY <1>1, <1>3, <1>8, OnIsUpto
  <2>2. u[p] = [mData |-> Stays(t, w, low, Len(p)), mSize |-> t[p].mSize + 1]
    BY <1>1, <1>8 DEF Pushed
  <2>3. Len(p) < Len(w)
    BY <2>1, <1>2, <1>3
  <2>4. Stays(t, w, low, Len(p)) \in Timers
    BY <1>1, <2>1, <2>3, SinkingStep
  <2>5. t[p].mData = Along(t, w, Len(p))
    BY <2>1 DEF Along
  <2> QED  BY <2>1, <2>2, <2>3, <2>4, <2>5
<1> QED  BY <1>1, <1>2, <1>4, <1>5, <1>6, <1>7, <1>8

\* A push adds one place, reached from the top.
LEMMA PushedShape ==
  ASSUME NEW t, NEW u, NEW w, NEW low, NEW x, Pushing(t, u, w, low, x)
  PROVE  Typed(u) /\ Bounded(u) /\ Reached(u)
<1>1. Tree(t) /\ NewIn(t, w) /\ Pushed(t, u, w, low)
  BY DEF Pushing
<1>2. Typed(u)
  <2>1. ASSUME NEW p \in DOMAIN u PROVE p \in Place /\ u[p] \in [mData : Timers, mSize : Int]
    <3>1. CASE p = w
      BY <1>1, <3>1, PushedNodes DEF Pushed
    <3>2. CASE p # w /\ ~Heap!IsPrefix(p, w)
      BY <1>1, <3>2, PushedNodes DEF Tree, Typed
    <3>3. CASE p # w /\ Heap!IsPrefix(p, w)
      <4>1. p \in DOMAIN t /\ p \in Place
        BY <3>3, PushedNodes
      <4>2. u[p] = [mData |-> Stays(t, w, low, Len(p)), mSize |-> t[p].mSize + 1] /\ u[p].mData \in Timers
        BY <1>1, <3>3, <4>1, PushedNodes DEF Pushed
      <4>3. t[p].mSize \in Int
        BY <1>1, <4>1, NodeTypes DEF Tree
      <4> QED  BY <4>1, <4>2, <4>3
    <3> QED  BY <3>1, <3>2, <3>3
  <2>2. u = [p \in DOMAIN u |-> u[p]]
    BY <1>1 DEF Pushed
  <2> QED  BY <2>1, <2>2 DEF Typed
<1>3. Bounded(u)
  <2>1. PICK k \in Nat : \A p \in DOMAIN t : Len(p) <= k
    BY <1>1 DEF Tree, Bounded
  <2>2. k + Len(w) \in Nat /\ \A p \in DOMAIN u : Len(p) <= k + Len(w)
    BY <2>1, PushedNodes
  <2> QED  BY <2>2 DEF Bounded
<1>4. ASSUME NEW p \in Place, NEW s \in Heap!Sides, Child(p, s) \in DOMAIN u PROVE p \in DOMAIN u
  <2>1. CASE Child(p, s) \in DOMAIN t
    BY <1>1, <2>1, PushedNodes DEF Tree, Reached
  <2>2. CASE Child(p, s) = w
    <3>1. Heap!IsPrefix(p, w) /\ Len(p) < Len(w)
      <4>1. w \in Place /\ Heap!IsPrefix(Child(p, s), w)
        BY <1>1, <2>2, OnItself DEF NewIn
      <4> QED  BY <4>1, OnOneSide
    <3>2. Len(p) \in 0 .. Len(w) /\ p = Heap!upTo(w, Len(p))
      BY <1>1, <3>1, OnIsUpto DEF NewIn
    <3>3. p \in DOMAIN t
      BY <1>1, <3>1, <3>2 DEF NewIn
    <3> QED  BY <3>3, PushedNodes
  <2> QED  BY <1>1, <1>4, <2>1, <2>2 DEF Pushed
<1> QED  BY <1>2, <1>3, <1>4 DEF Reached

\* Nothing is lost, and nothing but the new data comes.
LEMMA PushedContent ==
  ASSUME NEW t, NEW u, NEW w, NEW low, NEW x, Pushing(t, u, w, low, x)
  PROVE  Content(u) = Content(t) \cup {x}
<1>1. Typed(t) /\ NewIn(t, w) /\ Pushed(t, u, w, low) /\ x \in Timers /\ Sinks(t, w, low, x)
  BY DEF Pushing, Tree
<1>a. Len(w) \in Nat /\ 0 \in Nat /\ 0 <= Len(w) /\ w \in Place /\ Len(w) \in 0 .. Len(w)
  BY <1>1, PushedNodes
<1>b. ASSUME NEW n \in 0 .. Len(w), n < Len(w)
      PROVE  Along(t, w, n) \in Content(t) /\ Stays(t, w, low, n) \in Content(u)
  <2>1. Heap!upTo(w, n) \in DOMAIN t
    BY <1>1, <1>b DEF NewIn
  <2>2. Heap!IsPrefix(Heap!upTo(w, n), w) /\ Len(Heap!upTo(w, n)) = n
    BY <1>a, OnTheWay
  <2>3. u[Heap!upTo(w, n)].mData = Stays(t, w, low, n) /\ Heap!upTo(w, n) \in DOMAIN u
    BY <2>1, <2>2, PushedNodes
  <2> QED  BY <2>1, <2>3 DEF Along, Content
<1>2. \A n \in 0 .. Len(w) : low[n] \in Content(t) \cup {x}
  <2> DEFINE S == {n \in 0 .. Len(w) : low[n] \in Content(t) \cup {x}}
  <2>1. 0 \in S
    BY <1>1, <1>a DEF Sinks
  <2>2. ASSUME NEW n \in 0 .. Len(w), n < Len(w), n \in S PROVE n + 1 \in S
    <3>1. n + 1 \in 0 .. Len(w) /\ (low[n + 1] = Along(t, w, n) \/ low[n + 1] = low[n])
      BY <1>1, <2>2, SinkingStep
    <3> QED  BY <3>1, <1>b, <2>2
  <2>3. \A n \in 0 .. Len(w) : n \in S
    <3> HIDE DEF S
    <3> QED  BY <1>a, <2>1, <2>2, Downwards
  <2> QED  BY <2>3
<1>3. \A n \in 0 .. Len(w) : low[n] \in Content(u)
  <2> DEFINE S == {n \in 0 .. Len(w) : low[n] \in Content(u)}
  <2>1. Len(w) \in S
    BY <1>a, PushedNodes DEF Content
  <2>2. ASSUME NEW n \in 0 .. Len(w), n < Len(w), n + 1 \in S PROVE n \in S
    <3>1. low[n] = Stays(t, w, low, n) \/ low[n] = low[n + 1]
      BY <1>1, <2>2, SinkingStep
    <3> QED  BY <3>1, <1>b, <2>2
  <2>3. \A n \in 0 .. Len(w) : n \in S
    <3> HIDE DEF S
    <3> QED  BY <1>a, <2>1, <2>2, Upwards
  <2> QED  BY <2>3
<1>4. ASSUME NEW p \in DOMAIN u PROVE u[p].mData \in Content(t) \cup {x}
  <2>1. CASE p = w
    BY <2>1, <1>2, <1>a, PushedNodes
  <2>2. CASE p # w /\ ~Heap!IsPrefix(p, w)
    BY <2>2, PushedNodes DEF Content
  <2>3. CASE p # w /\ Heap!IsPrefix(p, w)
    <3>1. p \in DOMAIN t /\ Len(p) \in 0 .. Len(w) /\ Len(p) < Len(w) /\ u[p].mData = Stays(t, w, low, Len(p))
      BY <2>3, PushedNodes
    <3>2. Stays(t, w, low, Len(p)) = Along(t, w, Len(p)) \/ Stays(t, w, low, Len(p)) = low[Len(p)]
      BY <3>1, <1>1, SinkingStep
    <3> QED  BY <3>1, <3>2, <1>b, <1>2
  <2> QED  BY <2>1, <2>2, <2>3
<1>5. ASSUME NEW p \in DOMAIN t PROVE t[p].mData \in Content(u)
  <2>1. CASE ~Heap!IsPrefix(p, w)
    BY <2>1, PushedNodes DEF Content
  <2>2. CASE Heap!IsPrefix(p, w)
    <3>1. Len(p) \in 0 .. Len(w) /\ Len(p) < Len(w) /\ t[p].mData = Along(t, w, Len(p)) /\ Len(p) + 1 \in 0 .. Len(w)
      BY <2>2, PushedNodes
    <3>2. Along(t, w, Len(p)) = Stays(t, w, low, Len(p)) \/ Along(t, w, Len(p)) = low[Len(p) + 1]
      BY <3>1, <1>1, SinkingStep
    <3> QED  BY <3>1, <3>2, <1>b, <1>3
  <2> QED  BY <2>1, <2>2
<1>6. x \in Content(u)
  <2>1. 0 \in 0 .. Len(w) /\ low[0] = x
    BY <1>1, <1>a DEF Sinks
  <2> QED  BY <2>1, <1>3
<1> QED  BY <1>4, <1>5, <1>6 DEF Content

\* No data is there twice after a push.
LEMMA PushedDistinct ==
  ASSUME NEW t, NEW u, NEW w, NEW low, NEW x, Pushing(t, u, w, low, x)
  PROVE  Distinct(u)
<1>1. Tree(t) /\ Typed(t) /\ Distinct(t) /\ NewIn(t, w) /\ x \in Timers /\ x \notin Content(t) /\ Sinks(t, w, low, x)
  BY DEF Pushing, Tree
<1>2. Len(w) \in Nat /\ w \in Place /\ Len(w) \in 0 .. Len(w) /\ u[w].mData = low[Len(w)]
  BY PushedNodes
<1>3. ASSUME NEW p \in DOMAIN t PROVE u[p].mData # u[w].mData
  <2>1. CASE ~Heap!IsPrefix(p, w)
    BY <1>1, <1>2, <2>1, SinkingFrom, PushedNodes
  <2>2. CASE Heap!IsPrefix(p, w)
    <3>1. Len(p) \in 0 .. Len(w) /\ Len(p) < Len(w) /\ u[p].mData = Stays(t, w, low, Len(p))
      BY <2>2, PushedNodes
    <3> QED  BY <1>1, <1>2, <3>1, StaysAbove
  <2> QED  BY <2>1, <2>2
<1>4. ASSUME NEW p \in DOMAIN t, NEW q \in DOMAIN t, Heap!IsPrefix(p, w), ~Heap!IsPrefix(q, w)
      PROVE  u[p].mData # u[q].mData
  <2>1. Len(p) \in 0 .. Len(w) /\ Len(p) < Len(w) /\ u[p].mData = Stays(t, w, low, Len(p)) /\ t[p].mData = Along(t, w, Len(p))
    BY <1>4, PushedNodes
  <2>2. Stays(t, w, low, Len(p)) = Along(t, w, Len(p)) \/ Stays(t, w, low, Len(p)) = low[Len(p)]
    BY <2>1, <1>1, SinkingStep
  <2>3. low[Len(p)] # t[q].mData
    BY <1>1, <1>4, <2>1, SinkingFrom
  <2>4. t[p].mData # t[q].mData
    BY <1>1, <1>4 DEF Distinct
  <2>5. u[q] = t[q]
    BY <1>4, PushedNodes
  <2> QED  BY <2>1, <2>2, <2>3, <2>4, <2>5
<1>5. ASSUME NEW p \in DOMAIN t, NEW q \in DOMAIN t, Heap!IsPrefix(p, w), Heap!IsPrefix(q, w), Len(p) < Len(q)
      PROVE  u[p].mData # u[q].mData
  <2>1. /\ Len(p) \in 0 .. Len(w) /\ u[p].mData = Stays(t, w, low, Len(p))
        /\ Len(q) \in 0 .. Len(w) /\ Len(q) < Len(w) /\ u[q].mData = Stays(t, w, low, Len(q))
    BY <1>5, PushedNodes
  <2>2. Stays(t, w, low, Len(q)) = Along(t, w, Len(q)) \/ Stays(t, w, low, Len(q)) = low[Len(q)]
    BY <2>1, <1>1, SinkingStep
  <2>3. Stays(t, w, low, Len(p)) # low[Len(q)] /\ Stays(t, w, low, Len(p)) # Along(t, w, Len(q))
    BY <1>1, <1>5, <2>1, StaysAbove
  <2> QED  BY <2>1, <2>2, <2>3
<1>6. ASSUME NEW p \in DOMAIN t, NEW q \in DOMAIN t, u[p].mData = u[q].mData PROVE p = q
  <2>1. CASE ~Heap!IsPrefix(p, w) /\ ~Heap!IsPrefix(q, w)
    BY <1>1, <1>6, <2>1, PushedNodes DEF Distinct
  <2>2. CASE Heap!IsPrefix(p, w) /\ Heap!IsPrefix(q, w)
    <3>1. p \in Place /\ q \in Place /\ Len(p) \in Nat /\ Len(q) \in Nat
      BY PushedNodes
    <3>2. Len(p) = Len(q)
      BY <3>1, <1>5, <1>6, <2>2
    <3>3. p = Heap!upTo(w, Len(p)) /\ q = Heap!upTo(w, Len(q))
      BY <3>1, <2>2, <1>2, OnIsUpto
    <3> QED  BY <3>2, <3>3
  <2> QED  BY <2>1, <2>2, <1>4, <1>6
<1> QED  BY <1>3, <1>6, PushedNodes DEF Distinct

\* After a push ranks do not rise towards the leaves.
LEMMA PushedOrdered ==
  ASSUME NEW t, NEW u, NEW w, NEW low, NEW x, Pushing(t, u, w, low, x)
  PROVE  Ordered(u)
<1>1. Typed(t) /\ Reached(t) /\ Ordered(t) /\ NewIn(t, w) /\ x \in Timers /\ Sinks(t, w, low, x) /\ w \in Place /\ w \notin DOMAIN t
  BY DEF Pushing, Tree, NewIn
<1>a. \A p \in DOMAIN u : p # w => p \in DOMAIN t
  BY PushedNodes
\* On the way, what stays outranks what sinks on and what is below.
<1>2. ASSUME NEW p \in DOMAIN t, NEW s \in Heap!Sides, NEW q \in DOMAIN u, q = Child(p, s), Heap!IsPrefix(p, w)
      PROVE  Rank[u[q].mData] <= Rank[u[p].mData]
  <2> DEFINE n == Len(p)
  <2>1. n \in 0 .. Len(w) /\ n < Len(w) /\ n \in Nat /\ u[p].mData = Stays(t, w, low, n) /\ t[p].mData = Along(t, w, n) /\ p \in Place
    BY <1>2, PushedNodes
  <2>2. /\ Rank[low[n + 1]] <= Rank[u[p].mData] /\ Rank[t[p].mData] <= Rank[u[p].mData] /\ n + 1 \in 0 .. Len(w)
        /\ low[n + 1] \in Timers
    BY <2>1, <1>1, SinkingStep
  <2>3. Len(q) = n + 1 /\ q \in Place
    BY <2>1, <1>2, OneMore
  <2>4. u[p].mData \in Timers /\ Rank[u[p].mData] \in Int /\ Rank[low[n + 1]] \in Int /\ Rank[t[p].mData] \in Int
    BY <1>1, <1>2, <2>2, NodeTypes, Ranks, PushedNodes
  <2>5. q \in DOMAIN t => Rank[t[q].mData] <= Rank[t[p].mData] /\ Rank[t[q].mData] \in Int
    BY <1>1, <1>2, NodeTypes DEF Ordered
  <2>6. CASE q = w
    BY <2>2, <2>3, <2>6, PushedNodes
  <2>7. CASE q # w /\ ~Heap!IsPrefix(q, w)
    <3>1. q \in DOMAIN t /\ u[q] = t[q]
      BY <1>a, <2>7, PushedNodes
    <3> QED  BY <3>1, <2>2, <2>4, <2>5
  <2>8. CASE q # w /\ Heap!IsPrefix(q, w)
    <3>1. q \in DOMAIN t /\ Len(q) < Len(w) /\ u[q].mData = Stays(t, w, low, n + 1) /\ t[q].mData = Along(t, w, n + 1)
      BY <1>a, <2>3, <2>8, PushedNodes
    <3>2. u[q].mData = t[q].mData \/ u[q].mData = low[n + 1]
      BY <3>1, <2>2, <2>3, <1>1, SinkingStep
    <3> QED  BY <3>1, <3>2, <2>2, <2>4, <2>5
  <2> QED  BY <2>6, <2>7, <2>8
\* Off the way nothing changes.
<1>3. ASSUME NEW p \in DOMAIN t, NEW s \in Heap!Sides, Child(p, s) \in DOMAIN u, ~Heap!IsPrefix(p, w)
      PROVE  Rank[u[Child(p, s)].mData] <= Rank[u[p].mData]
  <2>1. p \in Place /\ u[p] = t[p]
    BY <1>3, PushedNodes
  <2>2. ~Heap!IsPrefix(Child(p, s), w)
    BY <1>1, <1>3, <2>1, OnOneSide
  <2>3. Child(p, s) # w
    BY <1>1, <2>2, OnItself
  <2>4. Child(p, s) \in DOMAIN t /\ u[Child(p, s)] = t[Child(p, s)]
    BY <1>3, <1>a, <2>2, <2>3, PushedNodes
  <2> QED  BY <1>1, <2>1, <2>4 DEF Ordered
<1>4. ASSUME NEW s \in Heap!Sides, Child(w, s) \in DOMAIN u PROVE FALSE
  <2>1. Len(Child(w, s)) = Len(w) + 1 /\ Len(w) \in Nat
    BY <1>1, OneMore
  <2>2. Child(w, s) \in DOMAIN t
    BY <1>a, <1>4, <2>1
  <2> QED  BY <1>1, <2>2 DEF Reached
<1> QED  BY <1>2, <1>3, <1>4, <1>a DEF Ordered

\* On the way, and only there, the subtrees have one more.
LEMMA PushedSizes ==
  ASSUME NEW t, NEW u, NEW w, NEW low, NEW x, Pushing(t, u, w, low, x), NEW p \in Place
  PROVE  /\ SizeAt(t, p) \in Int
         /\ SizeAt(u, p) = IF Heap!IsPrefix(p, w) THEN SizeAt(t, p) + 1 ELSE SizeAt(t, p)
<1>1. Typed(t) /\ w \in Place /\ w \notin DOMAIN t /\ NewIn(t, w)
  BY DEF Pushing, Tree, NewIn
<1>2. CASE p = w
  <2>1. Heap!IsPrefix(p, w) /\ SizeAt(u, p) = 1 /\ SizeAt(t, p) = 0
    BY <1>1, <1>2, OnItself, PushedNodes DEF SizeAt
  <2> QED  BY <2>1
<1>3. CASE p # w /\ p \in DOMAIN t
  BY <1>1, <1>3, PushedNodes, NodeTypes DEF SizeAt
<1>4. CASE p # w /\ p \notin DOMAIN t
  <2>1. ~Heap!IsPrefix(p, w)
    <3>1. ASSUME Heap!IsPrefix(p, w) PROVE FALSE
      <4>1. Len(p) \in 0 .. Len(w) /\ Len(p) < Len(w) /\ p = Heap!upTo(w, Len(p))
        BY <1>1, <1>4, <3>1, OnIsUpto
      <4> QED  BY <4>1, <1>1, <1>4 DEF NewIn
    <3> QED  BY <3>1
  <2>2. p \notin DOMAIN u
    BY <1>4, PushedNodes
  <2> QED  BY <2>1, <2>2, <1>4 DEF SizeAt
<1> QED  BY <1>2, <1>3, <1>4

\* After a push every node knows the size of its subtree.
LEMMA PushedSized ==
  ASSUME NEW t, NEW u, NEW w, NEW low, NEW x, Pushing(t, u, w, low, x)
  PROVE  Sized(u)
<1>1. Sized(t) /\ Reached(t) /\ w \in Place /\ w \notin DOMAIN t
  BY DEF Pushing, Tree, NewIn
<1>2. Heap!Sides = {"mLeft", "mRight"} /\ "mLeft" # "mRight"
  BY DEF Heap!Sides
<1>3. ASSUME NEW p \in DOMAIN u
      PROVE  u[p].mSize = 1 + SizeAt(u, Child(p, "mLeft")) + SizeAt(u, Child(p, "mRight"))
  <2> DEFINE l == Child(p, "mLeft")
             r == Child(p, "mRight")
             on(q) == Heap!IsPrefix(q, w)
  <2>1. p \in Place /\ l \in Place /\ r \in Place /\ Len(p) \in Nat /\ Len(w) \in Nat
    BY <1>2, OneMore, PushedNodes
  <2>2. /\ SizeAt(t, l) \in Int /\ SizeAt(u, l) = IF on(l) THEN SizeAt(t, l) + 1 ELSE SizeAt(t, l)
        /\ SizeAt(t, r) \in Int /\ SizeAt(u, r) = IF on(r) THEN SizeAt(t, r) + 1 ELSE SizeAt(t, r)
    BY <2>1, PushedSizes
  <2>3. /\ on(l) <=> on(p) /\ Len(p) < Len(w) /\ "mLeft" = w[Len(p) + 1]
        /\ on(r) <=> on(p) /\ Len(p) < Len(w) /\ "mRight" = w[Len(p) + 1]
    BY <1>1, <1>2, <2>1, OnOneSide
  <2>4. CASE p = w
    <3>1. ~on(l) /\ ~on(r) /\ u[p].mSize = 1
      BY <2>1, <2>3, <2>4, PushedNodes
    <3>2. l \notin DOMAIN t /\ r \notin DOMAIN t
      BY <1>1, <1>2, <2>4 DEF Reached
    <3>3. SizeAt(t, l) = 0 /\ SizeAt(t, r) = 0
      BY <3>2 DEF SizeAt
    <3> HIDE DEF l, r, on
    <3>4. u[p].mSize = 1 + SizeAt(u, l) + SizeAt(u, r)
      BY <3>1, <3>3, <2>2
    <3> QED  BY <3>4 DEF l, r
  <2>5. CASE p # w
    <3>1. p \in DOMAIN t
      BY <2>5, PushedNodes
    <3>2. t[p].mSize = 1 + SizeAt(t, l) + SizeAt(t, r)
      BY <3>1, <1>1 DEF Sized
    <3>3. u[p].mSize = IF on(p) THEN t[p].mSize + 1 ELSE t[p].mSize
      BY <3>1, PushedNodes
    <3>4. on(p) => Len(p) < Len(w) /\ w[Len(p) + 1] \in Heap!Sides
      <4>1. ASSUME on(p) PROVE Len(p) < Len(w) /\ Len(p) \in 0 .. Len(w)
        BY <3>1, <4>1, PushedNodes
      <4> QED  BY <4>1, <1>1, NextStep
    <3>5. /\ on(p) => (on(l) /\ ~on(r)) \/ (on(r) /\ ~on(l))
          /\ ~on(p) => ~on(l) /\ ~on(r)
      BY <3>4, <2>3, <1>2
    <3> HIDE DEF l, r, on
    <3>6. u[p].mSize = 1 + SizeAt(u, l) + SizeAt(u, r)
      BY <3>2, <3>3, <3>5, <2>2
    <3> QED  BY <3>6 DEF l, r
  <2> QED  BY <2>4, <2>5
<1> QED  BY <1>3 DEF Sized

\* A push keeps the tree, with one data more.
LEMMA PushedTree ==
  ASSUME NEW t, NEW u, NEW w, NEW low, NEW x, Pushing(t, u, w, low, x)
  PROVE  Tree(u) /\ Content(u) = Content(t) \cup {x}
  BY PushedShape, PushedContent, PushedDistinct, PushedOrdered, PushedSized DEF Tree

-----------------------------------------------------------------------------
(***************************************************************************)
(* A removal: along the way down from top to a leaf, data moves up.        *)
(***************************************************************************)
\* A node without children.
Leaf(t, w) == w \in DOMAIN t /\ \A s \in Heap!Sides : Child(w, s) \notin DOMAIN t

\* From top on the way goes to the side whose data is not outranked.
Rises(t, w, top) ==
  /\ top \in DOMAIN t /\ Heap!IsPrefix(top, w)
  /\ \A n \in 0 .. Len(w) : Len(top) <= n /\ n < Len(w) =>
       \A s \in Heap!Sides : Child(Heap!upTo(w, n), s) \in DOMAIN t =>
         Rank[t[Child(Heap!upTo(w, n), s)].mData] <= Rank[t[Heap!upTo(w, n + 1)].mData]

\* Where the data that comes to p was.
Source(w, top, p) == IF Heap!IsPrefix(p, w) /\ Heap!IsPrefix(top, p) THEN Heap!upTo(w, Len(p) + 1) ELSE p

\* The tree u is t after the data at top left it, and with it the node w.
Taken(t, u, w, top) ==
  /\ DOMAIN u = DOMAIN t \ {w}
  /\ u = [p \in DOMAIN u |-> u[p]]
  /\ \A p \in DOMAIN u :
       u[p] = IF Heap!IsPrefix(p, w) THEN [mData |-> t[Source(w, top, p)].mData, mSize |-> t[p].mSize - 1] ELSE t[p]

\* A removal of what is at top.
Taking(t, u, w, top) == Tree(t) /\ Leaf(t, w) /\ Rises(t, w, top) /\ Taken(t, u, w, top)

\* What is known of the places of a removal.
LEMMA TakingParts ==
  ASSUME NEW t, NEW u, NEW w, NEW top, Taking(t, u, w, top)
  PROVE  /\ Typed(t) /\ Reached(t) /\ Distinct(t) /\ Ordered(t) /\ Sized(t)
         /\ w \in DOMAIN t /\ w \in Place /\ Len(w) \in Nat
         /\ top \in DOMAIN t /\ top \in Place /\ Len(top) \in Nat /\ Len(top) <= Len(w) /\ Heap!IsPrefix(top, w)
         /\ \A p \in DOMAIN t : p \in Place /\ Len(p) \in Nat /\ (p # w => p \in DOMAIN u)
         /\ \A p \in DOMAIN u : p \in DOMAIN t /\ p # w
         /\ \A s \in Heap!Sides : Child(w, s) \notin DOMAIN t
<1>1. Typed(t) /\ Reached(t) /\ Distinct(t) /\ Ordered(t) /\ Sized(t) /\ Leaf(t, w) /\ Rises(t, w, top) /\ Taken(t, u, w, top)
  BY DEF Taking, Tree
<1>2. \A p \in DOMAIN t : p \in Place /\ Len(p) \in Nat
  BY <1>1, NodeTypes DEF Place
<1>3. w \in DOMAIN t /\ top \in DOMAIN t /\ Heap!IsPrefix(top, w)
  BY <1>1 DEF Leaf, Rises
<1>4. Len(top) <= Len(w)
  BY <1>2, <1>3, OnIsUpto
<1> QED  BY <1>1, <1>2, <1>3, <1>4 DEF Leaf, Taken

\* Data moves up one step, from below top on; elsewhere it stays.
LEMMA Sources ==
  ASSUME NEW t, NEW u, NEW w, NEW top, Taking(t, u, w, top), NEW p \in DOMAIN u
  PROVE  LET r == Source(w, top, p)
             n == Len(p)
         IN /\ r \in DOMAIN t /\ r # top
            /\ u[p].mData = t[r].mData
            /\ \/ r = p /\ ~(Heap!IsPrefix(p, w) /\ Len(top) <= n)
               \/ /\ Heap!IsPrefix(p, w) /\ Len(top) <= n /\ n \in 0 .. Len(w) /\ n < Len(w) /\ p = Heap!upTo(w, n)
                  /\ r = Heap!upTo(w, n + 1) /\ n + 1 \in 0 .. Len(w)
                  /\ w[n + 1] \in Heap!Sides /\ r = Child(p, w[n + 1]) /\ Heap!IsPrefix(r, w) /\ Len(r) = n + 1
<1> DEFINE r == Source(w, top, p)
           n == Len(p)
<1>1. /\ Typed(t) /\ Reached(t) /\ w \in DOMAIN t /\ w \in Place /\ Len(w) \in Nat
      /\ top \in DOMAIN t /\ top \in Place /\ Len(top) \in Nat /\ Heap!IsPrefix(top, w)
      /\ p \in DOMAIN t /\ p \in Place /\ n \in Nat /\ p # w
  BY TakingParts
<1>2. Heap!IsPrefix(p, w) => (Heap!IsPrefix(top, p) <=> Len(top) <= n)
  BY <1>1, OnOneWay
<1>3. u[p].mData = t[r].mData
  BY DEF Taking, Taken, Source
<1>4. CASE Heap!IsPrefix(p, w) /\ Len(top) <= n
  <2>1. r = Heap!upTo(w, n + 1)
    BY <1>2, <1>4 DEF Source
  <2>2. n \in 0 .. Len(w) /\ n < Len(w) /\ p = Heap!upTo(w, n)
    BY <1>1, <1>4, OnIsUpto
  <2>3. w[n + 1] \in Heap!Sides /\ n + 1 \in 0 .. Len(w) /\ Heap!upTo(w, n + 1) = Child(p, w[n + 1])
    BY <1>1, <2>2, NextStep
  <2>4. Heap!upTo(w, n + 1) \in DOMAIN t
    BY <1>1, <2>3, WayIn
  <2>5. Heap!IsPrefix(Heap!upTo(w, n + 1), w) /\ Len(Heap!upTo(w, n + 1)) = n + 1
    BY <1>1, <2>3, OnTheWay
  <2>6. r # top
    BY <2>1, <2>5, <1>1, <1>4
  <2> HIDE DEF r
  <2>7. r \in DOMAIN t /\ Heap!IsPrefix(r, w) /\ Len(r) = n + 1 /\ r = Child(p, w[n + 1])
    BY <2>1, <2>3, <2>4, <2>5
  <2> QED  BY <1>3, <1>4, <2>1, <2>2, <2>3, <2>6, <2>7 DEF r
<1>5. CASE ~(Heap!IsPrefix(p, w) /\ Len(top) <= n)
  <2>1. r = p
    BY <1>2, <1>5 DEF Source
  <2>2. p # top
    BY <1>1, <1>5
  <2> QED  BY <1>1, <1>3, <1>5, <2>1, <2>2
<1> QED  BY <1>4, <1>5

\* A removal takes away one leaf.
LEMMA TakenShape ==
  ASSUME NEW t, NEW u, NEW w, NEW top, Taking(t, u, w, top)
  PROVE  Typed(u) /\ Bounded(u) /\ Reached(u)
<1>1. Tree(t) /\ Typed(t) /\ Taken(t, u, w, top)
  BY DEF Taking, Tree
<1>2. Typed(u)
  <2>1. ASSUME NEW p \in DOMAIN u PROVE p \in Place /\ u[p] \in [mData : Timers, mSize : Int]
    <3>1. p \in DOMAIN t /\ Source(w, top, p) \in DOMAIN t
      BY TakingParts, Sources
    <3>2. t[Source(w, top, p)].mData \in Timers /\ t[p].mSize \in Int /\ p \in Place
      BY <1>1, <3>1, NodeTypes
    <3>3. t[p] \in [mData : Timers, mSize : Int]
      BY <1>1, <3>1 DEF Typed
    <3>4. u[p] = IF Heap!IsPrefix(p, w) THEN [mData |-> t[Source(w, top, p)].mData, mSize |-> t[p].mSize - 1] ELSE t[p]
      BY <1>1 DEF Taken
    <3> QED  BY <3>2, <3>3, <3>4
  <2>2. u = [p \in DOMAIN u |-> u[p]]
    BY <1>1 DEF Taken
  <2> QED  BY <2>1, <2>2 DEF Typed
<1>3. Bounded(u)
  BY <1>1 DEF Tree, Bounded, Taken
<1>4. ASSUME NEW p \in Place, NEW s \in Heap!Sides, Child(p, s) \in DOMAIN u PROVE p \in DOMAIN u
  BY <1>4, TakingParts DEF Reached
<1> QED  BY <1>2, <1>3, <1>4 DEF Reached

\* No data is there twice after a removal: no two places have the same source.
LEMMA TakenDistinct ==
  ASSUME NEW t, NEW u, NEW w, NEW top, Taking(t, u, w, top)
  PROVE  Distinct(u)
<1> SUFFICES ASSUME NEW p \in DOMAIN u, NEW q \in DOMAIN u, u[p].mData = u[q].mData PROVE p = q
  BY DEF Distinct
<1>1. /\ Distinct(t) /\ w \in Place /\ p \in Place /\ q \in Place
      /\ Len(w) \in Nat /\ Len(top) \in Nat /\ Len(p) \in Nat /\ Len(q) \in Nat
  BY TakingParts
<1>2. Source(w, top, p) = Source(w, top, q)
  BY <1>1, Sources DEF Distinct
<1> DEFINE moved(x) == Heap!IsPrefix(x, w) /\ Len(top) <= Len(x)
<1>3. CASE moved(p) /\ moved(q)
  <2>1. Len(Source(w, top, p)) = Len(p) + 1 /\ Len(Source(w, top, q)) = Len(q) + 1
    BY <1>3, Sources
  <2>2. p = Heap!upTo(w, Len(p)) /\ q = Heap!upTo(w, Len(q))
    BY <1>1, <1>3, OnIsUpto
  <2>3. Len(p) = Len(q)
    BY <2>1, <1>1, <1>2
  <2> QED  BY <2>2, <2>3
<1>4. CASE ~moved(p) /\ ~moved(q)
  BY <1>2, <1>4, Sources
<1>5. ASSUME NEW x \in DOMAIN u, NEW y \in DOMAIN u, moved(x), ~moved(y), Source(w, top, x) = Source(w, top, y) PROVE FALSE
  <2>1. Heap!IsPrefix(Source(w, top, x), w) /\ Len(Source(w, top, x)) = Len(x) + 1
    BY <1>5, Sources
  <2>2. Source(w, top, y) = y
    BY <1>5, Sources
  <2>3. Len(x) \in Nat
    BY TakingParts
  <2> QED  BY <2>1, <2>2, <2>3, <1>1, <1>5
<1>6. CASE moved(p) /\ ~moved(q)
  <2> HIDE DEF moved
  <2> QED  BY <1>2, <1>5, <1>6
<1>7. CASE ~moved(p) /\ moved(q)
  <2> HIDE DEF moved
  <2> QED  BY <1>2, <1>5, <1>7
<1> QED  BY <1>3, <1>4, <1>6, <1>7

\* The data of top goes and no other.
LEMMA TakenContent ==
  ASSUME NEW t, NEW u, NEW w, NEW top, Taking(t, u, w, top)
  PROVE  Content(u) = Content(t) \ {t[top].mData}
<1>1. /\ Distinct(t) /\ Typed(t) /\ Reached(t) /\ w \in DOMAIN t /\ w \in Place /\ Len(w) \in Nat
      /\ top \in DOMAIN t /\ top \in Place /\ Len(top) \in Nat /\ Heap!IsPrefix(top, w) /\ Len(top) <= Len(w)
  BY TakingParts
<1>2. ASSUME NEW p \in DOMAIN u PROVE u[p].mData \in Content(t) /\ u[p].mData # t[top].mData
  <2>1. Source(w, top, p) \in DOMAIN t /\ Source(w, top, p) # top /\ u[p].mData = t[Source(w, top, p)].mData
    BY Sources
  <2> QED  BY <2>1, <1>1 DEF Content, Distinct
<1>3. ASSUME NEW r \in DOMAIN t, t[r].mData # t[top].mData PROVE \E p \in DOMAIN u : u[p].mData = t[r].mData
  <2>1. r \in Place /\ Len(r) \in Nat /\ r # top
    BY <1>3, TakingParts
  <2>2. CASE Heap!IsPrefix(r, w) /\ Len(top) <= Len(r)
    <3>1. r = Heap!upTo(w, Len(r)) /\ top = Heap!upTo(w, Len(top)) /\ Len(r) \in 0 .. Len(w)
      <4>1. Len(r) <= Len(w) /\ r = Heap!upTo(w, Len(r))
        BY <1>1, <2>1, <2>2, OnIsUpto
      <4>2. top = Heap!upTo(w, Len(top))
        BY <1>1, OnIsUpto
      <4> QED  BY <4>1, <4>2, <2>1, <1>1
    <3>2. Len(r) # Len(top)
      BY <2>1, <3>1
    <3> DEFINE n == Len(r) - 1
               p == Heap!upTo(w, n)
    <3>3. n \in 0 .. Len(w) /\ n < Len(w) /\ Len(top) <= n /\ n + 1 = Len(r)
      BY <1>1, <2>1, <2>2, <3>1, <3>2
    <3>4. p \in DOMAIN t /\ Heap!IsPrefix(p, w) /\ Len(p) = n
      BY <1>1, <3>3, WayIn, OnTheWay
    <3>5. p # w
      BY <3>3, <3>4
    <3>6. p \in DOMAIN u
      BY <3>4, <3>5, TakingParts
    <3>7. Source(w, top, p) = Heap!upTo(w, Len(p) + 1) /\ u[p].mData = t[Source(w, top, p)].mData
      BY <3>3, <3>4, <3>6, Sources
    <3>8. Source(w, top, p) = r
      BY <3>1, <3>3, <3>4, <3>7
    <3> QED  BY <3>6, <3>7, <3>8
  <2>3. CASE ~(Heap!IsPrefix(r, w) /\ Len(top) <= Len(r))
    <3>1. r # w
      BY <1>1, <2>3, OnItself
    <3>2. r \in DOMAIN u
      BY <3>1, TakingParts
    <3> QED  BY <3>2, <2>3, Sources
  <2> QED  BY <2>2, <2>3
<1>4. Content(u) \subseteq Content(t) \ {t[top].mData}
  BY <1>2 DEF Content
<1>5. Content(t) \ {t[top].mData} \subseteq Content(u)
  BY <1>3 DEF Content
<1> QED  BY <1>4, <1>5

\* After a removal ranks do not rise towards the leaves.
LEMMA TakenOrdered ==
  ASSUME NEW t, NEW u, NEW w, NEW top, Taking(t, u, w, top)
  PROVE  Ordered(u)
<1>1. Typed(t) /\ Ordered(t) /\ Rises(t, w, top) /\ Taken(t, u, w, top)
  BY DEF Taking, Tree
<1>2. ASSUME NEW p \in DOMAIN u, NEW s \in Heap!Sides, NEW q \in DOMAIN u, q = Child(p, s)
      PROVE  Rank[u[q].mData] <= Rank[u[p].mData]
  <2> DEFINE rp == Source(w, top, p)
             rq == Source(w, top, q)
             R(r) == Rank[t[r].mData]
  <2>1. p \in DOMAIN t /\ q \in DOMAIN t /\ rp \in DOMAIN t /\ rq \in DOMAIN t /\ u[p].mData = t[rp].mData /\ u[q].mData = t[rq].mData
    BY TakingParts, Sources
  <2>2. R(p) \in Int /\ R(q) \in Int /\ R(rp) \in Int /\ R(rq) \in Int
    BY <1>1, <2>1, NodeTypes
  <2>3. R(rq) <= R(q)
    <3>1. rq = q \/ (w[Len(q) + 1] \in Heap!Sides /\ rq = Child(q, w[Len(q) + 1]))
      BY Sources
    <3> QED  BY <1>1, <2>1, <2>2, <3>1 DEF Ordered
  <2>4. R(q) <= R(rp)
    <3>1. CASE rp = p
      BY <1>1, <1>2, <2>1, <3>1 DEF Ordered
    <3>2. CASE rp # p
      <4>1. Len(top) <= Len(p) /\ Len(p) \in 0 .. Len(w) /\ Len(p) < Len(w) /\ p = Heap!upTo(w, Len(p)) /\ rp = Heap!upTo(w, Len(p) + 1)
        BY <3>2, Sources
      <4> QED  BY <1>1, <1>2, <2>1, <4>1 DEF Rises
    <3> QED  BY <3>1, <3>2
  <2>5. u[p].mData = t[rp].mData /\ u[q].mData = t[rq].mData
    BY <2>1
  <2> HIDE DEF rp, rq
  <2> QED  BY <2>2, <2>3, <2>4, <2>5
<1> QED  BY <1>2 DEF Ordered

\* On the way, and only there, the subtrees have one less.
LEMMA TakenSizes ==
  ASSUME NEW t, NEW u, NEW w, NEW top, Taking(t, u, w, top), NEW p \in Place
  PROVE  /\ SizeAt(t, p) \in Int
         /\ SizeAt(u, p) = IF Heap!IsPrefix(p, w) THEN SizeAt(t, p) - 1 ELSE SizeAt(t, p)
<1>1. Typed(t) /\ Reached(t) /\ Sized(t) /\ Taken(t, u, w, top) /\ w \in Place /\ w \in DOMAIN t
  BY TakingParts DEF Taking
<1>2. CASE p = w
  <2>1. Heap!IsPrefix(p, w)
    BY <1>1, <1>2, OnItself
  <2>2. p \notin DOMAIN u
    BY <1>2, TakingParts
  <2>3. Child(w, "mLeft") \notin DOMAIN t /\ Child(w, "mRight") \notin DOMAIN t
    BY TakingParts DEF Heap!Sides
  <2>4. t[w].mSize = 1
    BY <1>1, <2>3 DEF Sized, SizeAt
  <2> QED  BY <1>1, <1>2, <2>1, <2>2, <2>4 DEF SizeAt
<1>3. CASE p # w /\ p \in DOMAIN t
  <2>1. p \in DOMAIN u
    BY <1>3, TakingParts
  <2>2. u[p].mSize = IF Heap!IsPrefix(p, w) THEN t[p].mSize - 1 ELSE t[p].mSize
    BY <1>1, <2>1 DEF Taken
  <2>3. t[p].mSize \in Int
    BY <1>1, <1>3, NodeTypes
  <2> QED  BY <1>3, <2>1, <2>2, <2>3 DEF SizeAt
<1>4. CASE p # w /\ p \notin DOMAIN t
  <2>1. ~Heap!IsPrefix(p, w)
    <3>1. ASSUME Heap!IsPrefix(p, w) PROVE FALSE
      <4>1. Len(p) \in 0 .. Len(w) /\ p = Heap!upTo(w, Len(p))
        BY <1>1, <3>1, OnIsUpto
      <4> QED  BY <4>1, <1>1, <1>4, WayIn
    <3> QED  BY <3>1
  <2>2. p \notin DOMAIN u
    BY <1>4, TakingParts
  <2> QED  BY <2>1, <2>2, <1>4 DEF SizeAt
<1> QED  BY <1>2, <1>3, <1>4

\* After a removal every node knows the size of its subtree.
LEMMA TakenSized ==
  ASSUME NEW t, NEW u, NEW w, NEW top, Taking(t, u, w, top)
  PROVE  Sized(u)
<1>1. Typed(t) /\ Sized(t) /\ Taken(t, u, w, top) /\ w \in Place
  BY TakingParts DEF Taking
<1>2. Heap!Sides = {"mLeft", "mRight"} /\ "mLeft" # "mRight"
  BY DEF Heap!Sides
<1>3. ASSUME NEW p \in DOMAIN u
      PROVE  u[p].mSize = 1 + SizeAt(u, Child(p, "mLeft")) + SizeAt(u, Child(p, "mRight"))
  <2> DEFINE l == Child(p, "mLeft")
             r == Child(p, "mRight")
             on(q) == Heap!IsPrefix(q, w)
  <2>1. p \in DOMAIN t /\ p # w /\ p \in Place /\ l \in Place /\ r \in Place /\ Len(p) \in Nat /\ Len(w) \in Nat
    BY <1>2, OneMore, TakingParts
  <2>2. /\ SizeAt(t, l) \in Int /\ SizeAt(u, l) = IF on(l) THEN SizeAt(t, l) - 1 ELSE SizeAt(t, l)
        /\ SizeAt(t, r) \in Int /\ SizeAt(u, r) = IF on(r) THEN SizeAt(t, r) - 1 ELSE SizeAt(t, r)
    BY <2>1, TakenSizes
  <2>3. /\ on(l) <=> on(p) /\ Len(p) < Len(w) /\ "mLeft" = w[Len(p) + 1]
        /\ on(r) <=> on(p) /\ Len(p) < Len(w) /\ "mRight" = w[Len(p) + 1]
    BY <1>1, <1>2, <2>1, OnOneSide
  <2>4. t[p].mSize = 1 + SizeAt(t, l) + SizeAt(t, r)
    BY <2>1, <1>1 DEF Sized
  <2>5. u[p].mSize = IF on(p) THEN t[p].mSize - 1 ELSE t[p].mSize
    BY <1>1 DEF Taken
  <2>6. on(p) => Len(p) < Len(w) /\ w[Len(p) + 1] \in Heap!Sides
    <3>1. ASSUME on(p) PROVE Len(p) < Len(w) /\ Len(p) \in 0 .. Len(w)
      BY <1>1, <2>1, <3>1, OnIsUpto
    <3> QED  BY <3>1, <1>1, NextStep
  <2>7. /\ on(p) => (on(l) /\ ~on(r)) \/ (on(r) /\ ~on(l))
        /\ ~on(p) => ~on(l) /\ ~on(r)
    BY <2>6, <2>3, <1>2
  <2> HIDE DEF l, r, on
  <2>8. u[p].mSize = 1 + SizeAt(u, l) + SizeAt(u, r)
    BY <2>4, <2>5, <2>7, <2>2
  <2> QED  BY <2>8 DEF l, r
<1> QED  BY <1>3 DEF Sized

\* A removal keeps the tree, without the data of top.
LEMMA TakenTree ==
  ASSUME NEW t, NEW u, NEW w, NEW top, Taking(t, u, w, top)
  PROVE  Tree(u) /\ Content(u) = Content(t) \ {t[top].mData}
  BY TakenShape, TakenContent, TakenDistinct, TakenOrdered, TakenSized DEF Tree

-----------------------------------------------------------------------------
(***************************************************************************)
(* The operations of the module are these.                                 *)
(***************************************************************************)
\* The operators of the module mean the same of mTree.
LEMMA TreeIs ==
  /\ Heap!places = DOMAIN mTree /\ Heap!elements = Content(mTree)
  /\ Tree(mTree) => Heap!TreeConsistent
<1>1. Heap!places = DOMAIN mTree /\ Heap!elements = Content(mTree)
  BY DEF Heap!places, Heap!elements, Content
<1>2. ASSUME Tree(mTree) PROVE Heap!TreeConsistent
  <2>1. Typed(mTree) /\ Ordered(mTree) /\ Sized(mTree)
    BY <1>2 DEF Tree
  <2>2. ASSUME NEW p \in DOMAIN mTree
        PROVE  mTree[p].mSize = 1 + Heap!sizeAt(Heap!mLeft(p)) + Heap!sizeAt(Heap!mRight(p))
    BY <2>1 DEF Sized, SizeAt, Child, Heap!sizeAt, Heap!mLeft, Heap!mRight, Heap!places
  <2>3. ASSUME NEW p \in DOMAIN mTree, NEW s \in Heap!Sides, Child(p, s) \in DOMAIN mTree
        PROVE  ~Heap!outRanks(mTree[Child(p, s)].mData, mTree[p].mData)
    <3>1. Rank[mTree[Child(p, s)].mData] <= Rank[mTree[p].mData]
      BY <2>1, <2>3 DEF Ordered
    <3>2. Rank[mTree[Child(p, s)].mData] \in Int /\ Rank[mTree[p].mData] \in Int
      BY <2>1, <2>3, NodeTypes
    <3> QED  BY <3>1, <3>2 DEF Heap!outRanks
  <2> QED  BY <1>1, <2>2, <2>3 DEF Heap!TreeConsistent, Child
<1> QED  BY <1>1, <1>2

\* The top is there if anything is.
LEMMA TopIn == Tree(mTree) /\ DOMAIN mTree # {} => <<>> \in DOMAIN mTree /\ <<>> \in Place /\ Len(<<>>) = 0
<1> SUFFICES ASSUME Tree(mTree), NEW p \in DOMAIN mTree PROVE <<>> \in DOMAIN mTree
  BY DEF Place
<1>1. p \in Place /\ Typed(mTree) /\ Reached(mTree) /\ 0 \in 0 .. Len(p)
  BY NodeTypes DEF Tree, Place
<1>2. Heap!upTo(p, 0) \in DOMAIN mTree
  BY <1>1, WayIn
<1> QED  BY <1>1, <1>2, Upto

\* A place to which a push leads.
Leads(p) == \A n \in 0 .. Len(p) - 1 : p[n+1] = Heap!side(Heap!upTo(p, n))

\* One step on along the side that is chosen.
LEMMA StepOn ==
  ASSUME NEW p \in Place, NEW s \in Heap!Sides
  PROVE  /\ \A n \in 0 .. Len(Child(p, s)) - 1 : (n \in 0 .. Len(p) - 1 /\ Child(p, s)[n+1] = p[n+1] /\ Heap!upTo(Child(p, s), n) = Heap!upTo(p, n))
                                                \/ (n = Len(p) /\ Child(p, s)[n+1] = s /\ Heap!upTo(Child(p, s), n) = p)
         /\ Len(Child(p, s)) = Len(p) + 1 /\ Len(p) \in Nat
<1> DEFINE q == Child(p, s)
<1>1. Len(p) \in Nat /\ Len(q) = Len(p) + 1 /\ q[Len(p) + 1] = s /\ \A i \in 1 .. Len(p) : q[i] = p[i]
  BY OneMore
<1>2. \A n \in 0 .. Len(p) : Heap!upTo(q, n) = Heap!upTo(p, n)
  BY OneMore
<1>3. Heap!upTo(p, Len(p)) = p /\ Len(p) \in 0 .. Len(p)
  BY <1>1, Upto
<1> HIDE DEF q
<1>4. \A n \in 0 .. Len(q) - 1 : (n \in 0 .. Len(p) - 1 /\ n + 1 \in 1 .. Len(p) /\ n \in 0 .. Len(p)) \/ n = Len(p)
  BY <1>1
<1>5. ASSUME NEW n \in 0 .. Len(q) - 1
      PROVE  (n \in 0 .. Len(p) - 1 /\ q[n+1] = p[n+1] /\ Heap!upTo(q, n) = Heap!upTo(p, n))
             \/ (n = Len(p) /\ q[n+1] = s /\ Heap!upTo(q, n) = p)
  BY <1>1, <1>2, <1>3, <1>4
<1> QED  BY <1>1, <1>5 DEF q

\* The place that newPlace chooses exists: the deepest to which a push leads has room below.
LEMMA NewPlaceIn == ASSUME Tree(mTree) PROVE NewIn(mTree, Heap!newPlace)
<1>1. Typed(mTree) /\ Bounded(mTree) /\ Reached(mTree)
  BY DEF Tree
<1> DEFINE C == ({<<>>} \cup {Append(q, s) : q \in Heap!places, s \in Heap!Sides}) \ Heap!places
<1>2. \E p \in C : Leads(p)
  <2>1. CASE <<>> \notin DOMAIN mTree
    <3>1. <<>> \in C /\ Leads(<<>>)
      BY <2>1 DEF Heap!places, Leads
    <3> QED  BY <3>1
  <2>2. CASE <<>> \in DOMAIN mTree
    <3> DEFINE G == {p \in DOMAIN mTree : Leads(p)}
    <3>1. G \subseteq DOMAIN mTree /\ <<>> \in G
      BY <2>2 DEF Leads
    <3>2. PICK p \in G : \A q \in G : Len(q) <= Len(p)
      <4> HIDE DEF G
      <4> QED  BY <1>1, <3>1, Deepest
    <3>3. p \in DOMAIN mTree /\ p \in Place /\ Leads(p)
      BY <1>1, <3>2, NodeTypes
    <3> DEFINE s == Heap!side(p)
               q == Child(p, s)
    <3>4. s \in Heap!Sides
      BY DEF Heap!side, Heap!Sides
    <3>5. Leads(q) /\ Len(q) = Len(p) + 1 /\ Len(p) \in Nat
      <4> HIDE DEF s
      <4>1. /\ \A n \in 0 .. Len(q) - 1 : (n \in 0 .. Len(p) - 1 /\ q[n+1] = p[n+1] /\ Heap!upTo(q, n) = Heap!upTo(p, n))
                                          \/ (n = Len(p) /\ q[n+1] = s /\ Heap!upTo(q, n) = p)
            /\ Len(q) = Len(p) + 1 /\ Len(p) \in Nat
        BY <3>3, <3>4, StepOn
      <4>2. s = Heap!side(p)
        BY DEF s
      <4> HIDE DEF q
      <4> QED  BY <4>1, <4>2, <3>3 DEF Leads
    <3>6. q \notin DOMAIN mTree
      <4> HIDE DEF q, s
      <4> QED  BY <3>2, <3>5
    <3>7. q \in C
      BY <3>3, <3>4, <3>6 DEF Child, Heap!places
    <3> QED  BY <3>5, <3>7
  <2> QED  BY <2>1, <2>2
<1>3. Heap!newPlace \in C
  <2>1. Heap!newPlace = CHOOSE p \in C : Leads(p)
    BY DEF Heap!newPlace, Leads
  <2> HIDE DEF C
  <2> QED  BY <2>1, <1>2
<1>4. CASE Heap!newPlace = <<>>
  <2>1. <<>> \in Place /\ Len(<<>>) = 0 /\ <<>> \notin DOMAIN mTree
    BY <1>3, <1>4 DEF Place, Heap!places
  <2>2. \A n \in 0 .. Len(<<>>) : n < Len(<<>>) => Heap!upTo(<<>>, n) \in DOMAIN mTree
    BY <2>1
  <2>3. NewIn(mTree, <<>>)
    BY <2>1, <2>2 DEF NewIn
  <2> QED  BY <1>4, <2>3
<1>5. CASE Heap!newPlace # <<>>
  <2> DEFINE w == Heap!newPlace
  <2>1. PICK p \in DOMAIN mTree, s \in Heap!Sides : w = Child(p, s)
    BY <1>3, <1>5 DEF Child, Heap!places
  <2>2. p \in Place /\ w \notin DOMAIN mTree
    BY <1>1, <1>3, NodeTypes DEF Heap!places
  <2>3. w \in Place /\ Len(p) \in Nat /\ Len(w) = Len(p) + 1
    BY <2>1, <2>2, OneMore
  <2>4. ASSUME NEW n \in 0 .. Len(w), n < Len(w) PROVE Heap!upTo(w, n) \in DOMAIN mTree
    <3>1. n \in 0 .. Len(p)
      BY <2>3, <2>4
    <3>2. Heap!upTo(w, n) = Heap!upTo(p, n)
      BY <2>1, <2>2, <3>1, OneMore
    <3> QED  BY <3>1, <3>2, <1>1, WayIn
  <2> QED  BY <2>2, <2>3, <2>4 DEF NewIn
<1> QED  BY <1>4, <1>5

\* The data that sinks, one step after the other, ...
SunkUpTo(low, t, w, x, m) ==
  low = [n \in 0 .. m |-> IF n = 0 THEN x ELSE Heap!swap(t[Heap!upTo(w, n - 1)].mData, low[n - 1])[2]]

\* ... is a function that exists ...
LEMMA SunkExists == ASSUME NEW t, NEW w, NEW x, NEW k \in Nat PROVE \E low : SunkUpTo(low, t, w, x, k)
<1> DEFINE bad == {m \in Nat : ~\E f : SunkUpTo(f, t, w, x, m)}
           next(a, n) == Heap!swap(t[Heap!upTo(w, n - 1)].mData, a)[2]
<1>1. ASSUME bad # {} PROVE FALSE
  <2>1. PICK m \in bad : \A j \in bad : m <= j
    <3>1. bad \subseteq Nat
      OBVIOUS
    <3> HIDE DEF bad
    <3> QED  BY <3>1, <1>1, NatMin
  <2>2. CASE m = 0
    <3>1. SunkUpTo([n \in 0 .. m |-> x], t, w, x, m)
      BY <2>2 DEF SunkUpTo
    <3> QED  BY <3>1
  <2>3. CASE m # 0
    <3>1. m \in Nat /\ m - 1 \in Nat /\ m - 1 \notin bad
      BY <2>1, <2>3
    <3>2. PICK f : SunkUpTo(f, t, w, x, m - 1)
      BY <3>1
    <3>3. \A n \in 0 .. m - 1 : f[n] = IF n = 0 THEN x ELSE next(f[n - 1], n)
      BY <3>2 DEF SunkUpTo
    <3> HIDE DEF next
    <3> DEFINE g == [n \in 0 .. m |-> IF n = m THEN next(f[n - 1], n) ELSE f[n]]
    <3>4. \A n \in 0 .. m : /\ n = m => n - 1 \in 0 .. m - 1 /\ n - 1 \in 0 .. m /\ n - 1 # m /\ n # 0
                            /\ n # m => n \in 0 .. m - 1
                            /\ n # m /\ n # 0 => n - 1 \in 0 .. m /\ n - 1 # m
      BY <3>1, <2>3
    <3>5. ASSUME NEW n \in 0 .. m PROVE g[n] = IF n = 0 THEN x ELSE next(g[n - 1], n)
      <4>1. CASE n = m
        <5>1. g[n-1] = f[n-1]
          BY <3>4, <4>1
        <5> QED  BY <5>1, <4>1, <3>4
      <4>2. CASE n # m
        <5>1. n # 0 => g[n-1] = f[n-1]
          BY <3>4, <4>2
        <5>2. g[n] = f[n] /\ n \in 0 .. m - 1
          BY <3>4, <4>2
        <5> HIDE DEF g
        <5> QED  BY <5>1, <5>2, <3>3
      <4> QED  BY <4>1, <4>2
    <3>6. SunkUpTo(g, t, w, x, m)
      <4>1. g = [n \in 0 .. m |-> g[n]]
        OBVIOUS
      <4> HIDE DEF g
      <4> QED  BY <4>1, <3>5 DEF SunkUpTo, next
    <3> QED  BY <3>6
  <2> QED  BY <2>2, <2>3
<1> QED  BY <1>1

\* ... and is what sinks ...
LEMMA SunkSinks ==
  ASSUME NEW low, NEW t, NEW w, NEW x, NEW k \in Nat, k = Len(w), SunkUpTo(low, t, w, x, k)
  PROVE  Sinks(t, w, low, x)
<1>1. \A n \in 0 .. k : low[n] = IF n = 0 THEN x ELSE Heap!swap(t[Heap!upTo(w, n - 1)].mData, low[n - 1])[2]
  BY DEF SunkUpTo
<1>2. low[0] = x
  BY <1>1
<1>3. ASSUME NEW n \in 0 .. k, n < k PROVE low[n + 1] = Heap!swap(Along(t, w, n), low[n])[2]
  <2>1. n + 1 \in 0 .. k /\ n + 1 # 0 /\ (n + 1) - 1 = n
    BY <1>3
  <2> QED  BY <1>1, <2>1 DEF Along
<1> QED  BY <1>2, <1>3 DEF Sinks

\* ... so what the module computes is a push.
LEMMA PushNodePushes ==
  ASSUME Tree(mTree), NEW x \in Timers, x \notin Content(mTree)
  PROVE  \E w, low : Pushing(mTree, Heap!pushNode(x), w, low, x)
<1> DEFINE w == Heap!newPlace
           k == Len(w)
           low == CHOOSE f : SunkUpTo(f, mTree, w, x, k)
           u == Heap!pushNode(x)
<1>1. NewIn(mTree, w)
  BY NewPlaceIn
<1>2. k \in Nat /\ w \notin DOMAIN mTree /\ w \in Place
  BY <1>1 DEF NewIn, Place
<1>3. SunkUpTo(low, mTree, w, x, k)
  BY <1>2, SunkExists
<1>4. Sinks(mTree, w, low, x)
  BY <1>2, <1>3, SunkSinks
<1>5. u = [p \in Heap!places \cup {w} |->
             IF p = w THEN Heap!Node(low[Len(p)])
             ELSE IF Heap!IsPrefix(p, w) THEN [mData |-> Heap!swap(mTree[p].mData, low[Len(p)])[1], mSize |-> mTree[p].mSize + 1]
             ELSE mTree[p]]
  BY DEF Heap!pushNode, SunkUpTo
<1>6. \A p \in DOMAIN mTree : Heap!IsPrefix(p, w) => mTree[p].mData = Along(mTree, w, Len(p))
  <2>1. \A p \in DOMAIN mTree : p \in Place
    BY NodeTypes DEF Tree
  <2> QED  BY <1>2, <2>1, OnIsUpto DEF Along
<1> HIDE DEF low, w, u
<1>7. Pushed(mTree, u, w, low)
  BY <1>2, <1>5, <1>6 DEF Pushed, Stays, Heap!places, Heap!Node
<1>8. Pushing(mTree, u, w, low, x)
  BY <1>1, <1>4, <1>7 DEF Pushing
<1> QED  BY <1>8 DEF u

\* What LocHeapNode::push() makes of a tree.
LEMMA PushNodeTree ==
  ASSUME Tree(mTree), NEW x \in Timers, x \notin Content(mTree)
  PROVE  Tree(Heap!pushNode(x)) /\ Content(Heap!pushNode(x)) = Content(mTree) \cup {x}
<1> DEFINE u == Heap!pushNode(x)
<1>1. PICK w, low : Pushing(mTree, u, w, low, x)
  BY PushNodePushes
<1> HIDE DEF u
<1>2. Tree(u) /\ Content(u) = Content(mTree) \cup {x}
  BY <1>1, PushedTree
<1> QED  BY <1>2 DEF u

\* The side whose data moves up is there if any is, and outranks the other.
LEMMA SubTopRanks ==
  ASSUME Tree(mTree), NEW p \in DOMAIN mTree, NEW s \in Heap!Sides, Child(p, s) \in DOMAIN mTree
  PROVE  /\ Heap!subTop(p) \in Heap!Sides /\ Child(p, Heap!subTop(p)) \in DOMAIN mTree
         /\ Rank[mTree[Child(p, s)].mData] <= Rank[mTree[Child(p, Heap!subTop(p))].mData]
<1>1. \A q \in DOMAIN mTree : Rank[mTree[q].mData] \in Int
  BY NodeTypes DEF Tree
<1>2. Heap!subTop(p) = IF Child(p, "mLeft") \notin DOMAIN mTree THEN "mRight"
                       ELSE IF Child(p, "mRight") \notin DOMAIN mTree THEN "mLeft"
                       ELSE IF Rank[mTree[Child(p, "mLeft")].mData] > Rank[mTree[Child(p, "mRight")].mData] THEN "mLeft" ELSE "mRight"
  BY DEF Heap!subTop, Heap!mLeft, Heap!mRight, Heap!places, Heap!outRanks, Child
<1>3. s = "mLeft" \/ s = "mRight"
  BY DEF Heap!Sides
<1> QED  BY <1>1, <1>2, <1>3 DEF Heap!Sides

\* A place to which data moving up from below top leads.
LeadsUp(top, p) == \A n \in Len(top) .. Len(p) - 1 : p[n+1] = Heap!subTop(Heap!upTo(p, n))

\* The leaf that popped chooses exists: the deepest place to which data moving up leads.
LEMMA PoppedIs ==
  ASSUME Tree(mTree), NEW top \in DOMAIN mTree
  PROVE  LET w == Heap!popped(top)
         IN Leaf(mTree, w) /\ Heap!IsPrefix(top, w) /\ LeadsUp(top, w)
<1>1. Typed(mTree) /\ Bounded(mTree) /\ \A p \in DOMAIN mTree : p \in Place /\ Len(p) \in Nat
  BY NodeTypes DEF Tree, Place
<1> DEFINE G == {p \in DOMAIN mTree : Heap!IsPrefix(top, p) /\ LeadsUp(top, p)}
<1>2. G \subseteq DOMAIN mTree /\ top \in G
  BY <1>1, OnItself DEF LeadsUp
<1>3. PICK p \in G : \A q \in G : Len(q) <= Len(p)
  <2> HIDE DEF G
  <2> QED  BY <1>1, <1>2, Deepest
<1>4. p \in DOMAIN mTree /\ p \in Place /\ Heap!IsPrefix(top, p) /\ LeadsUp(top, p) /\ Len(top) \in Nat /\ Len(p) \in Nat /\ top \in Place
  BY <1>1, <1>3
<1>5. ASSUME NEW c \in Heap!Sides, Child(p, c) \in DOMAIN mTree PROVE FALSE
  <2> DEFINE s == Heap!subTop(p)
             q == Child(p, s)
  <2>1. s \in Heap!Sides /\ q \in DOMAIN mTree
    BY <1>4, <1>5, SubTopRanks
  <2>2. s = Heap!subTop(p)
    OBVIOUS
  <2> HIDE DEF s
  <2>3. /\ \A n \in 0 .. Len(q) - 1 : (n \in 0 .. Len(p) - 1 /\ q[n+1] = p[n+1] /\ Heap!upTo(q, n) = Heap!upTo(p, n))
                                      \/ (n = Len(p) /\ q[n+1] = s /\ Heap!upTo(q, n) = p)
        /\ Len(q) = Len(p) + 1
    BY <1>4, <2>1, StepOn
  <2>4. Heap!IsPrefix(p, q)
    <3>1. q \in Place /\ Len(p) \in 0 .. Len(p)
      BY <1>4, <2>1, OneMore
    <3>2. Heap!upTo(q, Len(p)) = p
      <4>1. Heap!upTo(q, Len(p)) = Heap!upTo(p, Len(p))
        BY <1>4, <2>1, <3>1, OneMore
      <4>2. Heap!upTo(p, Len(p)) = p
        BY <1>4, <3>1, Upto
      <4> QED  BY <4>1, <4>2
    <3> HIDE DEF q
    <3>3. Len(p) \in 0 .. Len(q)
      BY <1>4, <2>3
    <3> QED  BY <3>1, <3>2, <3>3, OnTheWay
  <2>5. Heap!IsPrefix(top, q)
    <3>1. q \in Place
      BY <1>4, <2>1, OneMore
    <3> HIDE DEF q
    <3>2. /\ Len(top) <= Len(p) /\ top = Heap!upTo(p, Len(top)) /\ Len(top) \in 0 .. Len(p)
          /\ p = Heap!upTo(q, Len(p)) /\ Len(p) \in 0 .. Len(q)
      BY <1>4, <2>4, <3>1, OnIsUpto
    <3>3. Heap!upTo(Heap!upTo(q, Len(p)), Len(top)) = Heap!upTo(q, Len(top))
      BY <3>1, <3>2, UptoUpto
    <3>4. top = Heap!upTo(q, Len(top)) /\ Len(top) \in 0 .. Len(q)
      BY <3>2, <3>3, <1>4, <2>3
    <3> QED  BY <3>1, <3>4, OnTheWay
  <2> HIDE DEF q
  <2>6. LeadsUp(top, q)
    <3>1. \A n \in Len(top) .. Len(q) - 1 : n \in 0 .. Len(q) - 1 /\ (n \in 0 .. Len(p) - 1 => n \in Len(top) .. Len(p) - 1)
      BY <1>4, <2>3
    <3> QED  BY <1>4, <2>2, <2>3, <3>1 DEF LeadsUp
  <2>7. q \in G
    BY <2>1, <2>5, <2>6
  <2> HIDE DEF G
  <2> QED  BY <1>3, <1>4, <2>3, <2>7
<1> DEFINE P(q) == Heap!isLeaf(q) /\ Heap!IsPrefix(top, q) /\ LeadsUp(top, q)
<1>6. p \in Heap!places /\ P(p)
  BY <1>4, <1>5 DEF Heap!isLeaf, Heap!mLeft, Heap!mRight, Heap!places, Heap!Sides, Child
<1>7. Heap!popped(top) = CHOOSE q \in Heap!places : P(q)
  BY DEF Heap!popped, LeadsUp
<1>8. Heap!popped(top) \in Heap!places /\ P(Heap!popped(top))
  <2> HIDE DEF P
  <2> QED  BY <1>6, <1>7
<1>9. Leaf(mTree, Heap!popped(top))
  BY <1>8 DEF Leaf, Heap!isLeaf, Heap!mLeft, Heap!mRight, Heap!places, Heap!Sides, Child
<1> QED  BY <1>8, <1>9

\* What the module computes is a removal.
LEMMA PopNodeTakes ==
  ASSUME Tree(mTree), NEW top \in DOMAIN mTree
  PROVE  \E w : Taking(mTree, Heap!popNode(top), w, top)
<1> DEFINE w == Heap!popped(top)
           u == Heap!popNode(top)
<1>1. Leaf(mTree, w) /\ Heap!IsPrefix(top, w) /\ LeadsUp(top, w)
  BY PoppedIs
<1>2. u = [p \in Heap!places \ {w} |->
             IF ~Heap!IsPrefix(p, w) THEN mTree[p]
             ELSE [mData |-> IF Heap!IsPrefix(top, p) THEN mTree[Heap!upTo(w, Len(p) + 1)].mData ELSE mTree[p].mData,
                   mSize |-> mTree[p].mSize - 1]]
  BY DEF Heap!popNode
<1> HIDE DEF w, u
<1>3. Typed(mTree) /\ Reached(mTree) /\ w \in DOMAIN mTree /\ w \in Place /\ top \in Place /\ Len(top) \in Nat /\ Len(w) \in Nat
  BY <1>1, NodeTypes DEF Tree, Leaf, Place
<1>4. ASSUME NEW n \in 0 .. Len(w), Len(top) <= n, n < Len(w), NEW s \in Heap!Sides, Child(Heap!upTo(w, n), s) \in DOMAIN mTree
      PROVE  Rank[mTree[Child(Heap!upTo(w, n), s)].mData] <= Rank[mTree[Heap!upTo(w, n + 1)].mData]
  <2> DEFINE p == Heap!upTo(w, n)
  <2>1. p \in DOMAIN mTree
    BY <1>3, WayIn
  <2>2. n \in Len(top) .. Len(w) - 1
    BY <1>3, <1>4
  <2>3. w[n + 1] = Heap!subTop(p)
    BY <1>1, <2>2 DEF LeadsUp
  <2>4. Heap!upTo(w, n + 1) = Child(p, w[n + 1])
    BY <1>3, <1>4, NextStep
  <2>5. Rank[mTree[Child(p, s)].mData] <= Rank[mTree[Child(p, Heap!subTop(p))].mData]
    BY <2>1, <1>4, SubTopRanks
  <2> QED  BY <2>3, <2>4, <2>5
<1>5. Rises(mTree, w, top)
  BY <1>1, <1>4 DEF Rises
<1>6. Taken(mTree, u, w, top)
  BY <1>2 DEF Taken, Source, Heap!places
<1> QED  BY <1>1, <1>5, <1>6 DEF Taking, u

\* What LocHeapNode::pop() makes of a tree or of a subtree.
LEMMA PopNodeTree ==
  ASSUME Tree(mTree), NEW top \in DOMAIN mTree
  PROVE  Tree(Heap!popNode(top)) /\ Content(Heap!popNode(top)) = Content(mTree) \ {mTree[top].mData}
<1> DEFINE u == Heap!popNode(top)
<1>1. PICK w : Taking(mTree, u, w, top)
  BY PopNodeTakes
<1> HIDE DEF u
<1>2. Tree(u) /\ Content(u) = Content(mTree) \ {mTree[top].mData}
  BY <1>1, TakenTree
<1> QED  BY <1>2 DEF u

\* The search finds what is there.
LEMMA FoundIs ==
  ASSUME Tree(mTree), NEW x \in Timers
  PROVE  /\ \A top \in Heap!found(x) : top \in DOMAIN mTree /\ mTree[top].mData = x
         /\ Heap!found(x) = {} <=> x \notin Content(mTree)
<1>1. Typed(mTree) /\ Reached(mTree) /\ Ordered(mTree)
  BY DEF Tree
<1>2. \A top \in Heap!found(x) : top \in DOMAIN mTree /\ mTree[top].mData = x
  BY DEF Heap!found, Heap!places
<1>3. ASSUME NEW p \in DOMAIN mTree, mTree[p].mData = x PROVE p \in Heap!found(x)
  <2>1. ASSUME NEW n \in 0 .. Len(p) - 1 PROVE Heap!mayBeBelow(x, mTree[Heap!upTo(p, n)].mData)
    <3>1. Len(p) \in Nat
      BY <1>1, NodeTypes DEF Place
    <3>2. n \in 0 .. Len(p)
      BY <3>1
    <3>3. Rank[x] <= Rank[mTree[Heap!upTo(p, n)].mData]
      BY <1>1, <1>3, <3>2, RanksFall
    <3>4. Rank[x] \in Int /\ Rank[mTree[Heap!upTo(p, n)].mData] \in Int
      BY <1>1, <3>2, WayIn, NodeTypes, Ranks
    <3> QED  BY <3>3, <3>4 DEF Heap!mayBeBelow, Heap!outRanks
  <2> QED  BY <1>3, <2>1 DEF Heap!found, Heap!places
<1> QED  BY <1>2, <1>3 DEF Content

\* Nothing outranks the top.
LEMMA TopHighest ==
  ASSUME Tree(mTree), DOMAIN mTree # {}
  PROVE  /\ <<>> \in DOMAIN mTree /\ mTree[<<>>].mData \in Content(mTree)
         /\ \A y \in Content(mTree) : ~(Rank[y] > Rank[mTree[<<>>].mData])
<1>1. Typed(mTree) /\ Reached(mTree) /\ Ordered(mTree) /\ <<>> \in DOMAIN mTree
  BY TopIn DEF Tree
<1>2. ASSUME NEW p \in DOMAIN mTree PROVE ~(Rank[mTree[p].mData] > Rank[mTree[<<>>].mData])
  <2>1. p \in Place /\ 0 \in 0 .. Len(p)
    BY <1>1, NodeTypes DEF Place
  <2>2. Heap!upTo(p, 0) = <<>>
    BY <2>1, Upto
  <2>3. Rank[mTree[p].mData] <= Rank[mTree[<<>>].mData]
    BY <1>1, <2>1, <2>2, RanksFall
  <2>4. Rank[mTree[p].mData] \in Int /\ Rank[mTree[<<>>].mData] \in Int
    BY <1>1, NodeTypes
  <2> QED  BY <2>3, <2>4
<1> QED  BY <1>1, <1>2 DEF Content

\* The heap is empty at first.
LEMMA HeapInit == PlatformInit => Tree(mTree) /\ Heap!Queue!Init
<1> SUFFICES ASSUME PlatformInit PROVE Tree(mTree) /\ Heap!Queue!Init
  OBVIOUS
<1>1. mTree = <<>> /\ heapCall = <<>>
  BY DEF PlatformInit, Heap!Init
<1>2. DOMAIN mTree = {}
  BY <1>1
<1>3. Typed(mTree)
  BY <1>1, <1>2 DEF Typed
<1>4. Bounded(mTree)
  <2>1. 0 \in Nat
    OBVIOUS
  <2> QED  BY <1>2, <2>1 DEF Bounded
<1>5. Content(mTree) = {}
  BY <1>2 DEF Content
<1> QED  BY <1>1, <1>2, <1>3, <1>4, <1>5, TreeIs DEF Tree, Reached, Distinct, Ordered, Sized, Heap!Queue!Init

\* Every operation keeps the tree and does to its content what the abstract queue does.
LEMMA HeapStep ==
  ASSUME Tree(mTree), Heap!Next
  PROVE  Tree(mTree)' /\ Heap!Queue!Next
<1> DEFINE E == Content(mTree)
<1>1. Heap!elements = E /\ Heap!elements' = Content(mTree')
  BY TreeIs DEF Heap!elements, Heap!places, Content
<1>2. Tree(mTree)' = Tree(mTree')
  BY DEF Tree, Typed, Bounded, Reached, Distinct, Ordered, Sized, SizeAt
<1>3. CASE Heap!pop
  <2>1. CASE DOMAIN mTree = {}
    <3>1. mTree' = mTree /\ heapCall' = <<"pop", None, None>>
      BY <1>3, <2>1 DEF Heap!pop, Heap!peek, Heap!places
    <3>2. E = {} /\ Content(mTree') = Content(mTree)
      BY <2>1, <3>1 DEF Content
    <3>3. Heap!Queue!PopEmpty
      BY <1>1, <3>1, <3>2 DEF Heap!Queue!PopEmpty
    <3> QED  BY <1>2, <3>1, <3>3 DEF Heap!Queue!Next
  <2>2. CASE DOMAIN mTree # {}
    <3> DEFINE x == mTree[<<>>].mData
    <3>1. <<>> \in DOMAIN mTree /\ x \in E /\ \A y \in E : ~(Rank[y] > Rank[x])
      BY <2>2, TopHighest
    <3>2. mTree' = Heap!popNode(<<>>) /\ heapCall' = <<"pop", None, x>>
      BY <1>3, <2>2 DEF Heap!pop, Heap!peek, Heap!places
    <3>3. Tree(mTree') /\ Content(mTree') = E \ {x}
      BY <3>1, <3>2, PopNodeTree
    <3>4. x \in Heap!Queue!Highest(Heap!elements)
      <4> HIDE DEF x, E
      <4> QED  BY <3>1, <1>1 DEF Heap!Queue!Highest, Heap!Queue!outRanks
    <3>5. Heap!Queue!PopHighest
      <4> HIDE DEF x, E
      <4> QED  BY <1>1, <3>2, <3>3, <3>4 DEF Heap!Queue!PopHighest
    <3> QED  BY <1>2, <3>3, <3>5 DEF Heap!Queue!Next
  <2> QED  BY <2>1, <2>2
<1>4. ASSUME NEW x \in Timers, Heap!push(x) PROVE Tree(mTree)' /\ Heap!Queue!Push(x)
  <2>1. x \notin E /\ mTree' = Heap!pushNode(x) /\ heapCall' = <<"push", x, None>>
    BY <1>1, <1>4 DEF Heap!push
  <2>2. Tree(mTree') /\ Content(mTree') = E \cup {x}
    BY <2>1, PushNodeTree
  <2> HIDE DEF E
  <2> QED  BY <1>1, <1>2, <2>1, <2>2 DEF Heap!Queue!Push
<1>5. ASSUME NEW x \in Timers, Heap!remove(x) PROVE Tree(mTree)' /\ Heap!Queue!Remove(x)
  <2>1. CASE x \notin E
    <3>1. Heap!found(x) = {}
      BY <2>1, FoundIs
    <3>2. mTree' = mTree /\ heapCall' = <<"remove", x, None>>
      BY <1>5, <3>1 DEF Heap!remove
    <3>3. Content(mTree') = E /\ Tree(mTree')
      BY <3>2
    <3> HIDE DEF E
    <3>4. E = E \ {x}
      BY <2>1
    <3> QED  BY <1>1, <1>2, <2>1, <3>2, <3>3, <3>4 DEF Heap!Queue!Remove
  <2>2. CASE x \in E
    <3>1. Heap!found(x) # {}
      BY <2>2, FoundIs
    <3>2. PICK top \in Heap!found(x) : mTree' = Heap!popNode(top)
      BY <1>5, <3>1 DEF Heap!remove
    <3>3. heapCall' = <<"remove", x, x>>
      BY <1>5, <3>1 DEF Heap!remove
    <3>4. top \in DOMAIN mTree /\ mTree[top].mData = x
      BY <3>2, FoundIs
    <3>5. Tree(mTree') /\ Content(mTree') = E \ {x}
      BY <3>2, <3>4, PopNodeTree
    <3> HIDE DEF E
    <3> QED  BY <1>1, <1>2, <2>2, <3>3, <3>5 DEF Heap!Queue!Remove
  <2> QED  BY <2>1, <2>2
<1>6. Heap!pop \/ \E x \in Timers : Heap!push(x) \/ Heap!remove(x)
  BY DEF Heap!Next
<1> QED  BY <1>3, <1>4, <1>5, <1>6 DEF Heap!Queue!Next

\* A step of the observer leaves the heap as it is.
LEMMA PlatformStep ==
  Tree(mTree) /\ [PlatformNext]_allVars => Tree(mTree)' /\ [Heap!Queue!Next]_(Heap!Queue!queueVars)
<1> SUFFICES ASSUME Tree(mTree), [PlatformNext]_allVars
             PROVE  Tree(mTree)' /\ [Heap!Queue!Next]_(Heap!Queue!queueVars)
  OBVIOUS
<1>1. CASE UNCHANGED heapVars
  <2>1. mTree' = mTree /\ heapCall' = heapCall
    BY <1>1 DEF heapVars
  <2>2. Heap!elements' = Heap!elements
    BY <2>1 DEF Heap!elements, Heap!places
  <2>3. Tree(mTree)'
    BY <2>1 DEF Tree, Typed, Bounded, Reached, Distinct, Ordered, Sized, SizeAt
  <2> QED  BY <2>1, <2>2, <2>3 DEF Heap!Queue!queueVars
<1>2. CASE Heap!Next
  BY <1>2, HeapStep
<1> QED  BY <1>1, <1>2 DEF PlatformNext, allVars

\* LocHeap is a priority queue, whatever the number of timers, their ranks and the shape of
\* the tree: pop() returns a timer that no other outranks, remove() takes out the timer it is
\* given if it is there and nothing else, and checkTree() of the unit tests never fails.
THEOREM HeapIsPriorityQueue == PlatformSpec => ImplementsQueue
<1>1. PlatformInit => Tree(mTree) /\ Heap!Queue!Init
  BY HeapInit
<1>2. Tree(mTree) /\ [PlatformNext]_allVars => Tree(mTree)' /\ [Heap!Queue!Next]_(Heap!Queue!queueVars)
  BY PlatformStep
<1>3. Tree(mTree) => Heap!TreeConsistent
  BY TreeIs
<1> QED  BY <1>1, <1>2, <1>3, PTL DEF PlatformSpec, ImplementsQueue, Heap!ImplementsQueue, Heap!Queue!Spec

-----------------------------------------------------------------------------
(***************************************************************************)
(* The linked list, for any data and any number of elements.               *)
(***************************************************************************)
\* f follows a pointer of the elements in m from first on.
Follows(m, first, pointer, f) ==
  f = [n \in 0 .. MaxElements |->
         IF n = 0 THEN first ELSE LET e == f[n - 1] IN IF e = None THEN None ELSE m[e][pointer]]

\* What a walk meets, step by step, is determined by where it starts.
LEMMA FollowsOnce ==
  ASSUME MaxElements \in Nat, NEW m, NEW first, NEW pointer, NEW f, NEW g, Follows(m, first, pointer, f), Follows(m, first, pointer, g)
  PROVE  f = g
<1> DEFINE bad == {n \in 0 .. MaxElements : f[n] # g[n]}
<1>1. /\ f = [n \in 0 .. MaxElements |-> f[n]] /\ g = [n \in 0 .. MaxElements |-> g[n]]
      /\ \A n \in 0 .. MaxElements :
           /\ f[n] = IF n = 0 THEN first ELSE IF f[n-1] = None THEN None ELSE m[f[n-1]][pointer]
           /\ g[n] = IF n = 0 THEN first ELSE IF g[n-1] = None THEN None ELSE m[g[n-1]][pointer]
  BY DEF Follows
<1>2. CASE bad # {}
  <2>1. PICK n \in bad : \A k \in bad : n <= k
    <3>1. bad \subseteq Nat
      OBVIOUS
    <3> HIDE DEF bad
    <3> QED  BY <3>1, <1>2, NatMin
  <2>2. n \in 0..MaxElements /\ f[n] # g[n] /\ (n # 0 => n - 1 \in 0..MaxElements /\ n - 1 \notin bad)
    BY <2>1
  <2>3. n # 0 => f[n-1] = g[n-1]
    BY <2>2
  <2> QED  BY <1>1, <2>2, <2>3
<1>3. CASE bad = {}
  BY <1>1, <1>3
<1> QED  BY <1>2, <1>3

\* The list's and the theorems' cardinality are the same.
LEMMA ListCardinality == \A S : List!Cardinality(S) = Cardinality(S)
  BY DEF List!Cardinality, Cardinality

\* Expanded once.
LEMMA ListMin == \A S : List!Min(S) = CHOOSE x \in S : \A y \in S : x <= y
  BY DEF List!Min

\* The null pointer is no address.
LEMMA ListSizes == MaxElements \in Nat /\ None \notin List!Address
  BY PlatformAssumption DEF List!ListAssumption, List!Address

\* How many numbers there are in the intervals used below.
LEMMA Sizes ==
  ASSUME NEW n \in Nat
  PROVE  IsFiniteSet(1..n) /\ Cardinality(1..n) = n /\ IsFiniteSet(0..n - 1) /\ Cardinality(0..n - 1) = n
<1>1. IsFiniteSet(1..n) /\ Cardinality(1..n) = IF 1 > n THEN 0 ELSE n - 1 + 1
  BY FS_Interval
<1>2. IsFiniteSet(0..n - 1) /\ Cardinality(0..n - 1) = IF 0 > n - 1 THEN 0 ELSE (n - 1) - 0 + 1
  <2>1. n - 1 \in Int
    OBVIOUS
  <2> QED  BY <2>1, FS_Interval
<1> QED  BY <1>1, <1>2

\* So a walk along a pointer that leads from each address of q to the next one is q.
WalkOf(m, first, pointer) ==
  LET at == CHOOSE at : Follows(m, first, pointer, at)
      length == Cardinality({n \in 0 .. MaxElements : at[n] # None})
  IN [i \in 1 .. length |-> at[i - 1]]

\* The walk of the module is the one defined above, which has the memory as an argument, before a step ...
LEMMA WalkIs == \A first, pointer : List!Walk(first, pointer) = WalkOf(mem, first, pointer)
  BY ListCardinality DEF List!Walk, WalkOf, Follows

\* ... and after it.
LEMMA WalkIsNext == \A first, pointer : List!Walk(first, pointer)' = WalkOf(mem', first', pointer')
  BY ListCardinality DEF List!Walk, WalkOf, Follows

Chained(m, first, pointer, q) ==
  /\ q \in Seq(List!Address) /\ Len(q) <= MaxElements
  /\ first = IF q = <<>> THEN None ELSE q[1]
  /\ \A i \in 1..Len(q) : m[q[i]][pointer] = IF i < Len(q) THEN q[i+1] ELSE None

\* A walk along a chain of pointers finds the chain.
LEMMA WalkFollows ==
  ASSUME NEW q, NEW m, NEW first, NEW pointer, Chained(m, first, pointer, q)
  PROVE  WalkOf(m, first, pointer) = q
<1> DEFINE f == [n \in 0 .. MaxElements |-> IF n < Len(q) THEN q[n+1] ELSE None]
<1>1. /\ MaxElements \in Nat /\ q \in Seq(List!Address) /\ Len(q) \in Nat /\ Len(q) <= MaxElements
      /\ \A i \in 1..Len(q) : q[i] \in List!Address /\ q[i] # None
  BY ListSizes DEF Chained
<1>2. Follows(m, first, pointer, f)
  <2> SUFFICES ASSUME NEW n \in 0 .. MaxElements
               PROVE  f[n] = IF n = 0 THEN first ELSE IF f[n-1] = None THEN None ELSE m[f[n-1]][pointer]
    BY DEF Follows
  <2>1. CASE n = 0
    BY <2>1, <1>1 DEF Chained
  <2>2. CASE n # 0 /\ n - 1 < Len(q)
    <3>1. n \in 1..Len(q) /\ n - 1 \in 0..MaxElements /\ (n - 1) + 1 = n
      BY <2>2, <1>1
    <3>2. f[n-1] = q[n] /\ q[n] # None /\ m[q[n]][pointer] = IF n < Len(q) THEN q[n+1] ELSE None
      BY <3>1, <1>1, <2>2 DEF Chained
    <3> QED  BY <3>2, <2>2
  <2>3. CASE n # 0 /\ ~(n - 1 < Len(q))
    <3>1. n - 1 \in 0..MaxElements /\ ~(n < Len(q))
      BY <2>3, <1>1
    <3> QED  BY <3>1, <2>3
  <2> QED  BY <2>1, <2>2, <2>3
<1> DEFINE at == CHOOSE at : Follows(m, first, pointer, at)
<1>3. at = f
  <2>1. Follows(m, first, pointer, at)
    BY <1>2
  <2> HIDE DEF at, f
  <2> QED  BY <1>1, <1>2, <2>1, FollowsOnce
<1>4. Cardinality({n \in 0 .. MaxElements : f[n] # None}) = Len(q)
  <2>1. {n \in 0 .. MaxElements : f[n] # None} = 0 .. Len(q) - 1
    <3>1. \A n \in 0 .. MaxElements : n < Len(q) => n + 1 \in 1..Len(q)
      BY <1>1
    <3> QED  BY <3>1, <1>1
  <2>2. Cardinality(0 .. Len(q) - 1) = Len(q)
    BY <1>1, Sizes
  <2> QED  BY <2>1, <2>2
<1>5. [i \in 1 .. Len(q) |-> f[i - 1]] = q
  <2>1. ASSUME NEW i \in 1..Len(q) PROVE f[i-1] = q[i]
    <3>1. i - 1 \in 0 .. MaxElements /\ i - 1 < Len(q) /\ (i - 1) + 1 = i
      BY <1>1
    <3> QED  BY <3>1
  <2> HIDE DEF f
  <2>2. q \in Seq(List!Address)
    BY <1>1
  <2> QED  BY <2>1, <2>2
<1> HIDE DEF f
<1> QED  BY <1>3, <1>4, <1>5 DEF WalkOf

\* The memory m with first p_head and last p_tail links the addresses of q, the oldest first.
Element == [next : List!Address \cup {None}, prev : List!Address \cup {None}, data_ptr : Data]
Linked(m, head, tail, q) ==
  /\ q \in Seq(List!Address) /\ \A i, j \in 1..Len(q) : q[i] = q[j] => i = j
  /\ m \in [{q[i] : i \in 1..Len(q)} -> Element]
  /\ tail = IF q = <<>> THEN None ELSE q[1]
  /\ head = IF q = <<>> THEN None ELSE q[Len(q)]
  /\ \A i \in 1..Len(q) : /\ m[q[i]].prev = IF i < Len(q) THEN q[i+1] ELSE None
                          /\ m[q[i]].next = IF i > 1 THEN q[i-1] ELSE None

ListInv == \E q \in Seq(List!Address) : Linked(mem, p_head, p_tail, q)

\* There are never more than there can be, and fewer while one is free.
LEMMA LinkedBound ==
  ASSUME NEW q \in Seq(List!Address), \A i, j \in 1..Len(q) : q[i] = q[j] => i = j,
         NEW used \in SUBSET List!Address, \A i \in 1..Len(q) : q[i] \in used
  PROVE  Len(q) <= MaxElements /\ (used # List!Address => Len(q) < MaxElements)
<1>1. MaxElements \in Nat /\ Len(q) \in Nat
  BY ListSizes
<1>2. IsFiniteSet(List!Address) /\ Cardinality(List!Address) = MaxElements
  BY <1>1, FS_Interval DEF List!Address
<1>3. IsFiniteSet(1..Len(q)) /\ Cardinality(1..Len(q)) = Len(q)
  BY <1>1, Sizes
<1>4. /\ IsFiniteSet(used) /\ Cardinality(used) <= MaxElements /\ Cardinality(used) \in Nat
      /\ used # List!Address => Cardinality(used) # MaxElements
  BY <1>2, FS_Subset, FS_CardinalityType
<1>5. q \in Injection(1..Len(q), used)
  BY DEF Injection, IsInjective
<1>6. Cardinality(1..Len(q)) <= Cardinality(used)
  BY <1>4, <1>5, FS_Injection
<1> QED  BY <1>1, <1>3, <1>4, <1>6

\* What the calls read by walking is q.
LEMMA LinkedWalks ==
  ASSUME NEW m, NEW head, NEW tail, NEW q, Linked(m, head, tail, q)
  PROVE  /\ Len(q) <= MaxElements
         /\ WalkOf(m, tail, "prev") = q
         /\ WalkOf(m, head, "next") = [i \in 1..Len(q) |-> q[Len(q) + 1 - i]]
<1>1. /\ q \in Seq(List!Address) /\ Len(q) \in Nat
      /\ \A i \in 1..Len(q) : m[q[i]] \in Element /\ q[i] \in List!Address
  BY DEF Linked
<1>2. Len(q) <= MaxElements
  BY <1>1, LinkedBound DEF Linked
<1>3. WalkOf(m, tail, "prev") = q
  <2>1. Chained(m, tail, "prev", q)
    BY <1>1, <1>2 DEF Linked, Chained
  <2> QED  BY <2>1, WalkFollows
<1> DEFINE r == [i \in 1..Len(q) |-> q[Len(q) + 1 - i]]
<1>4. /\ r \in Seq(List!Address) /\ Len(r) = Len(q) /\ \A i \in 1..Len(q) : r[i] = q[Len(q) + 1 - i]
  <2>1. \A i \in 1..Len(q) : Len(q) + 1 - i \in 1..Len(q)
    BY <1>1
  <2> QED  BY <1>1, <2>1
<1>5. head = IF r = <<>> THEN None ELSE r[1]
  <2>1. CASE q = <<>>
    BY <1>4, <2>1 DEF Linked
  <2>2. CASE q # <<>>
    <3>1. 1 \in 1..Len(q) /\ Len(q) + 1 - 1 = Len(q)
      BY <1>1, <2>2
    <3> HIDE DEF r
    <3> QED  BY <3>1, <1>4, <2>2 DEF Linked
  <2> QED  BY <2>1, <2>2
<1>6. ASSUME NEW i \in 1..Len(r) PROVE m[r[i]]["next"] = IF i < Len(r) THEN r[i+1] ELSE None
  <2> DEFINE k == Len(q) + 1 - i
  <2>1. k \in 1..Len(q) /\ r[i] = q[k] /\ (k > 1 <=> i < Len(r)) /\ (i < Len(r) => i + 1 \in 1..Len(q) /\ Len(q) + 1 - (i + 1) = k - 1)
    BY <1>1, <1>4, <1>6
  <2>2. m[q[k]].next = IF k > 1 THEN q[k-1] ELSE None
    BY <2>1 DEF Linked
  <2> HIDE DEF k, r
  <2>3. i < Len(r) => r[i+1] = q[k-1]
    BY <2>1, <1>4
  <2> QED  BY <2>1, <2>2, <2>3
<1>7. WalkOf(m, head, "next") = r
  <2> HIDE DEF r
  <2>1. Chained(m, head, "next", r)
    BY <1>2, <1>4, <1>5, <1>6 DEF Chained
  <2> QED  BY <2>1, WalkFollows
<1> QED  BY <1>2, <1>3, <1>7


\* What changing a pointer does to the memory of the addresses S.
LEMMA SetsNext ==
  ASSUME NEW S, NEW m, NEW e, NEW to, S \subseteq List!Address, m \in [S -> Element], e \in S \cup {None},
         to \in List!Address \cup {None}
  PROVE  /\ List!setNext(m, e, to) \in [S -> Element]
         /\ \A a \in S : /\ List!setNext(m, e, to)[a].data_ptr = m[a].data_ptr
                         /\ List!setNext(m, e, to)[a].prev = m[a].prev
                         /\ List!setNext(m, e, to)[a].next = IF a = e THEN to ELSE m[a].next
<1> DEFINE n == List!setNext(m, e, to)
<1>1. n = [a \in S |-> IF a = e THEN [m[a] EXCEPT !.next = to] ELSE m[a]]
  BY ListSizes DEF List!setNext
<1> HIDE DEF n
<1>2. ASSUME NEW a \in S
      PROVE  /\ n[a] \in Element /\ n[a].data_ptr = m[a].data_ptr /\ n[a].prev = m[a].prev
             /\ n[a].next = IF a = e THEN to ELSE m[a].next
  <2>1. m[a] \in Element /\ n[a] = IF a = e THEN [m[a] EXCEPT !.next = to] ELSE m[a]
    BY <1>1
  <2> QED  BY <2>1 DEF Element
<1>3. n \in [S -> Element]
  BY <1>1, <1>2
<1> QED  BY <1>2, <1>3 DEF n

\* Setting a back pointer changes that pointer only, and with the null pointer nothing.
LEMMA SetsPrev ==
  ASSUME NEW S, NEW m, NEW e, NEW to, S \subseteq List!Address, m \in [S -> Element], e \in S \cup {None},
         to \in List!Address \cup {None}
  PROVE  /\ List!setPrev(m, e, to) \in [S -> Element]
         /\ \A a \in S : /\ List!setPrev(m, e, to)[a].data_ptr = m[a].data_ptr
                         /\ List!setPrev(m, e, to)[a].next = m[a].next
                         /\ List!setPrev(m, e, to)[a].prev = IF a = e THEN to ELSE m[a].prev
<1> DEFINE n == List!setPrev(m, e, to)
<1>1. n = [a \in S |-> IF a = e THEN [m[a] EXCEPT !.prev = to] ELSE m[a]]
  BY ListSizes DEF List!setPrev
<1> HIDE DEF n
<1>2. ASSUME NEW a \in S
      PROVE  /\ n[a] \in Element /\ n[a].data_ptr = m[a].data_ptr /\ n[a].next = m[a].next
             /\ n[a].prev = IF a = e THEN to ELSE m[a].prev
  <2>1. m[a] \in Element /\ n[a] = IF a = e THEN [m[a] EXCEPT !.prev = to] ELSE m[a]
    BY <1>1
  <2> QED  BY <2>1 DEF Element
<1>3. n \in [S -> Element]
  BY <1>1, <1>2
<1> QED  BY <1>2, <1>3 DEF n

\* A new element becomes the newest.
LEMMA Added ==
  ASSUME NEW m, NEW head, NEW tail, NEW q, Linked(m, head, tail, q), NEW e \in List!Address \ DOMAIN m, NEW d \in Data,
         NEW n, n = List!setPrev(List!malloc(m, e, [next |-> head, prev |-> None, data_ptr |-> d]), head, e)
  PROVE  /\ Linked(n, e, IF head = None THEN e ELSE tail, Append(q, e))
         /\ n[e].data_ptr = d /\ \A i \in 1..Len(q) : n[q[i]].data_ptr = m[q[i]].data_ptr
         /\ Len(q) < MaxElements
<1> DEFINE used == {q[i] : i \in 1..Len(q)}
           k == Len(q)
           p == Append(q, e)
           S == used \cup {e}
           new == [next |-> head, prev |-> None, data_ptr |-> d]
           o == List!malloc(m, e, new)
           t == IF head = None THEN e ELSE tail
<1>1. /\ q \in Seq(List!Address) /\ k \in Nat /\ e \in List!Address /\ e \notin used /\ e # None
      /\ \A i \in 1..k : q[i] \in List!Address /\ q[i] \in used /\ m[q[i]] \in Element /\ q[i] # None
      /\ DOMAIN m = used /\ used \subseteq List!Address /\ \A i, j \in 1..k : q[i] = q[j] => i = j
      /\ m \in [used -> Element]
  BY ListSizes DEF Linked
<1>2. /\ p \in Seq(List!Address) /\ Len(p) = k + 1 /\ p[k+1] = e /\ \A i \in 1..k : p[i] = q[i] /\ p[i] # e
      /\ p # <<>> /\ {p[i] : i \in 1..Len(p)} = S
  <2>1. /\ p \in Seq(List!Address) /\ Len(p) = k + 1 /\ p[k+1] = e /\ \A i \in 1..k : p[i] = q[i] /\ p[i] # e
    BY <1>1
  <2>2. p # <<>> /\ 1..Len(p) = (1..k) \cup {k+1}
    BY <2>1, <1>1
  <2> HIDE DEF p
  <2> QED  BY <2>1, <2>2
<1>3. \A i, j \in 1..k+1 : p[i] = p[j] => i = j
  <2> HIDE DEF p
  <2>1. 1..k+1 = (1..k) \cup {k+1}
    BY <1>1
  <2> QED  BY <2>1, <1>1, <1>2
<1>4. head = (IF q = <<>> THEN None ELSE q[k]) /\ head \in used \cup {None} /\ tail = (IF q = <<>> THEN None ELSE q[1])
  BY <1>1 DEF Linked
<1>5. o \in [S -> Element] /\ o[e] = new /\ \A a \in used : o[a] = m[a]
  <2>1. new \in Element /\ o = [a \in S |-> IF a = e THEN new ELSE m[a]]
    BY <1>1, <1>4 DEF Element, List!malloc
  <2> HIDE DEF new, o
  <2> QED  BY <2>1, <1>1
<1>6. /\ n \in [S -> Element]
      /\ \A a \in S : n[a].data_ptr = o[a].data_ptr /\ n[a].next = o[a].next
                       /\ n[a].prev = IF a = head THEN e ELSE o[a].prev
  <2>1. S \subseteq List!Address /\ head \in S \cup {None} /\ e \in List!Address \cup {None} /\ n = List!setPrev(o, head, e)
    BY <1>1, <1>4
  <2>2. o \in [S -> Element]
    BY <1>5
  <2> HIDE DEF o, S, used, k, new
  <2> DEFINE c == List!setPrev(o, head, e)
  <2>3. /\ c \in [S -> Element]
        /\ \A a \in S : c[a].data_ptr = o[a].data_ptr /\ c[a].next = o[a].next
                         /\ c[a].prev = IF a = head THEN e ELSE o[a].prev
    BY <2>1, <2>2, SetsPrev
  <2> QED  BY <2>1, <2>3
<1>7. n[e].data_ptr = d /\ n[e].next = head /\ n[e].prev = None
  <2>1. e \in S /\ e # head /\ o[e].data_ptr = d /\ o[e].next = head /\ o[e].prev = None
    BY <1>1, <1>4, <1>5
  <2> HIDE DEF o, S
  <2> QED  BY <2>1, <1>6
<1>8. ASSUME NEW i \in 1..k
      PROVE  /\ n[q[i]].data_ptr = m[q[i]].data_ptr /\ n[q[i]].next = IF i > 1 THEN q[i-1] ELSE None
             /\ n[q[i]].prev = IF i = k THEN e ELSE q[i+1]
  <2>1. /\ q[i] \in S /\ q[i] \in used /\ (q[i] = head <=> i = k) /\ o[q[i]] = m[q[i]]
    <3>1. k \in 1..k /\ q # <<>>
      BY <1>1
    <3> HIDE DEF o
    <3> QED  BY <3>1, <1>1, <1>4, <1>5
  <2>2. m[q[i]].next = (IF i > 1 THEN q[i-1] ELSE None) /\ (i < k => m[q[i]].prev = q[i+1])
    BY <1>8 DEF Linked
  <2>3. i < k \/ i = k
    BY <1>1
  <2> HIDE DEF o, S, used, k
  <2> QED  BY <2>1, <2>2, <2>3, <1>6
<1>9. Linked(n, e, t, p)
  <2>1. t = p[1]
    <3>1. CASE q = <<>>
      BY <3>1, <1>2, <1>4, <1>1
    <3>2. CASE q # <<>>
      <4>1. 1 \in 1..k /\ head # None
        BY <3>2, <1>1, <1>4
      <4> HIDE DEF p
      <4> QED  BY <3>2, <4>1, <1>2, <1>4
    <3> QED  BY <3>1, <3>2
  <2>2. ASSUME NEW i \in 1..k+1
        PROVE  n[p[i]].prev = (IF i < k+1 THEN p[i+1] ELSE None) /\ n[p[i]].next = IF i > 1 THEN p[i-1] ELSE None
    <3>1. CASE i = k + 1
      <4>1. k > 0 => k \in 1..k /\ (k+1) - 1 = k /\ head = q[k] /\ q # <<>>
        BY <1>1, <1>4
      <4>2. k = 0 => head = None
        BY <1>1, <1>4
      <4> HIDE DEF p
      <4>3. k > 0 => p[i-1] = head
        BY <4>1, <1>2, <3>1
      <4> HIDE DEF k
      <4> QED  BY <3>1, <4>2, <4>3, <1>1, <1>2, <1>7 DEF k
    <3>2. CASE i \in 1..k
      <4>1. p[i] = q[i] /\ (i > 1 => i - 1 \in 1..k) /\ (i < k => i + 1 \in 1..k)
        BY <3>2, <1>1, <1>2
      <4> HIDE DEF p
      <4>2. (i > 1 => p[i-1] = q[i-1]) /\ (i < k => p[i+1] = q[i+1]) /\ (i = k => p[i+1] = e) /\ i < k + 1
        BY <4>1, <1>2, <3>2, <1>1
      <4>3. i < k \/ i = k
        BY <3>2, <1>1
      <4> HIDE DEF k
      <4> QED  BY <3>2, <4>1, <4>2, <4>3, <1>8
    <3> QED  BY <3>1, <3>2, <1>1
  <2> HIDE DEF p, S, t, o
  <2>3. Len(p) = k + 1 /\ p[Len(p)] = e /\ n \in [{p[i] : i \in 1..Len(p)} -> Element]
    BY <1>2, <1>6
  <2> HIDE DEF k
  <2> QED  BY <1>2, <1>3, <2>1, <2>2, <2>3 DEF Linked
<1>10. Len(q) < MaxElements
  BY <1>1, LinkedBound
<1> QED  BY <1>7, <1>8, <1>9, <1>10, Zenon

\* An element that is unlinked leaves the others in order.
Without(q, x) == [i \in 1..Len(q) - 1 |-> IF i < x THEN q[i] ELSE q[i+1]]

\* Linking the neighbours of an element past it and freeing it leaves the list without it, and the data of the others.
LEMMA Unlinked ==
  ASSUME NEW m, NEW head, NEW tail, NEW q, Linked(m, head, tail, q), NEW x \in 1..Len(q), NEW e, e = q[x],
         NEW n, n = List!free(List!setPrev(List!setNext(m, m[e].prev, m[e].next), m[e].next, m[e].prev), e),
         NEW p, p = Without(q, x)
  PROVE  /\ Linked(n, IF m[e].prev = None THEN m[e].next ELSE head, IF m[e].next = None THEN m[e].prev ELSE tail, p)
         /\ \A i \in 1..Len(q) - 1 : n[p[i]].data_ptr = m[p[i]].data_ptr
<1> DEFINE used == {q[i] : i \in 1..Len(q)}
           k == Len(q)
           S == used \ {e}
           prev == m[e].prev
           next == m[e].next
           o == List!setNext(m, prev, next)
           u == List!setPrev(o, next, prev)
           h == IF prev = None THEN next ELSE head
           t == IF next = None THEN prev ELSE tail
<1>1. /\ q \in Seq(List!Address) /\ k \in Nat /\ x \in 1..k /\ e = q[x] /\ e \in used
      /\ \A i \in 1..k : q[i] \in List!Address /\ q[i] \in used /\ m[q[i]] \in Element /\ q[i] # None
      /\ used \subseteq List!Address /\ \A i, j \in 1..k : q[i] = q[j] => i = j
      /\ m \in [used -> Element]
  BY ListSizes DEF Linked
<1>2. \A i \in 1..k : m[q[i]].prev = (IF i < k THEN q[i+1] ELSE None) /\ m[q[i]].next = (IF i > 1 THEN q[i-1] ELSE None)
  BY DEF Linked
<1>3. /\ prev = (IF x < k THEN q[x+1] ELSE None) /\ next = (IF x > 1 THEN q[x-1] ELSE None)
      /\ prev \in used \cup {None} /\ next \in used \cup {None}
  <2>1. (x < k => x + 1 \in 1..k) /\ (x > 1 => x - 1 \in 1..k)
    BY <1>1
  <2> QED  BY <2>1, <1>1, <1>2
<1>4. /\ p \in Seq(List!Address) /\ Len(p) = k - 1
      /\ \A i \in 1..k - 1 : p[i] = (IF i < x THEN q[i] ELSE q[i+1]) /\ i \in 1..k /\ i + 1 \in 1..k
  <2>1. \A i \in 1..k - 1 : i \in 1..k /\ i + 1 \in 1..k
    BY <1>1
  <2> QED  BY <2>1, <1>1 DEF Without
<1>5. \A i, j \in 1..k - 1 : p[i] = p[j] => i = j
  <2> HIDE DEF k
  <2> SUFFICES ASSUME NEW i \in 1..k - 1, NEW j \in 1..k - 1, p[i] = p[j] PROVE i = j
    OBVIOUS
  <2> DEFINE a == IF i < x THEN i ELSE i + 1
             b == IF j < x THEN j ELSE j + 1
  <2>1. p[i] = q[a] /\ a \in 1..k /\ p[j] = q[b] /\ b \in 1..k
    BY <1>4
  <2>2. a = b
    <3> HIDE DEF a, b
    <3> QED  BY <2>1, <1>1
  <2> QED  BY <2>2, <1>1
<1>6. {p[i] : i \in 1..Len(p)} = S
  <2> HIDE DEF k
  <2>1. ASSUME NEW i \in 1..k - 1 PROVE p[i] \in S
    <3> DEFINE j == IF i < x THEN i ELSE i + 1
    <3>1. p[i] = q[j] /\ j \in 1..k /\ j # x
      BY <1>1, <1>4
    <3> HIDE DEF j
    <3>2. q[j] \in used /\ q[j] # e
      BY <3>1, <1>1
    <3> HIDE DEF used
    <3> QED  BY <3>1, <3>2
  <2>2. ASSUME NEW a \in S PROVE \E i \in 1..k - 1 : a = p[i]
    <3>1. PICK j \in 1..k : a = q[j]
      BY DEF k
    <3>2. j # x
      BY <3>1, <1>1
    <3>3. CASE j < x
      <4>1. j \in 1..k - 1
        BY <3>3, <1>1
      <4> QED  BY <4>1, <3>1, <3>3, <1>4
    <3>4. CASE j > x
      <4>1. j - 1 \in 1..k - 1 /\ ~(j - 1 < x) /\ (j - 1) + 1 = j
        BY <3>4, <1>1
      <4> QED  BY <4>1, <3>1, <1>4
    <3> QED  BY <3>2, <3>3, <3>4, <1>1
  <2> HIDE DEF S
  <2> QED  BY <2>1, <2>2, <1>4
<1>7. /\ u \in [used -> Element]
      /\ \A a \in used : /\ u[a].data_ptr = m[a].data_ptr
                         /\ u[a].next = (IF a = prev THEN next ELSE m[a].next)
                         /\ u[a].prev = (IF a = next THEN prev ELSE m[a].prev)
  <2>1. used \subseteq List!Address /\ prev \in used \cup {None} /\ next \in used \cup {None} /\ m \in [used -> Element]
    BY <1>1, <1>3
  <2> HIDE DEF used, prev, next
  <2>2. /\ o \in [used -> Element]
        /\ \A a \in used : /\ o[a].data_ptr = m[a].data_ptr
                           /\ o[a].prev = m[a].prev
                           /\ o[a].next = IF a = prev THEN next ELSE m[a].next
    BY <2>1, SetsNext
  <2> HIDE DEF o
  <2>3. /\ u \in [used -> Element]
        /\ \A a \in used : /\ u[a].data_ptr = o[a].data_ptr
                           /\ u[a].next = o[a].next
                           /\ u[a].prev = IF a = next THEN prev ELSE o[a].prev
    BY <2>1, <2>2, SetsPrev
  <2> HIDE DEF u
  <2> QED  BY <2>2, <2>3
<1>8. n \in [S -> Element] /\ \A a \in S : n[a] = u[a] /\ a \in used
  <2>1. n = [a \in DOMAIN u \ {e} |-> u[a]]
    BY DEF List!free
  <2> HIDE DEF u, used
  <2> QED  BY <2>1, <1>7
<1>9. ASSUME NEW i \in 1..k - 1
      PROVE  /\ n[p[i]].data_ptr = m[p[i]].data_ptr
             /\ n[p[i]].prev = (IF i < k - 1 THEN p[i+1] ELSE None) /\ n[p[i]].next = (IF i > 1 THEN p[i-1] ELSE None)
  <2> DEFINE j == IF i < x THEN i ELSE i + 1
  <2>1. p[i] = q[j] /\ j \in 1..k /\ j # x /\ p[i] \in S
    <3>1. p[i] \in S
      BY <1>4, <1>6
    <3> HIDE DEF k, S
    <3> QED  BY <3>1, <1>1, <1>4
  <2>2. n[p[i]].data_ptr = m[p[i]].data_ptr
    <3>1. p[i] \in S
      BY <2>1
    <3> HIDE DEF S, used, u
    <3>2. p[i] \in used /\ n[p[i]] = u[p[i]]
      BY <3>1, <1>8
    <3>3. u[p[i]].data_ptr = m[p[i]].data_ptr
      BY <3>2, <1>7
    <3> QED  BY <3>2, <3>3
  <2>3. n[p[i]].next = (IF q[j] = prev THEN next ELSE m[q[j]].next) /\ n[p[i]].prev = (IF q[j] = next THEN prev ELSE m[q[j]].prev)
    <3>1. p[i] \in S /\ p[i] = q[j]
      BY <2>1
    <3> HIDE DEF S, used, u, prev, next, j
    <3>2. p[i] \in used /\ n[p[i]] = u[p[i]]
      BY <3>1, <1>8
    <3>3. /\ u[p[i]].next = (IF p[i] = prev THEN next ELSE m[p[i]].next)
          /\ u[p[i]].prev = (IF p[i] = next THEN prev ELSE m[p[i]].prev)
      BY <3>2, <1>7
    <3> QED  BY <3>1, <3>2, <3>3
  <2>4. (q[j] = prev <=> j = x + 1) /\ (q[j] = next <=> j = x - 1)
    <3>1. (x < k => x + 1 \in 1..k) /\ (x > 1 => x - 1 \in 1..k)
      BY <1>1
    <3>2. q[j] # None
      <4> HIDE DEF j
      <4> QED  BY <2>1, <1>1
    <3> HIDE DEF j, k, prev, next
    <3> QED  BY <2>1, <3>1, <3>2, <1>1, <1>3
  <2>5. n[p[i]].next = IF i > 1 THEN p[i-1] ELSE None
    <3>1. CASE j = x + 1
      <4>1. i = x /\ (i > 1 => p[i-1] = q[x-1])
        <5>1. i = x
          BY <3>1, <1>1, <2>1
        <5>2. i > 1 => i - 1 \in 1..k - 1
          BY <1>1
        <5> HIDE DEF k
        <5> QED  BY <5>1, <5>2, <1>4
      <4>2. n[p[i]].next = next
        BY <3>1, <2>3, <2>4
      <4> QED  BY <4>1, <4>2, <1>3
    <3>2. CASE j # x + 1
      <4>1. n[p[i]].next = IF j > 1 THEN q[j-1] ELSE None
        <5> HIDE DEF j, prev, next
        <5> QED  BY <3>2, <2>1, <2>3, <2>4, <1>2
      <4>2. (j > 1 <=> i > 1) /\ (i > 1 => p[i-1] = q[j-1])
        <5>1. (j > 1 <=> i > 1) /\ (i > 1 => i - 1 \in 1..k - 1 /\ (j - 1 = IF i - 1 < x THEN i - 1 ELSE (i - 1) + 1))
          BY <3>2, <1>1, <2>1
        <5> HIDE DEF j, k
        <5> QED  BY <5>1, <1>4
      <4> HIDE DEF j
      <4> QED  BY <4>1, <4>2
    <3> QED  BY <3>1, <3>2
  <2>6. n[p[i]].prev = IF i < k - 1 THEN p[i+1] ELSE None
    <3>1. CASE j = x - 1
      <4>1. i + 1 = x /\ (i < k - 1 <=> x < k) /\ (i < k - 1 => i + 1 \in 1..k - 1)
        BY <3>1, <1>1, <2>1
      <4>2. n[p[i]].prev = prev
        BY <3>1, <2>3, <2>4
      <4> HIDE DEF k, prev
      <4>3. i < k - 1 => p[i+1] = q[x+1]
        BY <4>1, <1>4, <1>1
      <4> QED  BY <4>1, <4>2, <4>3, <1>3
    <3>2. CASE j # x - 1
      <4>1. n[p[i]].prev = IF j < k THEN q[j+1] ELSE None
        <5> HIDE DEF j, prev, next, k
        <5> QED  BY <3>2, <2>1, <2>3, <2>4, <1>2
      <4>2. (j < k <=> i < k - 1) /\ (i < k - 1 => p[i+1] = q[j+1])
        <5>1. (j < k <=> i < k - 1) /\ (i < k - 1 => i + 1 \in 1..k - 1 /\ (j + 1 = IF i + 1 < x THEN i + 1 ELSE (i + 1) + 1))
          BY <3>2, <1>1, <2>1
        <5> HIDE DEF j, k
        <5> QED  BY <5>1, <1>4
      <4> HIDE DEF j, k
      <4> QED  BY <4>1, <4>2
    <3> QED  BY <3>1, <3>2
  <2> QED  BY <2>2, <2>5, <2>6
<1>10. h = (IF p = <<>> THEN None ELSE p[Len(p)]) /\ t = (IF p = <<>> THEN None ELSE p[1])
  <2>1. /\ head = q[k] /\ tail = q[1] /\ q # <<>> /\ head # None /\ tail # None
    <3>1. 1 \in 1..k /\ k \in 1..k /\ q # <<>>
      BY <1>1
    <3> QED  BY <3>1, <1>1 DEF Linked
  <2>2. (p = <<>> <=> k = 1) /\ (p # <<>> => 1 \in 1..k-1 /\ k-1 \in 1..k-1)
    <3>1. k \in Nat /\ k >= 1 /\ p \in Seq(List!Address) /\ Len(p) = k - 1
      BY <1>1, <1>4
    <3> HIDE DEF k
    <3>2. p = <<>> <=> Len(p) = 0
      BY <3>1
    <3> QED  BY <3>1, <3>2
  <2>3. CASE k = 1
    <3>1. x = 1
      BY <1>1, <2>3
    <3> HIDE DEF k, prev, next
    <3> QED  BY <3>1, <2>2, <2>3, <1>3
  <2>4. CASE k # 1
    <3>1. /\ p # <<>> /\ k > 1 /\ 1 \in 1..k - 1 /\ k - 1 \in 1..k-1 /\ (k-1)+1 = k /\ (k-1 < x <=> x = k) /\ (1 < x <=> x # 1) /\ x \in 1..k
      BY <1>1, <2>2, <2>4
    <3>2. (x > 1 => x - 1 \in 1..k /\ q[x-1] # None) /\ (x < k => x + 1 \in 1..k /\ q[x+1] # None) /\ (x = k \/ x < k)
      BY <1>1
    <3> HIDE DEF k, prev, next
    <3>3. p[k-1] = (IF x = k THEN q[k-1] ELSE q[k]) /\ p[1] = IF x = 1 THEN q[2] ELSE q[1]
      BY <3>1, <1>4
    <3>4. h = IF x = k THEN q[k-1] ELSE q[k]
      BY <3>1, <3>2, <1>3, <2>1
    <3>5. t = IF x = 1 THEN q[2] ELSE q[1]
      <4>1. x = 1 \/ x > 1
        BY <3>1, <1>1
      <4> QED  BY <4>1, <3>1, <3>2, <1>3, <2>1
    <3>6. h = p[k-1] /\ t = p[1]
      <4> HIDE DEF h, t
      <4> QED  BY <3>3, <3>4, <3>5
    <3>7. Len(p) = k - 1
      BY <1>4
    <3> QED  BY <3>1, <3>6, <3>7
  <2> QED  BY <2>3, <2>4
<1>11. Linked(n, h, t, p)
  <2>1. n \in [{p[i] : i \in 1..Len(p)} -> Element]
    BY <1>6, <1>8
  <2>2. p \in Seq(List!Address) /\ Len(p) = k - 1
    BY <1>4
  <2> HIDE DEF k, h, t
  <2>3. \A i, j \in 1..Len(p) : p[i] = p[j] => i = j
    BY <2>2, <1>5
  <2>4. \A i \in 1..Len(p) : /\ n[p[i]].prev = IF i < Len(p) THEN p[i+1] ELSE None
                             /\ n[p[i]].next = IF i > 1 THEN p[i-1] ELSE None
    BY <2>2, <1>9
  <2> QED  BY <2>1, <2>2, <2>3, <2>4, <1>10, ZenonT(30) DEF Linked
<1> QED  BY <1>9, <1>11, Zenon

\* What the abstract list holds is the data at the addresses.
LEMMA LinkedContents ==
  ASSUME NEW q, Linked(mem, p_head, p_tail, q)
  PROVE  List!Contents = [i \in 1..Len(q) |-> mem[q[i]].data_ptr]
<1>1. List!Walk(p_tail, "prev") = q /\ DOMAIN q = 1..Len(q)
  <2>1. WalkOf(mem, p_tail, "prev") = q
    BY LinkedWalks
  <2>2. List!Walk(p_tail, "prev") = WalkOf(mem, p_tail, "prev")
    BY WalkIs
  <2> QED  BY <2>1, <2>2 DEF Linked
<1> QED  BY <1>1 DEF List!Contents

\* After a step, the contents are the data along the list.
LEMMA LinkedContentsNext ==
  ASSUME NEW q, Linked(mem', p_head', p_tail', q)
  PROVE  List!Contents' = [i \in 1..Len(q) |-> mem'[q[i]].data_ptr]
<1>1. List!Walk(p_tail, "prev")' = q /\ DOMAIN q = 1..Len(q)
  <2>1. WalkOf(mem', p_tail', "prev") = q
    BY LinkedWalks
  <2>2. List!Walk(p_tail, "prev")' = WalkOf(mem', p_tail', "prev")
    BY ListCardinality DEF List!Walk, WalkOf, Follows
  <2> QED  BY <2>1, <2>2 DEF Linked
<1> QED  BY <1>1 DEF List!Contents


\* A new list is empty.
LEMMA ListStarts == List!Init => ListInv /\ List!Fifo!Init
<1> SUFFICES ASSUME List!Init PROVE ListInv /\ List!Fifo!Init
  OBVIOUS
<1> DEFINE q == <<>>
<1>1. Linked(mem, p_head, p_tail, q) /\ q \in Seq(List!Address) /\ Len(q) = 0
  BY DEF List!Init, Linked
<1>2. List!Contents = <<>>
  <2> HIDE DEF q
  <2>1. List!Contents = [i \in 1..Len(q) |-> mem[q[i]].data_ptr]
    BY <1>1, LinkedContents
  <2> QED  BY <2>1, <1>1
<1> HIDE DEF q
<1> QED  BY <1>1, <1>2 DEF ListInv, List!Fifo!Init, List!Init

\* The places of two sequences put one after the other.
LEMMA ConcatAt ==
  ASSUME NEW D, NEW a \in Seq(D), NEW b \in Seq(D), NEW i \in 1..Len(a) + Len(b)
  PROVE  (a \o b)[i] = IF i <= Len(a) THEN a[i] ELSE b[i - Len(a)]
  OBVIOUS

\* What the FIFO's removal leaves, place by place.
LEMMA RemoveAtIs ==
  ASSUME NEW D, NEW s \in Seq(D), NEW x \in 1..Len(s)
  PROVE  List!Fifo!RemoveAt(s, x) = [i \in 1..Len(s) - 1 |-> IF i < x THEN s[i] ELSE s[i+1]]
<1> DEFINE a == SubSeq(s, 1, x - 1)
           b == SubSeq(s, x + 1, Len(s))
<1>1. Len(s) \in Nat /\ x \in Nat
  OBVIOUS
<1>2. a \in Seq(D) /\ Len(a) = x - 1 /\ \A i \in 1..x-1 : a[i] = s[i]
  BY <1>1
<1>3. b \in Seq(D) /\ Len(b) = Len(s) - x /\ \A i \in 1..Len(s) - x : b[i] = s[i + x]
  BY <1>1
<1> DEFINE c == a \o b
<1>4. List!Fifo!RemoveAt(s, x) = c
  BY DEF List!Fifo!RemoveAt
<1> HIDE DEF a, b
<1>5. /\ c \in Seq(D) /\ Len(c) = Len(s) - 1
      /\ \A i \in 1..Len(s)-1 : c[i] = IF i < x THEN a[i] ELSE b[i - (x - 1)]
  <2>1. c \in Seq(D) /\ Len(c) = Len(a) + Len(b)
    <3>1. a \in Seq(D) /\ b \in Seq(D)
      BY <1>2, <1>3
    <3> QED  BY <3>1
  <2>2. Len(c) = Len(s) - 1
    BY <2>1, <1>1, <1>2, <1>3
  <2>3. ASSUME NEW i \in 1..Len(s)-1 PROVE c[i] = IF i < x THEN a[i] ELSE b[i - (x - 1)]
    <3>1. i \in 1..Len(a) + Len(b) /\ (i < x <=> i <= Len(a))
      BY <1>1, <1>2, <1>3
    <3>2. a \in Seq(D) /\ b \in Seq(D)
      BY <1>2, <1>3
    <3>3. c[i] = IF i <= Len(a) THEN a[i] ELSE b[i - Len(a)]
      BY <3>1, <3>2, ConcatAt
    <3> QED  BY <3>1, <3>3, <1>2
  <2> HIDE DEF c
  <2> QED  BY <2>1, <2>2, <2>3
<1> HIDE DEF c
<1>6. ASSUME NEW i \in 1..Len(s)-1 PROVE c[i] = IF i < x THEN s[i] ELSE s[i+1]
  <2>1. CASE i < x
    <3>1. i \in 1..x-1
      BY <2>1, <1>1
    <3> QED  BY <3>1, <2>1, <1>2, <1>5
  <2>2. CASE ~(i < x)
    <3>1. i - (x - 1) \in 1..Len(s) - x /\ i - (x - 1) + x = i + 1
      BY <2>2, <1>1
    <3> QED  BY <3>1, <2>2, <1>3, <1>5
  <2> QED  BY <2>1, <2>2
<1> QED  BY <1>4, <1>5, <1>6

\* linked_list_add puts its element at the end.
LEMMA AddImplements ==
  ASSUME ListInv, NEW data \in Data, List!linked_list_add(data)
  PROVE  ListInv' /\ List!Fifo!Add(data)
<1>1. PICK q \in Seq(List!Address) : Linked(mem, p_head, p_tail, q)
  BY DEF ListInv
<1>2. PICK e \in List!Free :
        /\ mem' = List!setPrev(List!malloc(mem, e, [next |-> p_head, prev |-> None, data_ptr |-> data]), p_head, e)
        /\ p_head' = e /\ p_tail' = IF p_head = None THEN e ELSE p_tail
  BY DEF List!linked_list_add
<1> DEFINE p == Append(q, e)
           t == IF p_head = None THEN e ELSE p_tail
<1>3. /\ Linked(mem', e, t, p) /\ Len(q) < MaxElements
      /\ mem'[e].data_ptr = data /\ \A i \in 1..Len(q) : mem'[q[i]].data_ptr = mem[q[i]].data_ptr
  BY <1>1, <1>2, Added DEF List!Free
<1>4. /\ p \in Seq(List!Address) /\ Len(p) = Len(q) + 1 /\ Len(q) \in Nat /\ p[Len(q)+1] = e
      /\ \A i \in 1..Len(q) : p[i] = q[i]
  BY <1>2 DEF List!Free
<1> HIDE DEF p
<1>5. Linked(mem', p_head', p_tail', p)
  BY <1>2, <1>3
<1> DEFINE c == [i \in 1..Len(q) |-> mem[q[i]].data_ptr]
           d == [i \in 1..Len(p) |-> mem'[p[i]].data_ptr]
<1>6. List!Contents = c /\ List!Contents' = d
  BY <1>1, <1>5, LinkedContents, LinkedContentsNext
<1>7. c \in Seq(Data)
  <2>1. \A i \in 1..Len(q) : mem[q[i]] \in Element
    BY <1>1 DEF Linked
  <2> QED  BY <2>1, <1>4 DEF Element
<1>8. d = Append(c, data) /\ Len(c) = Len(q)
  <2>1. \A i \in 1..Len(q) + 1 : d[i] = IF i = Len(q) + 1 THEN data ELSE c[i]
    BY <1>3, <1>4
  <2>2. Len(c) = Len(q)
    BY <1>4
  <2> HIDE DEF c
  <2> DEFINE g == Append(c, data)
  <2>3. g \in Seq(Data) /\ Len(g) = Len(q) + 1 /\ \A i \in 1..Len(q) + 1 : g[i] = IF i = Len(q) + 1 THEN data ELSE c[i]
    BY <1>7, <2>2, <1>4
  <2>4. d = [i \in 1..Len(q) + 1 |-> d[i]]
    BY <1>4
  <2> HIDE DEF g, d
  <2>5. d = g
    BY <2>1, <2>3, <2>4
  <2> QED  BY <2>2, <2>5 DEF g
<1> HIDE DEF c, d
<1> QED  BY <1>3, <1>4, <1>5, <1>6, <1>8 DEF ListInv, List!Fifo!Add, List!linked_list_add

\* An address that is unlinked takes its data from the list.
LEMMA UnlinkImplements ==
  ASSUME NEW q, Linked(mem, p_head, p_tail, q), NEW x \in 1..Len(q), List!unlink(q[x])
  PROVE  /\ ListInv'
         /\ List!Contents \in Seq(Data) /\ Len(List!Contents) = Len(q)
         /\ List!Contents' = [i \in 1..Len(q) - 1 |-> IF i < x THEN List!Contents[i] ELSE List!Contents[i+1]]
<1> DEFINE e == q[x]
           p == [i \in 1..Len(q) - 1 |-> IF i < x THEN q[i] ELSE q[i+1]]
           h == IF mem[e].prev = None THEN mem[e].next ELSE p_head
           t == IF mem[e].next = None THEN mem[e].prev ELSE p_tail
<1>1. /\ mem' = List!free(List!setPrev(List!setNext(mem, mem[e].prev, mem[e].next), mem[e].next, mem[e].prev), e)
      /\ p_head' = h /\ p_tail' = t
  BY DEF List!unlink
<1>2. Linked(mem', h, t, p) /\ \A i \in 1..Len(q) - 1 : mem'[p[i]].data_ptr = mem[p[i]].data_ptr
  <2>1. e = q[x] /\ p = Without(q, x)
    BY DEF Without
  <2> HIDE DEF e, p
  <2> QED  BY <2>1, <1>1, Unlinked
<1>3. /\ q \in Seq(List!Address) /\ Len(q) \in Nat /\ \A i \in 1..Len(q) : mem[q[i]] \in Element
  BY DEF Linked
<1>4. /\ \A i \in 1..Len(q) - 1 : p[i] = (IF i < x THEN q[i] ELSE q[i+1]) /\ i \in 1..Len(q) /\ i + 1 \in 1..Len(q)
      /\ Len(p) = Len(q) - 1
  <2>1. \A i \in 1..Len(q) - 1 : i \in 1..Len(q) /\ i + 1 \in 1..Len(q)
    BY <1>3
  <2>2. Len(p) = Len(q) - 1
    BY <1>3
  <2> QED  BY <2>1, <2>2
<1> HIDE DEF p, h, t, e
<1>5. Linked(mem', p_head', p_tail', p) /\ p \in Seq(List!Address)
  BY <1>1, <1>2 DEF Linked
<1> DEFINE c == [i \in 1..Len(q) |-> mem[q[i]].data_ptr]
           d == [i \in 1..Len(p) |-> mem'[p[i]].data_ptr]
<1>6. List!Contents = c /\ List!Contents' = d
  BY <1>5, LinkedContents, LinkedContentsNext
<1>7. c \in Seq(Data) /\ Len(c) = Len(q)
  BY <1>3 DEF Element
<1>8. d = [i \in 1..Len(q) - 1 |-> IF i < x THEN c[i] ELSE c[i+1]]
  <2>1. \A i \in 1..Len(q) - 1 : d[i] = IF i < x THEN c[i] ELSE c[i+1]
    BY <1>2, <1>4
  <2> HIDE DEF c
  <2> QED  BY <2>1, <1>4
<1> HIDE DEF c, d
<1> QED  BY <1>5, <1>6, <1>7, <1>8 DEF ListInv

\* linked_list_remove takes the oldest element.
LEMMA RemoveImplements ==
  ASSUME ListInv, List!linked_list_remove
  PROVE  ListInv' /\ List!Fifo!Take
<1>1. PICK q \in Seq(List!Address) : Linked(mem, p_head, p_tail, q)
  BY DEF ListInv
<1>2. /\ q \in Seq(List!Address) /\ Len(q) \in Nat /\ \A i \in 1..Len(q) : q[i] \in List!Address /\ q[i] # None
      /\ p_tail = IF q = <<>> THEN None ELSE q[1]
  BY <1>1, ListSizes DEF Linked
<1>3. CASE q = <<>>
  <2>1. List!Contents = [i \in 1..Len(q) |-> mem[q[i]].data_ptr]
    BY <1>1, LinkedContents
  <2>2. List!Contents = <<>> /\ p_tail = None
    BY <2>1, <1>2, <1>3
  <2>3. UNCHANGED <<mem, p_head, p_tail>> /\ listCall' = <<"remove", None, None>>
    BY <2>2 DEF List!linked_list_remove
  <2>4. List!Contents' = List!Contents
    BY <2>3 DEF List!Contents, List!Walk
  <2> QED  BY <2>2, <2>3, <2>4, <1>1 DEF ListInv, List!Fifo!Take
<1>4. CASE q # <<>>
  <2> DEFINE x == 1
  <2>1. x \in 1..Len(q) /\ p_tail = q[x] /\ p_tail # None /\ mem[p_tail].next = None
    BY <1>1, <1>2, <1>4 DEF Linked
  <2>2. /\ listCall' = <<"remove", None, mem[q[x]].data_ptr>>
        /\ p_tail' = mem[p_tail].prev /\ p_head' = (IF mem[p_tail].prev = None THEN None ELSE p_head)
        /\ mem' = List!free(List!setNext(mem, mem[p_tail].prev, None), p_tail)
    BY <2>1 DEF List!linked_list_remove
  <2>3. List!unlink(q[x])
    <3>1. List!setPrev(List!setNext(mem, mem[p_tail].prev, None), mem[p_tail].next, mem[p_tail].prev)
            = List!setNext(mem, mem[p_tail].prev, None)
      BY <2>1 DEF List!setPrev
    <3> HIDE DEF x
    <3> QED  BY <2>1, <2>2, <3>1 DEF List!unlink
  <2>4. /\ ListInv' /\ List!Contents \in Seq(Data) /\ Len(List!Contents) = Len(q)
        /\ List!Contents' = [i \in 1..Len(q) - 1 |-> IF i < x THEN List!Contents[i] ELSE List!Contents[i+1]]
    BY <2>1, <2>3, <1>1, UnlinkImplements
  <2>5. List!Contents = [i \in 1..Len(q) |-> mem[q[i]].data_ptr]
    BY <1>1, LinkedContents
  <2> DEFINE c == List!Contents
  <2> HIDE DEF c
  <2>6. c # <<>> /\ Head(c) = mem[q[x]].data_ptr
    <3>1. c # <<>> /\ Head(c) = c[1]
      BY <2>1, <2>4 DEF c
    <3> QED  BY <3>1, <2>1, <2>5 DEF c
  <2>7. List!Contents' = Tail(c)
    <3>1. Tail(c) = [i \in 1..Len(q) - 1 |-> c[i+1]]
      <4>1. c \in Seq(Data) /\ Len(c) = Len(q) /\ c # <<>>
        BY <2>4, <2>6 DEF c
      <4> DEFINE d == Tail(c)
      <4>2. d \in Seq(Data) /\ Len(d) = Len(q) - 1 /\ \A i \in 1..Len(q) - 1 : d[i] = c[i+1]
        BY <4>1
      <4> HIDE DEF d
      <4>3. d = [i \in 1..Len(q) - 1 |-> c[i+1]]
        BY <4>2
      <4> QED  BY <4>3 DEF d
    <3>2. \A i \in 1..Len(q) - 1 : ~(i < x)
      BY <1>2
    <3> QED  BY <3>1, <3>2, <2>4 DEF c
  <2> QED  BY <2>2, <2>4, <2>6, <2>7 DEF List!Fifo!Take, c
<1> QED  BY <1>3, <1>4

\* linked_list_flush empties the list.
LEMMA FlushImplements ==
  ASSUME ListInv, List!linked_list_flush
  PROVE  ListInv' /\ List!Fifo!Flush
<1>1. PICK q \in Seq(List!Address) : Linked(mem, p_head, p_tail, q)
  BY DEF ListInv
<1> DEFINE r == [i \in 1..Len(q) |-> q[Len(q) + 1 - i]]
           w == List!Walk(p_head, "next")
<1>2. w = r /\ Len(q) \in Nat
  <2>1. WalkOf(mem, p_head, "next") = r
    BY <1>1, LinkedWalks
  <2> QED  BY <2>1, WalkIs
<1>3. DOMAIN mem \ List!ToSet(w) = {}
  <2>1. ASSUME NEW a \in DOMAIN mem PROVE a \in List!ToSet(w)
    <3>1. PICK i \in 1..Len(q) : a = q[i]
      BY <1>1 DEF Linked
    <3>2. Len(q) + 1 - i \in 1..Len(q) /\ Len(q) + 1 - (Len(q) + 1 - i) = i
      BY <1>2
    <3>3. r[Len(q) + 1 - i] = a /\ Len(q) + 1 - i \in DOMAIN r
      BY <3>1, <3>2
    <3> HIDE DEF r, w
    <3> QED  BY <3>3, <1>2 DEF List!ToSet
  <2> QED  BY <2>1
<1>4. /\ mem' = [a \in {} |-> mem[a]] /\ p_head' = None /\ p_tail' = None
      /\ listCall' = <<"flush", None, None>>
  BY <1>3 DEF List!linked_list_flush
<1> DEFINE p == <<>>
<1>5. Linked(mem', p_head', p_tail', p) /\ p \in Seq(List!Address) /\ Len(p) = 0
  BY <1>4 DEF Linked
<1>6. List!Contents' = <<>>
  <2> HIDE DEF p
  <2>1. List!Contents' = [i \in 1..Len(p) |-> mem'[p[i]].data_ptr]
    BY <1>5, LinkedContentsNext
  <2> QED  BY <2>1, <1>5
<1> HIDE DEF p
<1> QED  BY <1>4, <1>5, <1>6 DEF ListInv, List!Fifo!Flush

\* linked_list_search finds the newest of the elements that match, and removes that one only.
LEMMA SearchImplements ==
  ASSUME ListInv, NEW data \in Data, NEW rm_if_found \in BOOLEAN, List!linked_list_search(data, rm_if_found)
  PROVE  ListInv' /\ List!Fifo!Search(data, rm_if_found)
<1>1. PICK q \in Seq(List!Address) : Linked(mem, p_head, p_tail, q)
  BY DEF ListInv
<1> DEFINE r == [i \in 1..Len(q) |-> q[Len(q) + 1 - i]]
           c == List!Contents
           found == {i \in DOMAIN List!searchOrder : mem[List!searchOrder[i]].data_ptr = data}
<1>2. List!searchOrder = r /\ Len(q) \in Nat /\ q \in Seq(List!Address)
  <2>1. WalkOf(mem, p_head, "next") = r
    BY <1>1, LinkedWalks
  <2> QED  BY <2>1, WalkIs, <1>1 DEF List!searchOrder, Linked
<1>3. c = [i \in 1..Len(q) |-> mem[q[i]].data_ptr]
  BY <1>1, LinkedContents
<1>4. c \in Seq(Data) /\ Len(c) = Len(q)
  <2>1. \A i \in 1..Len(q) : mem[q[i]] \in Element
    BY <1>1 DEF Linked
  <2> QED  BY <2>1, <1>2, <1>3 DEF Element
<1> HIDE DEF c
<1>5. /\ found \subseteq 1..Len(q)
      /\ \A i \in 1..Len(q) : Len(q) + 1 - i \in 1..Len(q) /\ (i \in found <=> c[Len(q) + 1 - i] = data)
  BY <1>2, <1>3
<1>6. /\ found = {} => listCall' = <<"search", data, None>> /\ UNCHANGED <<mem, p_head, p_tail>>
      /\ found # {} => /\ listCall' = <<"search", data, data>>
                       /\ rm_if_found => List!unlink(r[List!Min(found)])
                       /\ ~rm_if_found => UNCHANGED <<mem, p_head, p_tail>>
  BY <1>2 DEF List!linked_list_search
<1> HIDE DEF found
<1>7. found = {} <=> ~List!Fifo!Contains(c, data)
  <2>1. \A i \in 1..Len(q) : Len(q) + 1 - (Len(q) + 1 - i) = i
    BY <1>2
  <2>2. List!Fifo!Contains(c, data) <=> \E i \in 1..Len(q) : c[i] = data
    BY <1>4 DEF List!Fifo!Contains
  <2> QED  BY <2>1, <2>2, <1>5
<1>8. CASE UNCHANGED <<mem, p_head, p_tail>> /\ (found # {} => ~rm_if_found)
  <2>1. List!Contents' = List!Contents /\ ListInv'
    BY <1>8 DEF List!Contents, List!Walk, ListInv
  <2> QED  BY <2>1, <1>6, <1>7, <1>8 DEF List!Fifo!Search, c
<1>9. CASE found # {} /\ rm_if_found
  <2> DEFINE k == List!Min(found)
             x == Len(q) + 1 - k
  <2>1. k \in found /\ \A i \in found : k <= i
    <3>1. \E i \in found : \A j \in found : i <= j
      <4>1. found \subseteq Nat
        BY <1>5, <1>2
      <4> QED  BY <4>1, <1>9, NatMin
    <3> QED  BY <3>1, ListMin
  <2> HIDE DEF k
  <2>2. x \in 1..Len(q) /\ r[k] = q[x] /\ c[x] = data /\ \A j \in 1..Len(q) : c[j] = data => j <= x
    <3>1. k \in 1..Len(q)
      BY <2>1, <1>5
    <3>2. x \in 1..Len(q) /\ r[k] = q[x] /\ c[x] = data
      BY <3>1, <2>1, <1>5
    <3>3. ASSUME NEW j \in 1..Len(q), c[j] = data PROVE j <= x
      <4>1. Len(q) + 1 - j \in found
        <5>1. Len(q) + 1 - j \in 1..Len(q) /\ Len(q) + 1 - (Len(q) + 1 - j) = j
          BY <1>2
        <5> QED  BY <5>1, <3>3, <1>5
      <4>2. k <= Len(q) + 1 - j
        BY <4>1, <2>1
      <4> QED  BY <4>2, <3>1, <1>2
    <3> QED  BY <3>2, <3>3
  <2> HIDE DEF x, r
  <2>3. List!unlink(q[x])
    BY <1>6, <1>9, <2>2 DEF k
  <2>4. ListInv' /\ List!Contents' = [i \in 1..Len(q) - 1 |-> IF i < x THEN c[i] ELSE c[i+1]]
    BY <1>1, <2>2, <2>3, UnlinkImplements DEF c
  <2>5. List!Fifo!RemoveAt(c, x) = [i \in 1..Len(q) - 1 |-> IF i < x THEN c[i] ELSE c[i+1]]
    BY <1>4, <2>2, RemoveAtIs
  <2>6. List!Fifo!Newest(data) = x
    <3>1. List!Fifo!Newest(data) = CHOOSE i \in DOMAIN c : c[i] = data /\ \A j \in DOMAIN c : c[j] = data => j <= i
      BY DEF List!Fifo!Newest, c
    <3>2. DOMAIN c = 1..Len(q)
      BY <1>4
    <3>3. \A i \in 1..Len(q) : c[i] = data /\ (\A j \in 1..Len(q) : c[j] = data => j <= i) => i = x
      BY <2>2, <1>2
    <3> QED  BY <3>1, <3>2, <3>3, <2>2
  <2>7. List!Fifo!Contains(c, data) /\ listCall' = <<"search", data, data>>
    BY <1>6, <1>7, <1>9
  <2> QED  BY <2>4, <2>5, <2>6, <2>7, <1>9 DEF List!Fifo!Search, c
<1> QED  BY <1>6, <1>8, <1>9

\* Each step of the list is one of the FIFO, or none.
LEMMA ListSteps == ListInv /\ [List!Next]_(List!vars) => ListInv' /\ [List!Fifo!Next]_(List!Fifo!vars)
<1> SUFFICES ASSUME ListInv, [List!Next]_(List!vars) PROVE ListInv' /\ [List!Fifo!Next]_(List!Fifo!vars)
  OBVIOUS
<1>1. CASE List!linked_list_remove
  BY <1>1, RemoveImplements DEF List!Fifo!Next
<1>2. CASE List!linked_list_flush
  BY <1>2, FlushImplements DEF List!Fifo!Next
<1>3. ASSUME NEW data \in Data, List!linked_list_add(data) PROVE ListInv' /\ List!Fifo!Next
  BY <1>3, AddImplements DEF List!Fifo!Next
<1>4. ASSUME NEW data \in Data, List!mallocFails(data) PROVE ListInv' /\ List!Fifo!Next
  <2>1. listCall' = <<"add", data, None>> /\ UNCHANGED <<mem, p_head, p_tail>>
    BY <1>4 DEF List!mallocFails
  <2>2. ListInv' /\ List!Contents' = List!Contents
    BY <2>1 DEF ListInv, List!Contents, List!Walk
  <2> QED  BY <2>1, <2>2 DEF List!Fifo!Next, List!Fifo!AddFails
<1>5. ASSUME NEW data \in Data, NEW rm_if_found \in BOOLEAN, List!linked_list_search(data, rm_if_found)
      PROVE  ListInv' /\ List!Fifo!Next
  BY <1>5, SearchImplements DEF List!Fifo!Next
<1>6. CASE UNCHANGED List!vars
  <2>1. ListInv' /\ List!Contents' = List!Contents /\ listCall' = listCall
    BY <1>6 DEF List!vars, ListInv, List!Contents, List!Walk
  <2> QED  BY <2>1 DEF List!Fifo!vars
<1> QED  BY <1>1, <1>2, <1>3, <1>4, <1>5, <1>6 DEF List!Next

\* The pointers of both directions agree.
LEMMA ListLinked == ListInv => List!DoublyLinked
<1> SUFFICES ASSUME NEW q \in Seq(List!Address), Linked(mem, p_head, p_tail, q) PROVE List!DoublyLinked
  BY DEF ListInv
<1> DEFINE r == [i \in 1..Len(q) |-> q[Len(q) + 1 - i]]
<1>1. List!Walk(p_tail, "prev") = q /\ List!Walk(p_head, "next") = r
  <2>1. WalkOf(mem, p_tail, "prev") = q /\ WalkOf(mem, p_head, "next") = r
    BY LinkedWalks
  <2> QED  BY <2>1, WalkIs
<1>2. /\ DOMAIN mem = {q[i] : i \in 1..Len(q)} /\ DOMAIN r = 1..Len(q) /\ Len(q) \in Nat
      /\ \A i \in 1..Len(q) : Len(q) + 1 - i \in 1..Len(q) /\ Len(q) + 1 - (Len(q) + 1 - i) = i /\ Len(q) - i + 1 = Len(q) + 1 - i
  BY DEF Linked
<1>3. r = List!Reverse(q)
  BY <1>2 DEF List!Reverse
<1>4. List!ToSet(r) = DOMAIN mem
  <2>1. \A i \in 1..Len(q) : r[i] = q[Len(q) + 1 - i] /\ r[Len(q) + 1 - i] = q[i]
    BY <1>2
  <2>2. List!ToSet(r) = {r[i] : i \in 1..Len(q)}
    BY <1>2 DEF List!ToSet
  <2> HIDE DEF r
  <2> QED  BY <2>1, <2>2, <1>2
<1>5. {p_head, p_tail} \cup UNION {{mem[e].next, mem[e].prev} : e \in DOMAIN mem} \subseteq DOMAIN mem \cup {None}
  <2>1. p_head \in DOMAIN mem \cup {None} /\ p_tail \in DOMAIN mem \cup {None}
    <3>1. q # <<>> => 1 \in 1..Len(q) /\ Len(q) \in 1..Len(q)
      BY <1>2
    <3> QED  BY <3>1, <1>2 DEF Linked
  <2>2. ASSUME NEW e \in DOMAIN mem PROVE mem[e].next \in DOMAIN mem \cup {None} /\ mem[e].prev \in DOMAIN mem \cup {None}
    <3>1. PICK i \in 1..Len(q) : e = q[i]
      BY <1>2
    <3>2. (i < Len(q) => i + 1 \in 1..Len(q)) /\ (i > 1 => i - 1 \in 1..Len(q))
      BY <1>2
    <3>3. /\ mem[q[i]].prev = IF i < Len(q) THEN q[i+1] ELSE None
          /\ mem[q[i]].next = IF i > 1 THEN q[i-1] ELSE None
      BY DEF Linked
    <3> HIDE DEF r
    <3> QED  BY <3>1, <3>2, <3>3, <1>2
  <2> QED  BY <2>1, <2>2
<1> HIDE DEF r
<1> QED  BY <1>1, <1>3, <1>4, <1>5 DEF List!DoublyLinked

\* The list that msg_q stands on is a first-in first-out list: adding, removing, flushing and searching give what a
\* sequence would, and the pointers of both directions agree, for any number of elements, any data and any addresses
\* that malloc returns (linked_list.c).
THEOREM ListIsFifo == PlatformSpec => ImplementsFifo
<1>1. PlatformInit => ListInv /\ List!Fifo!Init
  BY ListStarts DEF PlatformInit
<1>2. ListInv /\ [PlatformNext]_allVars => ListInv' /\ [List!Fifo!Next]_(List!Fifo!vars)
  <2> SUFFICES ASSUME ListInv, [PlatformNext]_allVars PROVE ListInv' /\ [List!Fifo!Next]_(List!Fifo!vars)
    OBVIOUS
  <2>1. [List!Next]_(List!vars)
    BY DEF PlatformNext, allVars, listVars, List!vars
  <2> QED  BY <2>1, ListSteps
<1>3. ListInv => List!DoublyLinked
  BY ListLinked
<1> QED
  BY <1>1, <1>2, <1>3, PTL DEF PlatformSpec, ImplementsFifo, List!ImplementsFifo, List!Fifo!Spec
=============================================================================
