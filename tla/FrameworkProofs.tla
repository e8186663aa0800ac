--------------------------- MODULE FrameworkProofs ---------------------------
(***************************************************************************)
(* Proofs about the parts between the framework and the adapters that the  *)
(* module MCClients puts side by side.  A step of ClientsSpec is a step of *)
(* one part or leaves the part alone, so each part has an invariant of its *)
(* own.  The bounds, the sets of clients, adapters and callbacks and the   *)
(* size of the table are constants: nothing is said of their values but    *)
(* what ClientsAssumption says.                                            *)
(***************************************************************************)
EXTENDS MCClients, FiniteSetTheorems, TLAPS

-----------------------------------------------------------------------------
(***************************************************************************)
(* The table of adapters and the event masks, for tables of any size, any  *)
(* adapters, clients and callbacks, and any number of messages under way.  *)
(***************************************************************************)
\* Messages to the message thread; those that open the engine, in a queue.
EventMsg == Events!Commands \cup [type : {"LocOpenMsg", "LocSsrMsg", "MsgSetConfig"}]
OpenTypes == {"LocOpenMsg", "LocSsrMsg"}
Opening(q) == \E i \in DOMAIN q : q[i].type \in OpenTypes

EventTypes ==
  /\ mLocAdapters \in Seq(Events!Adapters) /\ Gnss \in Events!Range(mLocAdapters)
  /\ mEvtMask = [a \in Events!Adapters |-> mEvtMask[a]]
  /\ mClientData \in [EventClients -> SUBSET Events!Callbacks]
  /\ mAgpsCbInfo \in 0..2 /\ odcpiRequestCb \in BOOLEAN /\ mNmeaMask \in BOOLEAN /\ features \in BOOLEAN
  /\ msgs \in Seq(EventMsg)
  /\ alive \subseteq Events!Adapters

\* An engine that is up and not about to be opened again is open with what the adapters need.
EngineFollows ==
  \/ engine.state = "down" \/ Opening(msgs)
  \/ engine = Events!Opened(Events!getEvtMask(mLocAdapters, mEvtMask))

\* A configuration in queue q comes before every new client.
ConfigComes(q) ==
  \E j \in DOMAIN q : /\ q[j].type = "MsgSetConfig"
                      /\ \A i \in DOMAIN q : q[i].type = "MsgAddClient" => j < i

\* If the features are known from the start, the NMEA mask is set before a client comes.
ConfiguredFirst ==
  ~LateFeatures => features /\ (mNmeaMask \/ (ConfigComes(msgs) /\ \A c \in EventClients : mClientData[c] = {}))

EventInv == /\ EventTypes /\ Events!NoDanglingAdapter /\ EngineFollows /\ ConfiguredFirst
            /\ Events!GnssMaskFollowsNeeds

LEMMA EventAssumptions ==
  /\ Gnss \notin Others /\ EventCallbacks \subseteq SUBSET Events!Callbacks
  /\ NmeaByModem \in BOOLEAN /\ LateFeatures \in BOOLEAN
  /\ MAX_ADAPTERS \in Nat \ {0} /\ MaxEventMsgs \in Nat
  BY ClientsAssumption DEF Events!NeedsAssumption, Events!MaxAssumption

\* What EngineFollows says in the words of the module.
LEMMA FollowsMeans == EventInv => Events!EngineFollowsAdapters
<1> SUFFICES ASSUME EventInv, ~Events!Renegotiating PROVE ~Opening(msgs)
  BY DEF EventInv, EngineFollows, Events!EngineFollowsAdapters
<1>1. DOMAIN msgs = 1..Len(msgs)
  BY DEF EventInv, EventTypes
<1> QED
  BY <1>1 DEF Events!Renegotiating, Opening, OpenTypes

\* A queue that grows, and one that loses its head.
LEMMA EventAppended ==
  ASSUME NEW q \in Seq(EventMsg), NEW m \in EventMsg
  PROVE  /\ Append(q, m) \in Seq(EventMsg)
         /\ Opening(Append(q, m)) <=> Opening(q) \/ m.type \in OpenTypes
         /\ ConfigComes(q) => ConfigComes(Append(q, m))
<1> DEFINE a == Append(q, m)
<1>1. /\ a \in Seq(EventMsg) /\ Len(q) \in Nat /\ DOMAIN q = 1..Len(q)
      /\ DOMAIN a = DOMAIN q \cup {Len(q) + 1} /\ a[Len(q) + 1] = m
      /\ \A i \in DOMAIN q : a[i] = q[i]
  OBVIOUS
<1> HIDE DEF a
<1>2. Opening(a) <=> Opening(q) \/ m.type \in OpenTypes
  BY <1>1 DEF Opening
<1>3. ASSUME ConfigComes(q) PROVE ConfigComes(a)
  <2>1. PICK j \in DOMAIN q : /\ q[j].type = "MsgSetConfig"
                             /\ \A i \in DOMAIN q : q[i].type = "MsgAddClient" => j < i
    BY <1>3 DEF ConfigComes
  <2>2. j \in DOMAIN a /\ a[j] = q[j] /\ j < Len(q) + 1
    BY <1>1
  <2>3. \A i \in DOMAIN a : a[i].type = "MsgAddClient" => j < i
    BY <1>1, <2>1, <2>2
  <2> QED  BY <2>1, <2>2, <2>3 DEF ConfigComes
<1> QED
  BY <1>1, <1>2, <1>3 DEF a

LEMMA EventTaken ==
  ASSUME NEW q \in Seq(EventMsg), q # <<>>
  PROVE  /\ Tail(q) \in Seq(EventMsg) /\ Head(q) \in EventMsg
         /\ Opening(q) => Opening(Tail(q)) \/ Head(q).type \in OpenTypes
         /\ ConfigComes(q) /\ Head(q).type # "MsgSetConfig" =>
              ConfigComes(Tail(q)) /\ Head(q).type # "MsgAddClient"
<1> DEFINE t == Tail(q)
<1>1. /\ Len(q) \in Nat \ {0} /\ DOMAIN q = 1..Len(q) /\ Head(q) = q[1] /\ Head(q) \in EventMsg
      /\ t \in Seq(EventMsg) /\ DOMAIN t = 1..(Len(q) - 1)
      /\ \A i \in 1..(Len(q) - 1) : t[i] = q[i + 1]
  OBVIOUS
<1> HIDE DEF t
<1>2. \A i \in DOMAIN q : i = 1 \/ (i - 1 \in DOMAIN t /\ t[i - 1] = q[i])
  BY <1>1
<1>3. \A i \in DOMAIN t : i + 1 \in DOMAIN q /\ t[i] = q[i + 1]
  BY <1>1
<1>4. Opening(q) => Opening(t) \/ Head(q).type \in OpenTypes
  BY <1>1, <1>2 DEF Opening
<1>5. ASSUME ConfigComes(q), Head(q).type # "MsgSetConfig" PROVE ConfigComes(t) /\ Head(q).type # "MsgAddClient"
  <2>1. PICK j \in DOMAIN q : /\ q[j].type = "MsgSetConfig"
                             /\ \A i \in DOMAIN q : q[i].type = "MsgAddClient" => j < i
    BY <1>5 DEF ConfigComes
  <2>2. j # 1 /\ 1 \in DOMAIN q /\ ~(j < 1) /\ j \in Nat
    BY <1>1, <1>5, <2>1
  <2>3. j - 1 \in DOMAIN t /\ t[j - 1] = q[j]
    BY <1>2, <2>2
  <2>4. \A i \in DOMAIN t : t[i].type = "MsgAddClient" => j - 1 < i
    BY <1>1, <1>3, <2>1, <2>2
  <2> QED  BY <1>1, <2>1, <2>2, <2>3, <2>4 DEF ConfigComes
<1> QED
  BY <1>1, <1>4, <1>5 DEF t

\* Adapters of a table.
LEMMA TableRange ==
  ASSUME NEW t \in Seq(Events!Adapters)
  PROVE  /\ Len(t) \in Nat /\ DOMAIN t = 1..Len(t)
         /\ Events!Range(t) = {t[i] : i \in 1..Len(t)}
         /\ Events!IsInjective(t) <=> \A i, j \in 1..Len(t) : t[i] = t[j] => i = j
<1>1. Len(t) \in Nat /\ DOMAIN t = 1..Len(t)
  OBVIOUS
<1> QED
  BY <1>1 DEF Events!Range, Events!IsInjective

\* An adapter that is new to the table comes last.
LEMMA TableGrows ==
  ASSUME NEW t \in Seq(Events!Adapters), NEW a \in Events!Adapters, a \notin Events!Range(t), Events!IsInjective(t)
  PROVE  /\ Append(t, a) \in Seq(Events!Adapters) /\ Len(Append(t, a)) = Len(t) + 1
         /\ Events!Range(Append(t, a)) = Events!Range(t) \cup {a} /\ Events!IsInjective(Append(t, a))
<1> DEFINE n == Append(t, a)
<1>1. /\ n \in Seq(Events!Adapters) /\ Len(n) = Len(t) + 1 /\ Len(t) \in Nat /\ n[Len(t) + 1] = a
      /\ \A i \in 1..Len(t) : n[i] = t[i]
  OBVIOUS
<1> HIDE DEF n
<1>2. \A i \in 1..Len(n) : i \in 1..Len(t) \/ i = Len(t) + 1
  BY <1>1
<1>3. Events!Range(n) = Events!Range(t) \cup {a}
  <2>1. \A i \in 1..Len(t) : i \in 1..Len(n)
    BY <1>1
  <2>2. Len(t) + 1 \in 1..Len(n)
    BY <1>1
  <2>3. \A x \in Events!Range(n) : x \in Events!Range(t) \cup {a}
    BY <1>1, <1>2, TableRange
  <2>4. \A x \in Events!Range(t) : x \in Events!Range(n)
    BY <1>1, <2>1, TableRange
  <2>5. a \in Events!Range(n)
    BY <1>1, <2>2, TableRange
  <2> QED  BY <2>3, <2>4, <2>5
<1>4. Events!IsInjective(n)
  <2>1. \A i \in 1..Len(t) : n[i] # a
    BY <1>1, TableRange
  <2>2. \A i, j \in 1..Len(t) : n[i] = n[j] => i = j
    BY <1>1, TableRange
  <2>3. \A i, j \in 1..Len(n) : n[i] = n[j] => i = j
    BY <1>1, <1>2, <2>1, <2>2
  <2> QED  BY <1>1, <2>3, TableRange
<1> QED
  BY <1>1, <1>3, <1>4 DEF n

\* The last adapter takes the place of the one removed.
LEMMA TableShrinks ==
  ASSUME NEW t \in Seq(Events!Adapters), NEW a \in Events!Range(t), Events!IsInjective(t)
  PROVE  /\ Events!without(t, a) \in Seq(Events!Adapters) /\ Len(Events!without(t, a)) = Len(t) - 1
         /\ Events!Range(Events!without(t, a)) = Events!Range(t) \ {a} /\ Events!IsInjective(Events!without(t, a))
<1> DEFINE n == Events!without(t, a)
           last == t[Len(t)]
<1>1. PICK k \in 1..Len(t) : t[k] = a
  BY TableRange
<1>2. /\ Len(t) \in Nat \ {0} /\ last \in Events!Adapters
      /\ \A i \in 1..Len(t) : t[i] \in Events!Adapters
  BY <1>1, TableRange
<1>3. n = [i \in 1 .. Len(t) - 1 |-> IF t[i] = a THEN last ELSE t[i]]
  BY DEF Events!without, Events!Last
<1>4. n \in Seq(Events!Adapters) /\ Len(n) = Len(t) - 1
  <2>1. \A i \in 1 .. Len(t) - 1 : (IF t[i] = a THEN last ELSE t[i]) \in Events!Adapters
    BY <1>2
  <2>2. n \in [1 .. Len(t) - 1 -> Events!Adapters] /\ Len(t) - 1 \in Nat
    BY <1>2, <1>3, <2>1
  <2> HIDE DEF n
  <2> QED  BY <2>2
<1>5. \A i \in 1..Len(n) : n[i] = (IF i = k THEN last ELSE t[i]) /\ i \in 1..Len(t) /\ i # Len(t)
  BY <1>1, <1>2, <1>3, <1>4, TableRange
<1> HIDE DEF n, last
<1>6. last = t[Len(t)] /\ Len(t) \in 1..Len(t)
  BY <1>2 DEF last
<1>7. \A i, j \in 1..Len(t) : t[i] = t[j] => i = j
  BY TableRange
<1>8. Events!IsInjective(n)
  <2>1. \A i, j \in 1..Len(n) : n[i] = n[j] => i = j
    BY <1>5, <1>6, <1>7
  <2> QED  BY <1>4, <2>1, TableRange
<1>9. \A x \in Events!Range(n) : x \in Events!Range(t) \ {a}
  <2> SUFFICES ASSUME NEW i \in 1..Len(n) PROVE n[i] \in Events!Range(t) \ {a}
    BY <1>4, TableRange
  <2>1. CASE i = k
    BY <1>1, <1>5, <1>6, <1>7, <2>1, TableRange
  <2>2. CASE i # k
    BY <1>1, <1>5, <1>7, <2>2, TableRange
  <2> QED  BY <2>1, <2>2
<1>10. \A x \in Events!Range(t) \ {a} : x \in Events!Range(n)
  <2> SUFFICES ASSUME NEW i \in 1..Len(t), t[i] # a PROVE t[i] \in Events!Range(n)
    BY TableRange
  <2>1. CASE i = Len(t)
    <3>1. k \in 1..Len(n)
      BY <1>1, <1>2, <1>4, <2>1
    <3> QED  BY <1>4, <1>5, <1>6, <2>1, <3>1, TableRange
  <2>2. CASE i # Len(t)
    <3>1. i \in 1..Len(n) /\ i # k
      BY <1>1, <1>2, <1>4, <2>2
    <3> QED  BY <1>4, <1>5, <3>1, TableRange
  <2> QED  BY <2>1, <2>2
<1> QED
  BY <1>4, <1>8, <1>9, <1>10 DEF n

LEMMA EventsStart == Events!Init => EventInv
<1> SUFFICES ASSUME Events!Init PROVE EventInv
  OBVIOUS
<1>1. /\ mLocAdapters = <<Gnss>> /\ alive = {Gnss} /\ mEvtMask = [a \in Events!Adapters |-> {}]
      /\ mClientData = [c \in EventClients |-> {}]
      /\ mAgpsCbInfo = 0 /\ odcpiRequestCb = FALSE /\ mNmeaMask = FALSE /\ features = ~LateFeatures
      /\ msgs = <<[type |-> "LocOpenMsg"], [type |-> "MsgSetConfig"]>>
  BY DEF Events!Init, Events!NoClient
<1>2. Gnss \in Events!Adapters
  BY DEF Events!Adapters
<1>3. mLocAdapters \in Seq(Events!Adapters) /\ Len(mLocAdapters) = 1 /\ mLocAdapters[1] = Gnss
  BY <1>1, <1>2
<1>4. Events!Range(mLocAdapters) = {Gnss} /\ Events!IsInjective(mLocAdapters)
  BY <1>3, TableRange
<1>5. /\ msgs \in Seq(EventMsg) /\ DOMAIN msgs = 1..2
      /\ msgs[1].type = "LocOpenMsg" /\ msgs[2].type = "MsgSetConfig"
  BY <1>1 DEF EventMsg
<1>6. EventTypes
  <2>1. mEvtMask = [a \in Events!Adapters |-> mEvtMask[a]]
    BY <1>1
  <2>2. mClientData \in [EventClients -> SUBSET Events!Callbacks]
    BY <1>1
  <2>3. /\ mAgpsCbInfo \in 0..2 /\ odcpiRequestCb \in BOOLEAN
        /\ mNmeaMask \in BOOLEAN /\ features \in BOOLEAN
    <3>1. features \in BOOLEAN
      BY <1>1, EventAssumptions
    <3>2. mAgpsCbInfo \in 0..2
      BY <1>1
    <3>3. odcpiRequestCb \in BOOLEAN /\ mNmeaMask \in BOOLEAN
      BY <1>1, Zenon
    <3> QED  BY <3>1, <3>2, <3>3, Zenon
  <2>4. alive \subseteq Events!Adapters /\ Gnss \in Events!Range(mLocAdapters)
    BY <1>1, <1>2, <1>4
  <2> QED  BY <1>3, <1>5, <2>1, <2>2, <2>3, <2>4 DEF EventTypes
<1>7. Opening(msgs)
  BY <1>5 DEF Opening, OpenTypes
<1>8. ConfigComes(msgs)
  <2>1. \A i \in 1..2 : msgs[i].type # "MsgAddClient"
    BY <1>5
  <2> QED  BY <1>5, <2>1 DEF ConfigComes
<1>9. Events!NoDanglingAdapter
  BY <1>1, <1>3, <1>4, EventAssumptions DEF Events!NoDanglingAdapter
<1>10. Events!GnssMaskFollowsNeeds
  BY <1>1, <1>2 DEF Events!GnssMaskFollowsNeeds, Events!clientsEventMask
<1> QED
  BY <1>1, <1>6, <1>7, <1>8, <1>9, <1>10, EventAssumptions DEF EventInv, EngineFollows, ConfiguredFirst

\* What the masks depend on.
Needs == Events!gnssState

\* A command, an opening or nothing is added while the needs stay.
LEMMA NeedsStay ==
  ASSUME EventInv, UNCHANGED <<mClientData, mAgpsCbInfo, odcpiRequestCb, mNmeaMask, features>>,
         ConfigComes(msgs) => ConfigComes(msgs'), mEvtMask'[Gnss] = mEvtMask[Gnss]
  PROVE  ConfiguredFirst' /\ Events!GnssMaskFollowsNeeds'
<1>1. ConfiguredFirst'
  BY DEF EventInv, ConfiguredFirst
<1>2. Events!GnssMaskFollowsNeeds'
  BY DEF EventInv, Events!GnssMaskFollowsNeeds, Events!clientsEventMask
<1> QED
  BY <1>1, <1>2

LEMMA AddKeeps ==
  ASSUME EventInv, NEW a \in Others, NEW mask, Events!AddAdapter(a, mask)
  PROVE  EventInv'
<1>1. /\ a \notin alive /\ alive' = alive \union {a} /\ mEvtMask' = [mEvtMask EXCEPT ![a] = mask]
      /\ UNCHANGED <<mClientData, mAgpsCbInfo, odcpiRequestCb, mNmeaMask, features, engine>>
  BY DEF Events!AddAdapter, Events!gnssState
<1>2. EventTypes /\ Events!NoDanglingAdapter /\ a \in Events!Adapters /\ a # Gnss
  BY EventAssumptions DEF EventInv, Events!Adapters
<1>3. a \notin Events!Range(mLocAdapters) /\ Events!IsInjective(mLocAdapters)
  BY <1>1, <1>2 DEF Events!NoDanglingAdapter
<1>4. /\ mEvtMask' = [x \in Events!Adapters |-> mEvtMask'[x]]
      /\ \A x \in Events!Adapters : x # a => mEvtMask'[x] = mEvtMask[x]
  BY <1>1, <1>2 DEF EventTypes
<1>5. Gnss \in Events!Adapters /\ mEvtMask'[Gnss] = mEvtMask[Gnss] /\ alive' \subseteq Events!Adapters
  BY <1>1, <1>2, <1>4 DEF Events!Adapters, EventTypes
<1>6. CASE Len(mLocAdapters) < MAX_ADAPTERS
  <2>1. /\ mLocAdapters' = Append(mLocAdapters, a) /\ msgs' = Append(msgs, [type |-> "LocOpenMsg"])
    BY <1>6 DEF Events!AddAdapter, Events!hasRoom, Events!send
  <2>2. [type |-> "LocOpenMsg"] \in EventMsg
    BY DEF EventMsg
  <2>3. msgs' \in Seq(EventMsg) /\ Opening(msgs') /\ (ConfigComes(msgs) => ConfigComes(msgs'))
    BY <1>2, <2>1, <2>2, EventAppended DEF EventTypes, OpenTypes
  <2>4. /\ mLocAdapters' \in Seq(Events!Adapters) /\ Len(mLocAdapters') = Len(mLocAdapters) + 1
        /\ Events!Range(mLocAdapters') = Events!Range(mLocAdapters) \cup {a} /\ Events!IsInjective(mLocAdapters')
    BY <1>2, <1>3, <2>1, TableGrows DEF EventTypes
  <2>5. Len(mLocAdapters) \in Nat
    BY <1>2, TableRange DEF EventTypes
  <2>6. EventTypes'
    BY <1>1, <1>2, <1>4, <1>5, <2>3, <2>4 DEF EventTypes
  <2>7. Events!NoDanglingAdapter'
    BY <1>1, <1>2, <1>6, <2>4, <2>5, EventAssumptions DEF Events!NoDanglingAdapter
  <2> QED  BY <1>1, <1>5, <2>3, <2>6, <2>7, NeedsStay DEF EventInv, EngineFollows
<1>7. CASE ~(Len(mLocAdapters) < MAX_ADAPTERS)
  <2>1. UNCHANGED <<mLocAdapters, msgs>>
    BY <1>7 DEF Events!AddAdapter, Events!hasRoom
  <2>2. EventTypes'
    BY <1>1, <1>2, <1>4, <1>5, <2>1 DEF EventTypes
  <2>3. Events!NoDanglingAdapter'
    BY <1>1, <1>2, <2>1 DEF Events!NoDanglingAdapter
  <2>4. Events!getEvtMask(mLocAdapters, mEvtMask)' = Events!getEvtMask(mLocAdapters, mEvtMask)
    <3>1. \A x \in Events!Range(mLocAdapters) : mEvtMask'[x] = mEvtMask[x]
      BY <1>2, <1>3, <1>4, TableRange DEF EventTypes
    <3> QED  BY <2>1, <3>1 DEF Events!getEvtMask
  <2>5. EngineFollows'
    BY <1>1, <2>1, <2>4 DEF EventInv, EngineFollows, Events!Opened
  <2> QED  BY <1>1, <1>5, <2>1, <2>2, <2>3, <2>5, NeedsStay DEF EventInv
<1> QED
  BY <1>6, <1>7

LEMMA RemoveKeeps ==
  ASSUME EventInv, NEW a \in Others, Events!RemoveAdapter(a)
  PROVE  EventInv'
<1>1. /\ a \in alive /\ alive' = alive \ {a}
      /\ UNCHANGED <<mEvtMask, mClientData, mAgpsCbInfo, odcpiRequestCb, mNmeaMask, features>>
  BY DEF Events!RemoveAdapter, Events!gnssState
<1>2. EventTypes /\ Events!NoDanglingAdapter /\ a # Gnss /\ Len(mLocAdapters) \in Nat
  BY EventAssumptions, TableRange DEF EventInv, EventTypes
<1>3. CASE a \notin Events!Range(mLocAdapters) /\ UNCHANGED <<mLocAdapters, msgs, engine>>
  <2>1. EventTypes' /\ Events!NoDanglingAdapter'
    BY <1>1, <1>2, <1>3 DEF EventTypes, Events!NoDanglingAdapter
  <2>2. EngineFollows'
    BY <1>1, <1>3 DEF EventInv, EngineFollows, Events!getEvtMask, Events!Opened
  <2> QED  BY <1>1, <1>3, <2>1, <2>2, NeedsStay DEF EventInv
<1>4. CASE a \in Events!Range(mLocAdapters) /\ mLocAdapters' = Events!without(mLocAdapters, a)
  <2>1. /\ mLocAdapters' \in Seq(Events!Adapters) /\ Len(mLocAdapters') = Len(mLocAdapters) - 1
        /\ Events!Range(mLocAdapters') = Events!Range(mLocAdapters) \ {a} /\ Events!IsInjective(mLocAdapters')
    BY <1>2, <1>4, TableShrinks DEF EventTypes, Events!NoDanglingAdapter
  <2>2. Gnss \in Events!Range(mLocAdapters')
    BY <1>2, <2>1 DEF EventTypes
  <2>3. mLocAdapters' # <<>>
    BY <2>1, <2>2, TableRange
  <2>4. msgs' = Append(msgs, [type |-> "LocOpenMsg"]) /\ engine' = engine
    BY <1>4, <2>3 DEF Events!RemoveAdapter, Events!send
  <2>5. [type |-> "LocOpenMsg"] \in EventMsg
    BY DEF EventMsg
  <2>6. msgs' \in Seq(EventMsg) /\ Opening(msgs') /\ (ConfigComes(msgs) => ConfigComes(msgs'))
    BY <1>2, <2>4, <2>5, EventAppended DEF EventTypes, OpenTypes
  <2>7. EventTypes'
    BY <1>1, <1>2, <2>1, <2>2, <2>6 DEF EventTypes
  <2>8. Events!NoDanglingAdapter'
    BY <1>1, <1>2, <2>1, EventAssumptions DEF Events!NoDanglingAdapter
  <2> QED  BY <1>1, <2>6, <2>7, <2>8, NeedsStay DEF EventInv, EngineFollows
<1> QED
  BY <1>3, <1>4 DEF Events!RemoveAdapter

\* Commands, and the engine that goes down and comes up: the table and the masks stay.
LEMMA TableStays ==
  ASSUME EventInv, UNCHANGED <<mLocAdapters, mEvtMask, mClientData, mAgpsCbInfo, odcpiRequestCb, mNmeaMask, alive>>,
         features' \in BOOLEAN, features => features',
         msgs' \in Seq(EventMsg), ConfigComes(msgs) => ConfigComes(msgs'),
         \/ Opening(msgs')
         \/ engine'.state = "down"
         \/ engine' = engine /\ (Opening(msgs) => Opening(msgs'))
  PROVE  EventInv'
<1>1. EventTypes' /\ Events!NoDanglingAdapter'
  BY DEF EventInv, EventTypes, Events!NoDanglingAdapter
<1>2. EngineFollows'
  BY DEF EventInv, EngineFollows, Events!getEvtMask, Events!Opened
<1>3. ConfiguredFirst'
  BY DEF EventInv, ConfiguredFirst
<1>4. Events!GnssMaskFollowsNeeds'
  BY DEF EventInv, Events!GnssMaskFollowsNeeds, Events!clientsEventMask
<1> QED
  BY <1>1, <1>2, <1>3, <1>4 DEF EventInv

LEMMA CommandKeeps ==
  ASSUME EventInv, NEW m \in Events!Commands, Events!Command(m)
  PROVE  EventInv'
<1>1. m \in EventMsg
  BY DEF EventMsg
<1>2. msgs' = Append(msgs, m) /\ msgs \in Seq(EventMsg) /\ features \in BOOLEAN
  BY DEF Events!Command, Events!send, EventInv, EventTypes
<1>3. /\ msgs' \in Seq(EventMsg) /\ (Opening(msgs) => Opening(msgs')) /\ (ConfigComes(msgs) => ConfigComes(msgs'))
  BY <1>1, <1>2, EventAppended
<1> QED
  BY <1>2, <1>3, TableStays DEF Events!Command, Events!gnssState

LEMMA DownKeeps == EventInv /\ Events!EngineDown => EventInv'
<1> SUFFICES ASSUME EventInv, Events!EngineDown PROVE EventInv'
  OBVIOUS
<1>1. engine'.state = "down" /\ msgs' = msgs /\ features' = features
  BY DEF Events!EngineDown, Events!Down
<1>2. msgs \in Seq(EventMsg) /\ features \in BOOLEAN
  BY DEF EventInv, EventTypes
<1> QED
  BY <1>1, <1>2, TableStays DEF Events!EngineDown, Events!gnssState

LEMMA UpKeeps == EventInv /\ Events!EngineUp => EventInv'
<1> SUFFICES ASSUME EventInv, Events!EngineUp PROVE EventInv'
  OBVIOUS
<1> DEFINE s == [type |-> "LocSsrMsg"]
           c == [type |-> "MsgSetConfig"]
<1>1. msgs \in Seq(EventMsg) /\ features \in BOOLEAN /\ Gnss \in Events!Range(mLocAdapters)
  BY DEF EventInv, EventTypes
<1>2. s \in EventMsg /\ c \in EventMsg /\ s.type = "LocSsrMsg"
  BY DEF EventMsg
<1>3. msgs' = msgs \o (<<s>> \o <<c>>)
  BY <1>1 DEF Events!EngineUp, Events!upMsgs
<1> HIDE DEF s, c
<1>4. msgs' = Append(Append(msgs, s), c)
  BY <1>1, <1>2, <1>3
<1>5. Append(msgs, s) \in Seq(EventMsg) /\ Opening(Append(msgs, s)) /\ (ConfigComes(msgs) => ConfigComes(Append(msgs, s)))
  BY <1>1, <1>2, EventAppended DEF OpenTypes
<1>6. msgs' \in Seq(EventMsg) /\ Opening(msgs') /\ (ConfigComes(msgs) => ConfigComes(msgs'))
  BY <1>2, <1>4, <1>5, EventAppended
<1>7. features' \in BOOLEAN /\ (features => features')
  BY <1>1, EventAssumptions DEF Events!EngineUp
<1> QED
  BY <1>6, <1>7, TableStays DEF Events!EngineUp, Events!gnssState

(***************************************************************************)
(* The message thread.                                                     *)
(***************************************************************************)
\* The mask clients and callbacks ask for: a priority adds an event.
LEMMA NeedsAgps ==
  ASSUME NEW d, NEW n, NEW p, NEW q \in 1..2, NEW o
  PROVE  Events!clientsEventMask(d, n, q, o) = Events!clientsEventMask(d, n, p, o) \cup {"LOCATION_SERVER_REQUEST"}
<1> DEFINE agps(x) == IF x > 0 THEN {"LOCATION_SERVER_REQUEST"} ELSE {}
<1>1. agps(q) = agps(p) \cup {"LOCATION_SERVER_REQUEST"}
  OBVIOUS
<1> QED
  BY <1>1 DEF Events!clientsEventMask

\* ODCPI adds another.
LEMMA NeedsOdcpi ==
  ASSUME NEW d, NEW n, NEW p, NEW o
  PROVE  Events!clientsEventMask(d, n, p, TRUE) = Events!clientsEventMask(d, n, p, o) \cup {"REQUEST_WIFI"}
<1> DEFINE odcpi(x) == IF x THEN {"REQUEST_WIFI"} ELSE {}
<1>1. odcpi(TRUE) = odcpi(o) \cup {"REQUEST_WIFI"}
  OBVIOUS
<1> QED
  BY <1>1 DEF Events!clientsEventMask

\* The NMEA mask decides about its own event only, and about none where no client is saved.
LEMMA NeedsNmea ==
  ASSUME NEW d, NEW n, NEW m, NEW p, NEW o
  PROVE  /\ Events!clientsEventMask(d, n, p, o) \ {"NMEA_1HZ_REPORT"}
              = Events!clientsEventMask(d, m, p, o) \ {"NMEA_1HZ_REPORT"}
         /\ (\A c \in EventClients : d[c] = {}) =>
              Events!clientsEventMask(d, n, p, o) = Events!clientsEventMask(d, m, p, o)
<1> DEFINE wants(x) == {Events!EventOf[cb] : cb \in {y \in UNION {d[c] : c \in EventClients} : y = "gnssNmeaCb" => x}}
<1>1. wants(n) \ {"NMEA_1HZ_REPORT"} = wants(m) \ {"NMEA_1HZ_REPORT"}
  <2>1. Events!EventOf["gnssNmeaCb"] = "NMEA_1HZ_REPORT"
    BY DEF Events!EventOf
  <2> QED  BY <2>1
<1>2. (\A c \in EventClients : d[c] = {}) => wants(n) = {} /\ wants(m) = {}
  OBVIOUS
<1> DEFINE rest == (IF p > 0 THEN {"LOCATION_SERVER_REQUEST"} ELSE {}) \cup (IF o THEN {"REQUEST_WIFI"} ELSE {})
<1>3. \A x : Events!clientsEventMask(d, x, p, o) = wants(x) \cup rest
  BY DEF Events!clientsEventMask
<1> HIDE DEF wants, rest
<1> QED
  BY <1>1, <1>2, <1>3

\* An update of the GnssAdapter's mask opens the engine with it.
LEMMA UpdateOpens ==
  ASSUME EventTypes, NEW mask, Events!updateEvtMask(mask), UNCHANGED mLocAdapters
  PROVE  EngineFollows' /\ mEvtMask'[Gnss] = mask /\ mEvtMask' = [a \in Events!Adapters |-> mEvtMask'[a]]
<1>1. mEvtMask' = [mEvtMask EXCEPT ![Gnss] = mask] /\ Gnss \in Events!Adapters
  BY DEF Events!updateEvtMask, Events!Adapters
<1>2. mEvtMask'[Gnss] = mask /\ mEvtMask' = [a \in Events!Adapters |-> mEvtMask'[a]]
  BY <1>1 DEF EventTypes
<1>3. EngineFollows'
  BY DEF Events!updateEvtMask, Events!open, EngineFollows
<1> QED
  BY <1>2, <1>3

LEMMA HandleKeeps == EventInv /\ Events!HandleMsg => EventInv'
<1> SUFFICES ASSUME EventInv, Events!HandleMsg PROVE EventInv'
  OBVIOUS
<1> DEFINE h == Head(msgs)
<1>1. /\ EventTypes /\ ConfiguredFirst /\ EngineFollows /\ Events!GnssMaskFollowsNeeds
      /\ msgs # <<>> /\ msgs' = Tail(msgs) /\ UNCHANGED <<mLocAdapters, features, alive>> /\ Events!Handle(h)
  BY DEF EventInv, Events!HandleMsg
<1>2. /\ msgs' \in Seq(EventMsg) /\ h \in EventMsg
      /\ Opening(msgs) => Opening(msgs') \/ h.type \in OpenTypes
      /\ ConfigComes(msgs) /\ h.type # "MsgSetConfig" => ConfigComes(msgs') /\ h.type # "MsgAddClient"
  BY <1>1, EventTaken DEF EventTypes
<1>3. /\ h.type = "MsgAddClient" => h.client \in EventClients /\ h.callbacks \in SUBSET Events!Callbacks
      /\ h.type = "MsgRemoveClient" => h.client \in EventClients
      /\ h.type = "AgpsMsgInit" => h.priority \in 1..2
  BY <1>2, EventAssumptions DEF EventMsg, Events!Commands
<1> HIDE DEF h
<1>4. Events!NoDanglingAdapter'
  BY <1>1 DEF EventInv, Events!NoDanglingAdapter
<1> DEFINE Types == /\ mClientData' \in [EventClients -> SUBSET Events!Callbacks]
                    /\ mAgpsCbInfo' \in 0..2 /\ odcpiRequestCb' \in BOOLEAN /\ mNmeaMask' \in BOOLEAN
                    /\ mEvtMask' = [a \in Events!Adapters |-> mEvtMask'[a]]
<1>5. ASSUME Types, EngineFollows', ConfiguredFirst', Events!GnssMaskFollowsNeeds' PROVE EventInv'
  <2>1. EventTypes'
    BY <1>1, <1>2, <1>5 DEF EventTypes
  <2> QED  BY <1>4, <1>5, <2>1 DEF EventInv
\* The configuration is not in this message, or it has been.
<1>6. ASSUME h.type # "MsgSetConfig", mNmeaMask' = mNmeaMask,
             \/ mClientData' = mClientData
             \/ h.type = "MsgAddClient"
             \/ \E c \in EventClients : mClientData' = [mClientData EXCEPT ![c] = {}]
      PROVE  ConfiguredFirst'
  <2> SUFFICES ASSUME ~LateFeatures, ~mNmeaMask PROVE ConfigComes(msgs') /\ \A c \in EventClients : mClientData'[c] = {}
    BY <1>1, <1>6 DEF ConfiguredFirst
  <2>1. ConfigComes(msgs) /\ \A c \in EventClients : mClientData[c] = {}
    BY <1>1 DEF ConfiguredFirst
  <2>2. ConfigComes(msgs') /\ h.type # "MsgAddClient"
    BY <1>2, <1>6, <2>1
  <2>3. mClientData \in [EventClients -> SUBSET Events!Callbacks]
    BY <1>1 DEF EventTypes
  <2>4. \A c \in EventClients : mClientData'[c] = {}
    BY <1>6, <2>1, <2>2, <2>3
  <2> QED  BY <2>2, <2>4
<1>7. ASSUME NEW c \in EventClients, NEW cbs \in SUBSET Events!Callbacks, Events!setClient(c, cbs),
             h.type = "MsgAddClient" \/ (h.type = "MsgRemoveClient" /\ cbs = {})
      PROVE  EventInv'
  <2>1. /\ mClientData' = [mClientData EXCEPT ![c] = cbs] /\ UNCHANGED <<mAgpsCbInfo, odcpiRequestCb, mNmeaMask>>
        /\ Events!updateEvtMask(Events!clientsEventMask(mClientData', mNmeaMask, mAgpsCbInfo, odcpiRequestCb))
    BY <1>7 DEF Events!setClient
  <2>2. /\ EngineFollows' /\ mEvtMask' = [a \in Events!Adapters |-> mEvtMask'[a]]
        /\ mEvtMask'[Gnss] = Events!clientsEventMask(mClientData', mNmeaMask, mAgpsCbInfo, odcpiRequestCb)
    BY <1>1, <2>1, UpdateOpens
  <2>3. Types
    BY <1>1, <2>1, <2>2 DEF EventTypes
  <2>4. ConfiguredFirst'
    BY <1>6, <1>7, <2>1
  <2>5. Events!GnssMaskFollowsNeeds'
    BY <2>1, <2>2 DEF Events!GnssMaskFollowsNeeds
  <2> QED  BY <1>5, <2>2, <2>3, <2>4, <2>5
<1>8. ASSUME h.type = "AgpsMsgInit", Events!initAgps(h.priority) PROVE EventInv'
  <2>1. UNCHANGED <<mClientData, odcpiRequestCb, mNmeaMask>> /\ h.priority \in 1..2
    BY <1>3, <1>8 DEF Events!initAgps
  <2>2. ConfiguredFirst'
    BY <1>6, <1>8, <2>1
  <2>3. CASE UNCHANGED <<mAgpsCbInfo, mEvtMask, engine>>
    <3>1. Types
      BY <1>1, <2>1, <2>3 DEF EventTypes
    <3>2. EngineFollows'
      BY <1>1, <1>2, <1>8, <2>3 DEF EngineFollows, OpenTypes, Events!getEvtMask, Events!Opened
    <3>3. Events!GnssMaskFollowsNeeds'
      BY <1>1, <2>1, <2>3 DEF Events!GnssMaskFollowsNeeds, Events!clientsEventMask
    <3> QED  BY <1>5, <2>2, <3>1, <3>2, <3>3
  <2>4. CASE mAgpsCbInfo' = h.priority /\ Events!updateEvtMask(Events!Enabled("LOCATION_SERVER_REQUEST"))
    <3>1. /\ EngineFollows' /\ mEvtMask' = [a \in Events!Adapters |-> mEvtMask'[a]]
          /\ mEvtMask'[Gnss] = mEvtMask[Gnss] \cup {"LOCATION_SERVER_REQUEST"}
      BY <1>1, <2>4, UpdateOpens DEF Events!Enabled
    <3>2. Types
      BY <1>1, <2>1, <2>4, <3>1 DEF EventTypes
    <3>3. Events!clientsEventMask(mClientData', mNmeaMask', mAgpsCbInfo', odcpiRequestCb')
            = Events!clientsEventMask(mClientData, mNmeaMask, mAgpsCbInfo, odcpiRequestCb)
                \cup {"LOCATION_SERVER_REQUEST"}
      <4>1. mAgpsCbInfo' \in 1..2
        BY <2>1, <2>4
      <4>2. Events!clientsEventMask(mClientData, mNmeaMask, mAgpsCbInfo', odcpiRequestCb)
              = Events!clientsEventMask(mClientData, mNmeaMask, mAgpsCbInfo, odcpiRequestCb)
                  \cup {"LOCATION_SERVER_REQUEST"}
        BY <4>1, NeedsAgps
      <4> QED  BY <2>1, <4>2
    <3>4. Events!GnssMaskFollowsNeeds'
      BY <1>1, <3>1, <3>3 DEF Events!GnssMaskFollowsNeeds
    <3> QED  BY <1>5, <2>2, <3>1, <3>2, <3>4
  <2> QED  BY <1>8, <2>3, <2>4 DEF Events!initAgps
<1>9. ASSUME h.type = "MsgInitOdcpi", Events!initOdcpi PROVE EventInv'
  <2>1. UNCHANGED <<mClientData, mAgpsCbInfo, mNmeaMask>> /\ odcpiRequestCb' = TRUE
    BY <1>9 DEF Events!initOdcpi
  <2>2. ConfiguredFirst'
    BY <1>6, <1>9, <2>1
  <2>3. /\ EngineFollows' /\ mEvtMask' = [a \in Events!Adapters |-> mEvtMask'[a]]
        /\ mEvtMask'[Gnss] = mEvtMask[Gnss] \cup {"REQUEST_WIFI"}
    BY <1>1, <1>9, UpdateOpens DEF Events!Enabled, Events!initOdcpi
  <2>4. Types
    BY <1>1, <2>1, <2>3 DEF EventTypes
  <2>5. Events!clientsEventMask(mClientData', mNmeaMask', mAgpsCbInfo', odcpiRequestCb')
          = Events!clientsEventMask(mClientData, mNmeaMask, mAgpsCbInfo, odcpiRequestCb) \cup {"REQUEST_WIFI"}
    <3>1. Events!clientsEventMask(mClientData, mNmeaMask, mAgpsCbInfo, TRUE)
            = Events!clientsEventMask(mClientData, mNmeaMask, mAgpsCbInfo, odcpiRequestCb) \cup {"REQUEST_WIFI"}
      BY NeedsOdcpi
    <3> QED  BY <2>1, <3>1
  <2>6. Events!GnssMaskFollowsNeeds'
    BY <1>1, <2>3, <2>5 DEF Events!GnssMaskFollowsNeeds
  <2> QED  BY <1>5, <2>2, <2>3, <2>4, <2>6
<1>10. ASSUME h.type = "MsgSetConfig", Events!setConfig PROVE EventInv'
  <2>1. /\ mNmeaMask' = Events!Configured(features)
        /\ UNCHANGED <<mClientData, mAgpsCbInfo, odcpiRequestCb, mEvtMask, engine>>
    BY <1>10 DEF Events!setConfig
  <2>2. mNmeaMask' \in BOOLEAN /\ (~LateFeatures => mNmeaMask' = TRUE)
    BY <1>1, <2>1, EventAssumptions DEF Events!Configured, ConfiguredFirst, EventTypes
  <2>3. ConfiguredFirst'
    BY <1>1, <2>2 DEF ConfiguredFirst
  <2>4. Types
    BY <1>1, <2>1, <2>2 DEF EventTypes
  <2>5. EngineFollows'
    BY <1>1, <1>2, <1>10, <2>1 DEF EngineFollows, OpenTypes, Events!getEvtMask, Events!Opened
  <2>6. Events!GnssMaskFollowsNeeds'
    <3> DEFINE old == Events!clientsEventMask(mClientData, mNmeaMask, mAgpsCbInfo, odcpiRequestCb)
               new == Events!clientsEventMask(mClientData, mNmeaMask', mAgpsCbInfo, odcpiRequestCb)
    <3>1. /\ new \ {"NMEA_1HZ_REPORT"} = old \ {"NMEA_1HZ_REPORT"}
          /\ (\A c \in EventClients : mClientData[c] = {}) => new = old
      BY NeedsNmea
    <3>2. ~LateFeatures => mNmeaMask' = mNmeaMask \/ \A c \in EventClients : mClientData[c] = {}
      BY <1>1, <2>2 DEF ConfiguredFirst, EventTypes
    <3>3. ~LateFeatures => new = old
      BY <3>1, <3>2
    <3>4. new = Events!clientsEventMask(mClientData', mNmeaMask', mAgpsCbInfo', odcpiRequestCb')
      BY <2>1
    <3> HIDE DEF new
    <3> QED  BY <1>1, <2>1, <3>1, <3>3, <3>4 DEF Events!GnssMaskFollowsNeeds
  <2> QED  BY <1>5, <2>3, <2>4, <2>5, <2>6
<1>11. ASSUME h.type \in OpenTypes, Events!reopen PROVE EventInv'
  <2>1. UNCHANGED <<mEvtMask, mClientData, mAgpsCbInfo, odcpiRequestCb, mNmeaMask>>
    BY <1>11 DEF Events!reopen, Events!gnssState
  <2>2. ConfiguredFirst'
    BY <1>6, <1>11, <2>1 DEF OpenTypes
  <2>3. Types
    BY <1>1, <2>1 DEF EventTypes
  <2>4. EngineFollows'
    BY <1>1, <1>11, <2>1 DEF Events!reopen, Events!open, EngineFollows
  <2>5. Events!GnssMaskFollowsNeeds'
    BY <1>1, <2>1 DEF Events!GnssMaskFollowsNeeds, Events!clientsEventMask
  <2> QED  BY <1>5, <2>2, <2>3, <2>4, <2>5
<1> QED
  BY <1>1, <1>3, <1>7, <1>8, <1>9, <1>10, <1>11 DEF Events!Handle, Events!NoClient, OpenTypes

\* Every step of the module, and every step that leaves it alone.
LEMMA EventsKept == EventInv /\ [Events!Next]_(Events!vars) => EventInv'
<1> SUFFICES ASSUME EventInv, [Events!Next]_(Events!vars) PROVE EventInv'
  OBVIOUS
<1>1. CASE UNCHANGED Events!vars
  <2>1. UNCHANGED <<mLocAdapters, mEvtMask, mClientData, mAgpsCbInfo, odcpiRequestCb, mNmeaMask, features, engine, msgs, alive>>
    BY <1>1 DEF Events!vars
  <2>2. features \in BOOLEAN /\ msgs \in Seq(EventMsg)
    BY DEF EventInv, EventTypes
  <2> QED  BY <2>1, <2>2, TableStays
<1>2. ASSUME NEW a \in Others, Events!AddAdapter(a, {"FLP_REPORT"}) PROVE EventInv'
  BY <1>2, AddKeeps
<1>3. ASSUME NEW a \in Others, Events!RemoveAdapter(a) PROVE EventInv'
  BY <1>3, RemoveKeeps
<1>4. ASSUME NEW m \in Events!Commands, Events!Command(m) PROVE EventInv'
  BY <1>4, CommandKeeps
<1> QED
  BY <1>1, <1>2, <1>3, <1>4, DownKeeps, UpKeeps, HandleKeeps DEF Events!Next

\* Whatever adapters come and go, whatever the clients, AGPS, ODCPI and the configuration change and however
\* often the engine restarts: the array names adapters that are there, each once, the GnssAdapter's mask is
\* what its clients need, and the engine, when it is up and told, reports what the adapters in the array need.
THEOREM AdaptersStayServed == ClientsSpec => []AdaptersServed
<1>1. ClientsInit => EventInv
  BY EventsStart DEF ClientsInit
<1>2. EventInv /\ [ClientsNext]_allVars => EventInv'
  <2>1. [ClientsNext]_allVars => [Events!Next]_(Events!vars)
    BY DEF ClientsNext, allVars, eventsVars, Events!vars
  <2> QED  BY <2>1, EventsKept
<1>3. EventInv => AdaptersServed
  BY FollowsMeans DEF EventInv, AdaptersServed, Events!AdaptersServed
<1> QED
  BY <1>1, <1>2, <1>3, PTL DEF ClientsSpec
-----------------------------------------------------------------------------
(***************************************************************************)
(* The HAL's objects, for any number of frameworks, sessions and messages. *)
(***************************************************************************)
HalMsg == [type : {"start", "stop"}, id : Nat \ {0}]
            \cup [type : {"enable", "disable", "requestCapabilities"}, id : {0}]

HalState(n) == [mApi : BOOLEAN, mGnssCbIface : Nat, mGnssMeasurementCbIface : 0..n,
                linked : SUBSET (1..n), measurementLinked : SUBSET (1..n),
                extended : BOOLEAN, requested : BOOLEAN]
ApiState == [mGnssCbIface : Nat, mGnssMeasurementCbIface : Nat, cached : BOOLEAN, mEnabled : BOOLEAN]
WantState == [callback : BOOLEAN, tracking : BOOLEAN, measurements : BOOLEAN]
AdapterState == [sessions : SUBSET (Nat \ {0}), vote : BOOLEAN]

HalTypes ==
  /\ born \in Nat /\ framework \in 0..born /\ halSessions \in Nat
  /\ hal \in HalState(born) /\ api \in ApiState /\ want \in WantState /\ adapter \in AdapterState
  /\ base \in [Hal!Clients -> [mTracking : BOOLEAN, session : Nat]]
  /\ halMsgs \in Seq(HalMsg)
  /\ overtaken \in BOOLEAN

\* The switches of the adapter: its sessions, and 0 for the power vote.
About(m, x) == IF x = 0 THEN m.type \in {"enable", "disable"} ELSE m.type \in {"start", "stop"} /\ m.id = x
TurnsOn(m) == m.type \in {"start", "enable"}
On(a) == a.sessions \cup (IF a.vote THEN {0} ELSE {})
Power(a) == IF a.mEnabled THEN {0} ELSE {}
Tracks(b) == {b[c].session : c \in {d \in Hal!Clients : b[d].mTracking}}
Wanted(b, a) == Tracks(b) \cup Power(a)

\* After the messages in q the switches in will are on: the last message about a switch says so, and
\* where there is none the switch is as it has to be.
Arrives(q, on, will) ==
  \A x \in Nat :
    /\ (\A i \in DOMAIN q : ~About(q[i], x)) => (x \in on <=> x \in will)
    /\ \A j \in DOMAIN q :
         About(q[j], x) /\ (\A i \in DOMAIN q : j < i => ~About(q[i], x)) => (TurnsOn(q[j]) <=> x \in will)

\* Sessions of the two clients, of which generateSessionId is ahead.
SessionsApart ==
  /\ \A c \in Hal!Clients : base[c].session <= halSessions /\ (base[c].mTracking => base[c].session # 0)
  /\ base["gnss"].session = base["measurement"].session => base["gnss"].session = 0

Asks(q) == \E i \in DOMAIN q : q[i].type = "requestCapabilities"

\* Where the capabilities are on their way to a framework that has set its callback.
CapabilitiesCome ==
  /\ hal.requested => api.cached \/ Asks(halMsgs)
  /\ want.callback =>
       /\ hal.mApi /\ framework # 0 /\ hal.mGnssCbIface = framework /\ api.mGnssCbIface = framework
       /\ framework \in halTold \/ binder = "requestCapabilities" \/ thread = "onCapabilitiesCb" \/ ~api.cached

\* The callbacks linked to death say who is served.
Links ==
  /\ framework = 0 => want = Hal!Nothing
  /\ want.tracking => want.callback
  /\ want.callback => hal.linked = {framework}
  /\ hal.linked = {} \/ \E f \in 1..born : hal.linked = {f}
  /\ hal.linked = {} => ~api.mEnabled /\ ~base["gnss"].mTracking
  /\ IF hal.mGnssMeasurementCbIface = 0
     THEN hal.measurementLinked = {} /\ ~base["measurement"].mTracking
     ELSE /\ hal.measurementLinked = {hal.mGnssMeasurementCbIface} /\ base["measurement"].mTracking
          /\ api.mGnssMeasurementCbIface = hal.mGnssMeasurementCbIface
  /\ hal.mGnssMeasurementCbIface = framework /\ framework # 0 => want.measurements

\* Where no framework has called too early, the living one has what it wants.
Granted ==
  ~overtaken =>
    /\ hal.linked \subseteq {framework} =>
         (base["gnss"].mTracking <=> want.tracking) /\ (api.mEnabled <=> want.callback)
    /\ want.measurements => hal.mGnssMeasurementCbIface = framework

HalInv == /\ HalTypes /\ SessionsApart /\ Arrives(halMsgs, On(adapter), Wanted(base, api))
          /\ CapabilitiesCome /\ Links /\ Granted

\* A message more at the end of the queue, and one less at its head.
LEMMA HalAppended ==
  ASSUME NEW q \in Seq(HalMsg), NEW m \in HalMsg, NEW on, NEW w, NEW w2, Arrives(q, on, w),
         \A x \in Nat : IF About(m, x) THEN x \in w2 <=> TurnsOn(m) ELSE x \in w2 <=> x \in w
  PROVE  /\ Append(q, m) \in Seq(HalMsg) /\ Arrives(Append(q, m), on, w2)
         /\ Asks(Append(q, m)) <=> Asks(q) \/ m.type = "requestCapabilities"
<1> DEFINE a == Append(q, m)
           n == Len(q) + 1
<1>1. /\ a \in Seq(HalMsg) /\ DOMAIN q = 1..Len(q) /\ Len(q) \in Nat
      /\ DOMAIN a = DOMAIN q \cup {n} /\ a[n] = m
      /\ \A i \in DOMAIN q : a[i] = q[i] /\ i < n /\ i # n
  OBVIOUS
<1> HIDE DEF a, n
<1>2. Asks(a) <=> Asks(q) \/ m.type = "requestCapabilities"
  BY <1>1 DEF Asks
<1>3. ASSUME NEW x \in Nat
      PROVE  /\ (\A i \in DOMAIN a : ~About(a[i], x)) => (x \in on <=> x \in w2)
             /\ \A j \in DOMAIN a :
                  About(a[j], x) /\ (\A i \in DOMAIN a : j < i => ~About(a[i], x)) => (TurnsOn(a[j]) <=> x \in w2)
  <2>1. CASE About(m, x)
    <3>1. \A j \in DOMAIN a : (\A i \in DOMAIN a : j < i => ~About(a[i], x)) => j = n
      BY <1>1, <2>1
    <3> QED  BY <1>1, <2>1, <3>1
  <2>2. CASE ~About(m, x)
    <3>1. x \in w2 <=> x \in w
      BY <2>2
    <3>2. (\A i \in DOMAIN a : ~About(a[i], x)) => (x \in on <=> x \in w2)
      BY <1>1, <3>1 DEF Arrives
    <3>3. ASSUME NEW j \in DOMAIN a, About(a[j], x), \A i \in DOMAIN a : j < i => ~About(a[i], x)
          PROVE  TurnsOn(a[j]) <=> x \in w2
      <4>1. j \in DOMAIN q /\ a[j] = q[j]
        BY <1>1, <2>2, <3>3
      <4>2. \A i \in DOMAIN q : j < i => ~About(q[i], x)
        BY <1>1, <3>3
      <4> QED  BY <3>1, <3>3, <4>1, <4>2 DEF Arrives
    <3> QED  BY <3>2, <3>3
  <2> QED  BY <2>1, <2>2
<1>4. Arrives(a, on, w2)
  BY <1>3 DEF Arrives
<1> QED
  BY <1>1, <1>2, <1>4 DEF a

LEMMA HalTaken ==
  ASSUME NEW q \in Seq(HalMsg), q # <<>>, NEW on, NEW on2, NEW w, Arrives(q, on, w),
         \A x \in Nat : IF About(Head(q), x) THEN x \in on2 <=> TurnsOn(Head(q)) ELSE x \in on2 <=> x \in on
  PROVE  /\ Tail(q) \in Seq(HalMsg) /\ Head(q) \in HalMsg /\ Arrives(Tail(q), on2, w)
         /\ Asks(q) => Asks(Tail(q)) \/ Head(q).type = "requestCapabilities"
<1> DEFINE t == Tail(q)
           h == Head(q)
<1>1. /\ Len(q) \in Nat \ {0} /\ DOMAIN q = 1..Len(q) /\ h = q[1] /\ h \in HalMsg
      /\ t \in Seq(HalMsg) /\ DOMAIN t = 1..(Len(q) - 1)
      /\ \A i \in 1..(Len(q) - 1) : t[i] = q[i + 1]
  OBVIOUS
<1>2. \A x \in Nat : IF About(h, x) THEN x \in on2 <=> TurnsOn(h) ELSE x \in on2 <=> x \in on
  OBVIOUS
<1> HIDE DEF t, h
<1>3. \A i \in DOMAIN q : i = 1 \/ (i - 1 \in DOMAIN t /\ t[i - 1] = q[i])
  BY <1>1
<1>4. \A i \in DOMAIN t : i + 1 \in DOMAIN q /\ t[i] = q[i + 1] /\ i \in Nat \ {0}
  BY <1>1
<1>5. 1 \in DOMAIN q /\ \A i \in DOMAIN q : i \in Nat \ {0}
  BY <1>1
<1>6. ASSUME NEW x \in Nat
      PROVE  /\ (\A i \in DOMAIN t : ~About(t[i], x)) => (x \in on2 <=> x \in w)
             /\ \A j \in DOMAIN t :
                  About(t[j], x) /\ (\A i \in DOMAIN t : j < i => ~About(t[i], x)) => (TurnsOn(t[j]) <=> x \in w)
  <2>1. ASSUME \A i \in DOMAIN t : ~About(t[i], x) PROVE x \in on2 <=> x \in w
    <3>1. \A i \in DOMAIN q : i # 1 => ~About(q[i], x)
      BY <1>3, <2>1
    <3>2. CASE About(h, x)
      <4>1. TurnsOn(h) <=> x \in w
        BY <1>1, <1>5, <3>1, <3>2 DEF Arrives
      <4> QED  BY <1>2, <3>2, <4>1
    <3>3. CASE ~About(h, x)
      <4>1. x \in on <=> x \in w
        BY <1>1, <3>1, <3>3 DEF Arrives
      <4> QED  BY <1>2, <3>3, <4>1
    <3> QED  BY <3>2, <3>3
  <2>2. ASSUME NEW j \in DOMAIN t, About(t[j], x), \A i \in DOMAIN t : j < i => ~About(t[i], x)
        PROVE  TurnsOn(t[j]) <=> x \in w
    <3>1. j + 1 \in DOMAIN q /\ q[j + 1] = t[j]
      BY <1>4
    <3>2. \A i \in DOMAIN q : j + 1 < i => ~About(q[i], x)
      BY <1>3, <1>4, <1>5, <2>2
    <3> QED  BY <2>2, <3>1, <3>2 DEF Arrives
  <2> QED  BY <2>1, <2>2
<1>7. Arrives(t, on2, w)
  BY <1>6 DEF Arrives
<1>8. Asks(q) => Asks(t) \/ h.type = "requestCapabilities"
  BY <1>1, <1>3 DEF Asks
<1> QED
  BY <1>1, <1>7, <1>8 DEF t, h

HalRecord == [mTracking : BOOLEAN, session : Nat]
HalBase == [Hal!Clients -> HalRecord]

\* The switches by their numbers.
LEMMA PowerIs == ASSUME NEW a, NEW x PROVE x \in Power(a) <=> x = 0 /\ a.mEnabled
  BY DEF Power

\* The power vote.
LEMMA EnableSends ==
  ASSUME NEW q \in Seq(HalMsg), NEW on, NEW b,
         \A c \in Hal!Clients : b[c].mTracking => b[c].session # 0,
         NEW a, NEW a2, a.mEnabled \in BOOLEAN, a2.mEnabled \in BOOLEAN,
         Arrives(q, on, Wanted(b, a)), NEW m, m = [type |-> IF a2.mEnabled THEN "enable" ELSE "disable", id |-> 0]
  PROVE  Append(q, m) \in Seq(HalMsg) /\ Arrives(Append(q, m), on, Wanted(b, a2)) /\ (Asks(q) => Asks(Append(q, m)))
<1>1. m \in HalMsg
  BY DEF HalMsg
<1>2. \A x \in Nat : About(m, x) <=> x = 0
  BY DEF About
<1>3. TurnsOn(m) <=> a2.mEnabled
  BY DEF TurnsOn
<1>4. 0 \notin Tracks(b)
  BY DEF Tracks
<1>5. 0 \in Wanted(b, a2) <=> a2.mEnabled
  BY <1>4, PowerIs DEF Wanted
<1>6. \A x \in Nat : x # 0 => (x \in Wanted(b, a2) <=> x \in Wanted(b, a))
  BY PowerIs DEF Wanted
<1>7. \A x \in Nat : IF About(m, x) THEN x \in Wanted(b, a2) <=> TurnsOn(m) ELSE x \in Wanted(b, a2) <=> x \in Wanted(b, a)
  BY <1>2, <1>3, <1>5, <1>6
<1> QED
  BY <1>1, <1>7, HalAppended

\* A new client asks for the capabilities.
LEMMA RequestSends ==
  ASSUME NEW q \in Seq(HalMsg), NEW on, NEW w, Arrives(q, on, w),
         NEW m, m = [type |-> "requestCapabilities", id |-> 0]
  PROVE  Append(q, m) \in Seq(HalMsg) /\ Arrives(Append(q, m), on, w) /\ Asks(Append(q, m))
<1>1. m \in HalMsg /\ \A x \in Nat : ~About(m, x)
  BY DEF HalMsg, About
<1> QED
  BY <1>1, HalAppended

\* Only mEnabled of the API client matters.
LEMMA WantedSame ==
  ASSUME NEW b, NEW a, NEW a2, a2.mEnabled = a.mEnabled
  PROVE  Wanted(b, a2) = Wanted(b, a)
  BY DEF Wanted, Power

\* The clients after a call of startTracking or stopTracking.
Started(c, q) == [base EXCEPT ![c] = Hal!startTracking(c, q).base]
Stopped(c, q) == [base EXCEPT ![c] = Hal!stopTracking(c, q).base]

LEMMA StopSends ==
  ASSUME HalTypes, SessionsApart, NEW c \in Hal!Clients, NEW q \in Seq(HalMsg), NEW on,
         Arrives(q, on, Wanted(base, api))
  PROVE  /\ Stopped(c, q) \in HalBase /\ Stopped(c, q)[c].mTracking = FALSE
         /\ \A d \in Hal!Clients :
              Stopped(c, q)[d].session = base[d].session /\ (d # c => Stopped(c, q)[d] = base[d])
         /\ Hal!stopTracking(c, q).msgs \in Seq(HalMsg)
         /\ Arrives(Hal!stopTracking(c, q).msgs, on, Wanted(Stopped(c, q), api))
         /\ Asks(q) => Asks(Hal!stopTracking(c, q).msgs)
<1> DEFINE b == Stopped(c, q)
           m == Hal!stopTracking(c, q).msgs
<1>0. b = [base EXCEPT ![c] = Hal!stopTracking(c, q).base] /\ m = Hal!stopTracking(c, q).msgs
  BY DEF Stopped
<1> SUFFICES /\ b \in HalBase /\ b[c].mTracking = FALSE
             /\ \A d \in Hal!Clients : b[d].session = base[d].session /\ (d # c => b[d] = base[d])
             /\ m \in Seq(HalMsg) /\ Arrives(m, on, Wanted(b, api)) /\ (Asks(q) => Asks(m))
  OBVIOUS
<1> HIDE DEF b, m
<1>1. base \in HalBase /\ base[c] \in HalRecord /\ base[c].session \in Nat
  BY DEF HalTypes, HalBase, HalRecord
<1>2. CASE base[c].session = 0
  <2>1. b = [base EXCEPT ![c] = base[c]] /\ m = q
    BY <1>0, <1>2 DEF Hal!stopTracking
  <2>2. b = base
    BY <1>1, <2>1 DEF HalBase
  <2>3. base[c].mTracking = FALSE
    BY <1>1, <1>2 DEF SessionsApart, HalRecord
  <2> QED  BY <1>1, <2>1, <2>2, <2>3
<1>3. CASE base[c].session # 0
  <2> DEFINE s == [type |-> "stop", id |-> base[c].session]
             r == [base[c] EXCEPT !.mTracking = FALSE]
  <2>1. b = [base EXCEPT ![c] = r] /\ m = Append(q, s)
    BY <1>0, <1>3 DEF Hal!stopTracking
  <2>2. r \in HalRecord /\ r.mTracking = FALSE /\ r.session = base[c].session
    BY <1>1 DEF HalRecord
  <2>3. s \in HalMsg /\ ~TurnsOn(s) /\ \A x \in Nat : About(s, x) <=> x = base[c].session
    BY <1>1, <1>3 DEF HalMsg, TurnsOn, About
  <2> HIDE DEF s, r
  <2>4. b \in HalBase /\ b[c] = r /\ \A d \in Hal!Clients : d # c => b[d] = base[d]
    BY <1>1, <2>1, <2>2 DEF HalBase
  <2>5. \A d \in Hal!Clients : d # c => base[d].session # base[c].session
    BY <1>3 DEF SessionsApart, Hal!Clients
  <2>6. base[c].session \notin Tracks(b)
    <3>1. \A d \in Hal!Clients : ~(b[d].mTracking /\ b[d].session = base[c].session)
      BY <2>2, <2>4, <2>5
    <3> QED  BY <3>1 DEF Tracks
  <2>7. \A x : x # base[c].session => (x \in Tracks(b) <=> x \in Tracks(base))
    <3> SUFFICES ASSUME NEW x, x # base[c].session PROVE x \in Tracks(b) <=> x \in Tracks(base)
      OBVIOUS
    <3>1. \A d \in Hal!Clients : (b[d].mTracking /\ b[d].session = x) <=> (base[d].mTracking /\ base[d].session = x)
      <4> SUFFICES ASSUME NEW d \in Hal!Clients
                   PROVE  (b[d].mTracking /\ b[d].session = x) <=> (base[d].mTracking /\ base[d].session = x)
        OBVIOUS
      <4>1. CASE d = c
        BY <2>2, <2>4, <4>1
      <4>2. CASE d # c
        BY <2>4, <4>2
      <4> QED  BY <4>1, <4>2
    <3> QED  BY <3>1 DEF Tracks
  <2>8. \A x \in Nat : IF About(s, x) THEN x \in Wanted(b, api) <=> TurnsOn(s)
                       ELSE x \in Wanted(b, api) <=> x \in Wanted(base, api)
    BY <1>3, <2>3, <2>6, <2>7, PowerIs DEF Wanted
  <2>9. m \in Seq(HalMsg) /\ Arrives(m, on, Wanted(b, api)) /\ (Asks(q) => Asks(m))
    <3>1. /\ Append(q, s) \in Seq(HalMsg) /\ Arrives(Append(q, s), on, Wanted(b, api))
          /\ Asks(q) => Asks(Append(q, s))
      BY <2>3, <2>8, HalAppended
    <3> QED  BY <2>1, <3>1
  <2>10. b[c].mTracking = FALSE /\ \A d \in Hal!Clients : b[d].session = base[d].session /\ (d # c => b[d] = base[d])
    BY <2>2, <2>4
  <2> QED  BY <2>4, <2>9, <2>10
<1> QED
  BY <1>2, <1>3

LEMMA StartSends ==
  ASSUME HalTypes, SessionsApart, NEW c \in Hal!Clients, NEW q \in Seq(HalMsg), NEW on,
         Arrives(q, on, Wanted(base, api))
  PROVE  /\ Started(c, q) \in HalBase /\ Started(c, q)[c].mTracking = TRUE
         /\ \A d \in Hal!Clients : d # c => Started(c, q)[d] = base[d]
         /\ Hal!startTracking(c, q).sessions \in Nat
         /\ \A d \in Hal!Clients :
              /\ Started(c, q)[d].session <= Hal!startTracking(c, q).sessions
              /\ Started(c, q)[d].mTracking => Started(c, q)[d].session # 0
         /\ Started(c, q)["gnss"].session = Started(c, q)["measurement"].session => Started(c, q)["gnss"].session = 0
         /\ Hal!startTracking(c, q).msgs \in Seq(HalMsg)
         /\ Arrives(Hal!startTracking(c, q).msgs, on, Wanted(Started(c, q), api))
         /\ Asks(q) => Asks(Hal!startTracking(c, q).msgs)
<1> DEFINE b == Started(c, q)
           m == Hal!startTracking(c, q).msgs
           s == Hal!startTracking(c, q).sessions
<1>0. /\ b = [base EXCEPT ![c] = Hal!startTracking(c, q).base]
      /\ m = Hal!startTracking(c, q).msgs /\ s = Hal!startTracking(c, q).sessions
  BY DEF Started
<1> SUFFICES /\ b \in HalBase /\ b[c].mTracking = TRUE /\ (\A d \in Hal!Clients : d # c => b[d] = base[d])
             /\ s \in Nat
             /\ \A d \in Hal!Clients : b[d].session <= s /\ (b[d].mTracking => b[d].session # 0)
             /\ b["gnss"].session = b["measurement"].session => b["gnss"].session = 0
             /\ m \in Seq(HalMsg) /\ Arrives(m, on, Wanted(b, api)) /\ (Asks(q) => Asks(m))
  OBVIOUS
<1> HIDE DEF b, m, s
<1>1. base \in HalBase /\ base[c] \in HalRecord /\ halSessions \in Nat /\ \A d \in Hal!Clients : base[d].session \in Nat
  BY DEF HalTypes, HalBase, HalRecord
<1>2. CASE base[c].mTracking
  <2>1. b = [base EXCEPT ![c] = base[c]] /\ m = q /\ s = halSessions
    BY <1>0, <1>2 DEF Hal!startTracking
  <2>2. b = base
    BY <1>1, <2>1 DEF HalBase
  <2>3. b[c].mTracking = TRUE
    BY <1>1, <1>2, <2>2 DEF HalRecord
  <2> QED  BY <1>1, <2>1, <2>2, <2>3 DEF SessionsApart
<1>3. CASE ~base[c].mTracking
  <2> DEFINE n == [type |-> "start", id |-> halSessions + 1]
             r == [mTracking |-> TRUE, session |-> halSessions + 1]
  <2>1. b = [base EXCEPT ![c] = r] /\ m = Append(q, n) /\ s = halSessions + 1
    BY <1>0, <1>3 DEF Hal!startTracking
  <2>2. r \in HalRecord /\ r.mTracking = TRUE /\ r.session = halSessions + 1
    BY <1>1 DEF HalRecord
  <2>3. n \in HalMsg /\ TurnsOn(n) /\ \A x \in Nat : About(n, x) <=> x = halSessions + 1
    BY <1>1 DEF HalMsg, TurnsOn, About
  <2> HIDE DEF n, r
  <2>4. b \in HalBase /\ b[c] = r /\ \A d \in Hal!Clients : d # c => b[d] = base[d]
    BY <1>1, <2>1, <2>2 DEF HalBase
  <2>5. /\ s \in Nat
        /\ \A d \in Hal!Clients : b[d].session <= s /\ (b[d].mTracking => b[d].session # 0)
    BY <1>1, <2>1, <2>2, <2>4 DEF SessionsApart
  <2>6. b["gnss"].session = b["measurement"].session => b["gnss"].session = 0
    <3>1. \A d \in Hal!Clients : base[d].session # halSessions + 1
      BY <1>1 DEF SessionsApart
    <3> QED  BY <2>2, <2>4, <3>1 DEF SessionsApart, Hal!Clients
  <2>7. halSessions + 1 \in Tracks(b)
    BY <2>2, <2>4 DEF Tracks
  <2>8. \A x : x # halSessions + 1 => (x \in Tracks(b) <=> x \in Tracks(base))
    <3> SUFFICES ASSUME NEW x, x # halSessions + 1 PROVE x \in Tracks(b) <=> x \in Tracks(base)
      OBVIOUS
    <3>1. \A d \in Hal!Clients : (b[d].mTracking /\ b[d].session = x) <=> (base[d].mTracking /\ base[d].session = x)
      <4> SUFFICES ASSUME NEW d \in Hal!Clients
                   PROVE  (b[d].mTracking /\ b[d].session = x) <=> (base[d].mTracking /\ base[d].session = x)
        OBVIOUS
      <4>1. CASE d = c
        BY <1>3, <2>2, <2>4, <4>1
      <4>2. CASE d # c
        BY <2>4, <4>2
      <4> QED  BY <4>1, <4>2
    <3> QED  BY <3>1 DEF Tracks
  <2>9. \A x \in Nat : IF About(n, x) THEN x \in Wanted(b, api) <=> TurnsOn(n)
                       ELSE x \in Wanted(b, api) <=> x \in Wanted(base, api)
    BY <2>3, <2>7, <2>8 DEF Wanted
  <2>10. m \in Seq(HalMsg) /\ Arrives(m, on, Wanted(b, api)) /\ (Asks(q) => Asks(m))
    <3>1. /\ Append(q, n) \in Seq(HalMsg) /\ Arrives(Append(q, n), on, Wanted(b, api))
          /\ Asks(q) => Asks(Append(q, n))
      BY <2>3, <2>9, HalAppended
    <3> QED  BY <2>1, <3>1
  <2>11. b[c].mTracking = TRUE
    BY <2>2, <2>4
  <2> QED  BY <2>4, <2>5, <2>6, <2>10, <2>11
<1> QED
  BY <1>2, <1>3

LEMMA EnableAsks ==
  ASSUME HalTypes, SessionsApart, NEW q \in Seq(HalMsg), NEW on, Arrives(q, on, Wanted(base, api)),
         NEW a, a.mEnabled = TRUE, NEW m, m = Hal!enable(q)
  PROVE  m \in Seq(HalMsg) /\ Arrives(m, on, Wanted(base, a)) /\ (Asks(q) => Asks(m))
<1>1. CASE api.mEnabled
  <2>1. m = q /\ a.mEnabled = api.mEnabled
    BY <1>1 DEF Hal!enable, HalTypes, ApiState
  <2>2. Wanted(base, a) = Wanted(base, api)
    BY <2>1, WantedSame
  <2> QED  BY <2>1, <2>2
<1>2. CASE ~api.mEnabled
  <2> DEFINE e == [type |-> IF a.mEnabled THEN "enable" ELSE "disable", id |-> 0]
  <2>1. m = Append(q, e)
    BY <1>2 DEF Hal!enable
  <2>2. /\ \A c \in Hal!Clients : base[c].mTracking => base[c].session # 0
        /\ api.mEnabled \in BOOLEAN /\ a.mEnabled \in BOOLEAN
    BY DEF SessionsApart, HalTypes, ApiState
  <2> HIDE DEF e
  <2>3. /\ Append(q, e) \in Seq(HalMsg) /\ Arrives(Append(q, e), on, Wanted(base, a))
        /\ Asks(q) => Asks(Append(q, e))
    BY <2>2, EnableSends DEF e
  <2> QED  BY <2>1, <2>3
<1> QED
  BY <1>1, <1>2

LEMMA DisableAsks ==
  ASSUME HalTypes, NEW b, \A c \in Hal!Clients : b[c].mTracking => b[c].session # 0,
         NEW q \in Seq(HalMsg), NEW on, Arrives(q, on, Wanted(b, api)),
         NEW a, a.mEnabled = FALSE, NEW m, m = Hal!disable(q)
  PROVE  m \in Seq(HalMsg) /\ Arrives(m, on, Wanted(b, a)) /\ (Asks(q) => Asks(m))
<1>1. CASE ~api.mEnabled
  <2>1. m = q /\ a.mEnabled = api.mEnabled
    BY <1>1 DEF Hal!disable, HalTypes, ApiState
  <2>2. Wanted(b, a) = Wanted(b, api)
    BY <2>1, WantedSame
  <2> QED  BY <2>1, <2>2
<1>2. CASE api.mEnabled
  <2> DEFINE e == [type |-> IF a.mEnabled THEN "enable" ELSE "disable", id |-> 0]
  <2>1. m = Append(q, e)
    BY <1>2 DEF Hal!disable
  <2>2. api.mEnabled \in BOOLEAN /\ a.mEnabled \in BOOLEAN
    BY DEF HalTypes, ApiState
  <2> HIDE DEF e
  <2>3. /\ Append(q, e) \in Seq(HalMsg) /\ Arrives(Append(q, e), on, Wanted(b, a))
        /\ Asks(q) => Asks(Append(q, e))
    BY <2>2, EnableSends DEF e
  <2> QED  BY <2>1, <2>3
<1> QED
  BY <1>1, <1>2

LEMMA GetApiAsks ==
  ASSUME HalTypes, NEW c, NEW q \in Seq(HalMsg), NEW on, NEW w, Arrives(q, on, w), NEW m, m = Hal!getApi(c, q)
  PROVE  m \in Seq(HalMsg) /\ Arrives(m, on, w) /\ (Asks(q) \/ Hal!requests(c) => Asks(m))
<1>1. CASE ~Hal!requests(c)
  BY <1>1 DEF Hal!getApi
<1>2. CASE Hal!requests(c)
  <2> DEFINE r == [type |-> "requestCapabilities", id |-> 0]
  <2>1. m = Append(q, r)
    BY <1>2 DEF Hal!getApi
  <2> HIDE DEF r
  <2>2. Append(q, r) \in Seq(HalMsg) /\ Arrives(Append(q, r), on, w) /\ Asks(Append(q, r))
    BY RequestSends DEF r
  <2> QED  BY <2>1, <2>2
<1> QED
  BY <1>1, <1>2

LEMMA HalStarts == Hal!Init => HalInv
<1> SUFFICES ASSUME Hal!Init PROVE HalInv
  OBVIOUS
<1> USE DEF Hal!Init, Hal!Nobody, Hal!Nothing
<1>1. halMsgs = <<>> /\ DOMAIN halMsgs = {} /\ <<>> \in Seq(HalMsg)
  OBVIOUS
<1>2. HalTypes
  <2>1. base \in [Hal!Clients -> [mTracking : BOOLEAN, session : Nat]]
    OBVIOUS
  <2>2. hal \in HalState(born) /\ api \in ApiState /\ want \in WantState /\ adapter \in AdapterState
    BY DEF HalState, ApiState, WantState, AdapterState
  <2>3. born \in Nat /\ framework \in 0..born /\ halSessions \in Nat
    OBVIOUS
  <2>4. overtaken \in BOOLEAN
    OBVIOUS
  <2> HIDE DEF Hal!Init
  <2> QED  BY <1>1, <2>1, <2>2, <2>3, <2>4 DEF HalTypes
<1>3. SessionsApart
  BY DEF SessionsApart, Hal!Clients
<1>4. On(adapter) = {} /\ Wanted(base, api) = {}
  BY DEF On, Wanted, Tracks, Power
<1>5. Arrives(halMsgs, On(adapter), Wanted(base, api))
  BY <1>1, <1>4 DEF Arrives
<1>6. CapabilitiesCome /\ Links /\ Granted
  BY DEF CapabilitiesCome, Links, Granted, Hal!Clients
<1> QED
  BY <1>2, <1>3, <1>5, <1>6 DEF HalInv

\* What the calls of the binder thread have in common.
LEMMA HalOverlooked ==
  ASSUME HalInv, Hal!overtakes
  PROVE  overtaken' \in BOOLEAN /\ (~overtaken' => ~overtaken /\ hal.linked \subseteq {framework}
                                                     /\ hal.measurementLinked \subseteq {framework})
  BY DEF HalInv, HalTypes, Hal!overtakes, Hal!Obituaries

LEMMA SetCallbackKeeps == HalInv /\ Hal!setCallback => HalInv'
<1> SUFFICES ASSUME HalInv, Hal!setCallback PROVE HalInv'
  OBVIOUS
<1>1. /\ HalTypes /\ SessionsApart /\ Arrives(halMsgs, On(adapter), Wanted(base, api))
      /\ CapabilitiesCome /\ Links /\ Granted
  BY DEF HalInv
<1>2. /\ framework # 0 /\ UNCHANGED <<framework, born, halSessions, thread, adapter, base>>
      /\ hal' = [hal EXCEPT !.mApi = TRUE, !.mGnssCbIface = framework, !.linked = {framework},
                          !.requested = @ \/ Hal!requests(framework)]
      /\ api' = [api EXCEPT !.mGnssCbIface = framework, !.mEnabled = TRUE]
      /\ halMsgs' = Hal!enable(Hal!getApi(framework, halMsgs)) /\ binder' = "requestCapabilities"
      /\ want' = [want EXCEPT !.callback = TRUE] /\ halTold' = halTold \ {framework} /\ Hal!overtakes
  BY DEF Hal!setCallback, Hal!Calls, Hal!Nobody, Hal!link, Hal!outside
<1>3a. hal'.requested <=> (hal.requested \/ Hal!requests(framework))
  <2>1. hal \in HalState(born)
    BY <1>1 DEF HalTypes
  <2>2. hal' = [hal EXCEPT !.mApi = TRUE, !.mGnssCbIface = framework, !.linked = {framework},
                          !.requested = @ \/ Hal!requests(framework)]
    BY <1>2
  <2> QED  BY <2>1, <2>2 DEF HalState
<1>3. /\ hal'.mApi = TRUE /\ hal'.mGnssCbIface = framework /\ hal'.linked = {framework}
      /\ hal'.mGnssMeasurementCbIface = hal.mGnssMeasurementCbIface /\ hal'.measurementLinked = hal.measurementLinked
      /\ api'.mGnssCbIface = framework /\ api'.mEnabled = TRUE /\ api'.cached = api.cached
      /\ api'.mGnssMeasurementCbIface = api.mGnssMeasurementCbIface
      /\ want'.callback = TRUE /\ want'.tracking = want.tracking /\ want'.measurements = want.measurements
      /\ framework \in 1..born
  BY <1>1, <1>2 DEF HalTypes, HalState, ApiState, WantState
<1> DEFINE q == Hal!getApi(framework, halMsgs)
<1>4. q \in Seq(HalMsg) /\ Arrives(q, On(adapter), Wanted(base, api)) /\ (Asks(halMsgs) \/ Hal!requests(framework) => Asks(q))
  BY <1>1, GetApiAsks DEF HalTypes
<1>5. halMsgs' = Hal!enable(q)
  BY <1>2
<1> HIDE DEF q
<1>6. halMsgs' \in Seq(HalMsg) /\ Arrives(halMsgs', On(adapter), Wanted(base, api')) /\ (Asks(q) => Asks(halMsgs'))
  BY <1>1, <1>3, <1>4, <1>5, EnableAsks
<1>7. HalTypes'
  <2>1. hal' \in HalState(born)
    <3>1. hal \in HalState(born) /\ framework \in Nat /\ framework \in 1..born /\ born' = born
      BY <1>1, <1>2, <1>3 DEF HalTypes
    <3>2. hal' = [hal EXCEPT !.mApi = TRUE, !.mGnssCbIface = framework, !.linked = {framework},
                          !.requested = @ \/ Hal!requests(framework)]
      BY <1>2
    <3> QED  BY <3>1, <3>2 DEF HalState
  <2>3. api' \in ApiState
    <3>1. api \in ApiState /\ framework \in Nat
      BY <1>1 DEF HalTypes
    <3>2. api' = [api EXCEPT !.mGnssCbIface = framework, !.mEnabled = TRUE]
      BY <1>2
    <3> QED  BY <3>1, <3>2 DEF ApiState
  <2>4. want' \in WantState
    BY <1>1, <1>2 DEF HalTypes, WantState
  <2>2. overtaken' \in BOOLEAN
    BY <1>2, HalOverlooked
  <2> QED  BY <1>1, <1>2, <1>6, <2>1, <2>2, <2>3, <2>4 DEF HalTypes
<1>8. SessionsApart' /\ Arrives(halMsgs, On(adapter), Wanted(base, api))'
  BY <1>1, <1>2, <1>6 DEF SessionsApart
<1>9. CapabilitiesCome'
  BY <1>1, <1>2, <1>3a, <1>3, <1>4, <1>6 DEF CapabilitiesCome
<1>10. Links'
  BY <1>1, <1>2, <1>3 DEF Links
<1>11. Granted'
  BY <1>1, <1>2, <1>3, HalOverlooked DEF Granted, HalTypes
<1> QED
  BY <1>7, <1>8, <1>9, <1>10, <1>11 DEF HalInv

LEMMA SetNiCallbackKeeps == HalInv /\ Hal!setGnssNiCb => HalInv'
<1> SUFFICES ASSUME HalInv, Hal!setGnssNiCb PROVE HalInv'
  OBVIOUS
<1>1. /\ HalTypes /\ SessionsApart /\ Arrives(halMsgs, On(adapter), Wanted(base, api))
      /\ CapabilitiesCome /\ Links /\ Granted
  BY DEF HalInv
<1>2. /\ UNCHANGED <<framework, born, halSessions, thread, adapter, base, binder, want, halTold>>
      /\ halMsgs' = Hal!getApi(hal.mGnssCbIface, halMsgs) /\ Hal!overtakes
  BY DEF Hal!setGnssNiCb, Hal!outside
<1>3. hal' = [hal EXCEPT !.mApi = TRUE, !.requested = @ \/ Hal!requests(hal.mGnssCbIface)] /\ api' = [api EXCEPT !.mGnssCbIface = hal.mGnssCbIface]
  BY DEF Hal!setGnssNiCb
<1>4. hal \in HalState(born) /\ api \in ApiState
  BY <1>1 DEF HalTypes
<1>5. /\ hal'.requested <=> (hal.requested \/ Hal!requests(hal.mGnssCbIface))
      /\ hal'.mApi = TRUE /\ hal'.mGnssCbIface = hal.mGnssCbIface /\ hal'.linked = hal.linked
      /\ hal'.mGnssMeasurementCbIface = hal.mGnssMeasurementCbIface /\ hal'.measurementLinked = hal.measurementLinked
      /\ api'.mGnssCbIface = hal.mGnssCbIface /\ api'.mEnabled = api.mEnabled /\ api'.cached = api.cached
      /\ api'.mGnssMeasurementCbIface = api.mGnssMeasurementCbIface
  BY <1>3, <1>4 DEF HalState, ApiState
<1>6. /\ halMsgs' \in Seq(HalMsg) /\ Arrives(halMsgs', On(adapter), Wanted(base, api))
      /\ Asks(halMsgs) \/ Hal!requests(hal.mGnssCbIface) => Asks(halMsgs')
  BY <1>1, <1>2, GetApiAsks DEF HalTypes
<1>7. Wanted(base, api') = Wanted(base, api)
  BY <1>5, WantedSame
<1>8. HalTypes'
  <2>1. hal' \in HalState(born) /\ api' \in ApiState
    BY <1>3, <1>4 DEF HalState, ApiState
  <2>2. overtaken' \in BOOLEAN
    BY <1>2, HalOverlooked
  <2> QED  BY <1>1, <1>2, <1>6, <2>1, <2>2 DEF HalTypes
<1>9. SessionsApart' /\ Arrives(halMsgs, On(adapter), Wanted(base, api))'
  BY <1>1, <1>2, <1>6, <1>7 DEF SessionsApart
<1>10. CapabilitiesCome'
  BY <1>1, <1>2, <1>5, <1>6 DEF CapabilitiesCome
<1>11. Links'
  BY <1>1, <1>2, <1>5 DEF Links
<1>12. Granted'
  BY <1>1, <1>2, <1>5, HalOverlooked DEF Granted
<1> QED
  BY <1>8, <1>9, <1>10, <1>11, <1>12 DEF HalInv

\* What is left when the queue, the HAL's objects and the wishes stay.
LEMMA HalStays ==
  ASSUME HalInv, UNCHANGED <<framework, born, halSessions, hal, base, adapter, halMsgs, want, overtaken>>,
         api' = api, CapabilitiesCome'
  PROVE  HalInv'
<1>1. HalTypes' /\ SessionsApart' /\ Links' /\ Granted'
  BY DEF HalInv, HalTypes, SessionsApart, Links, Granted
<1>2. Arrives(halMsgs, On(adapter), Wanted(base, api))'
  BY DEF HalInv
<1> QED
  BY <1>1, <1>2 DEF HalInv

LEMMA RequestKeeps == HalInv /\ Hal!requestCapabilities => HalInv'
<1> SUFFICES ASSUME HalInv, Hal!requestCapabilities PROVE HalInv'
  OBVIOUS
<1>1. /\ UNCHANGED <<framework, born, halSessions, thread, adapter, hal, api, base, halMsgs, want, overtaken>>
      /\ halTold' = IF api.cached THEN halTold \union {api.mGnssCbIface} ELSE halTold
  BY DEF Hal!requestCapabilities, Hal!outside
<1>2. CapabilitiesCome'
  BY <1>1 DEF HalInv, CapabilitiesCome
<1> QED
  BY <1>1, <1>2, HalStays

LEMMA CapabilitiesKeeps == HalInv /\ Hal!onCapabilitiesCb => HalInv'
<1> SUFFICES ASSUME HalInv, Hal!onCapabilitiesCb PROVE HalInv'
  OBVIOUS
<1>1. /\ UNCHANGED <<framework, born, halSessions, binder, adapter, hal, api, base, halMsgs, want, overtaken>>
      /\ halTold' = IF api.mGnssCbIface = 0 THEN halTold ELSE halTold \union {api.mGnssCbIface}
  BY DEF Hal!onCapabilitiesCb, Hal!Nobody
<1>2. CapabilitiesCome'
  BY <1>1 DEF HalInv, CapabilitiesCome
<1> QED
  BY <1>1, <1>2, HalStays

\* Sessions start and stop at the wish of the framework that has set its callback.
LEMMA HalStartKeeps == HalInv /\ Hal!start => HalInv'
<1> SUFFICES ASSUME HalInv, Hal!start PROVE HalInv'
  OBVIOUS
<1>1. /\ HalTypes /\ SessionsApart /\ Arrives(halMsgs, On(adapter), Wanted(base, api))
      /\ CapabilitiesCome /\ Links /\ Granted
  BY DEF HalInv
<1>2. /\ UNCHANGED <<framework, born, hal, api, binder, thread, adapter, halTold, overtaken>>
      /\ want.callback /\ want' = [want EXCEPT !.tracking = TRUE]
      /\ base' = Started("gnss", halMsgs)
      /\ halMsgs' = Hal!startTracking("gnss", halMsgs).msgs
      /\ halSessions' = Hal!startTracking("gnss", halMsgs).sessions
  BY DEF Hal!start, Started
<1>3. /\ want'.callback = want.callback /\ want'.tracking = TRUE /\ want'.measurements = want.measurements
      /\ want' \in WantState
  <2>1. want \in WantState
    BY <1>1 DEF HalTypes
  <2> QED  BY <1>2, <2>1 DEF WantState
<1>4. "gnss" \in Hal!Clients /\ "measurement" \in Hal!Clients /\ halMsgs \in Seq(HalMsg)
  BY <1>1 DEF Hal!Clients, HalTypes
<1>5. /\ base' \in HalBase /\ base'["gnss"].mTracking = TRUE /\ base'["measurement"] = base["measurement"]
      /\ halSessions' \in Nat /\ SessionsApart'
      /\ halMsgs' \in Seq(HalMsg) /\ Arrives(halMsgs', On(adapter), Wanted(base', api))
      /\ Asks(halMsgs) => Asks(halMsgs')
  <2>1. /\ base' \in HalBase /\ base'["gnss"].mTracking = TRUE
        /\ \A d \in Hal!Clients : d # "gnss" => base'[d] = base[d]
        /\ halSessions' \in Nat
        /\ \A d \in Hal!Clients : base'[d].session <= halSessions' /\ (base'[d].mTracking => base'[d].session # 0)
        /\ base'["gnss"].session = base'["measurement"].session => base'["gnss"].session = 0
        /\ halMsgs' \in Seq(HalMsg) /\ Arrives(halMsgs', On(adapter), Wanted(base', api))
        /\ Asks(halMsgs) => Asks(halMsgs')
    <3>1. /\ base' = Started("gnss", halMsgs)
          /\ halMsgs' = Hal!startTracking("gnss", halMsgs).msgs
          /\ halSessions' = Hal!startTracking("gnss", halMsgs).sessions
      BY <1>2
    <3> QED  BY <1>1, <1>4, <3>1, StartSends
  <2> QED  BY <1>4, <2>1 DEF SessionsApart
<1>6. HalTypes'
  BY <1>1, <1>2, <1>3, <1>5 DEF HalTypes, HalBase, HalRecord
<1>7. Arrives(halMsgs, On(adapter), Wanted(base, api))'
  BY <1>2, <1>5
<1>8. CapabilitiesCome'
  BY <1>1, <1>2, <1>3, <1>5 DEF CapabilitiesCome
<1>9. Links'
  <2>1. framework # 0 /\ hal.linked = {framework}
    BY <1>1, <1>2 DEF Links, Hal!Nothing
  <2> QED  BY <1>1, <1>2, <1>3, <1>5, <2>1 DEF Links
<1>10. Granted'
  BY <1>1, <1>2, <1>3, <1>5 DEF Granted
<1> QED
  BY <1>5, <1>6, <1>7, <1>8, <1>9, <1>10 DEF HalInv

LEMMA HalStopKeeps == HalInv /\ Hal!stop => HalInv'
<1> SUFFICES ASSUME HalInv, Hal!stop PROVE HalInv'
  OBVIOUS
<1>1. /\ HalTypes /\ SessionsApart /\ Arrives(halMsgs, On(adapter), Wanted(base, api))
      /\ CapabilitiesCome /\ Links /\ Granted
  BY DEF HalInv
<1>2. /\ UNCHANGED <<framework, born, halSessions, hal, api, binder, thread, adapter, halTold, overtaken>>
      /\ want.callback /\ want' = [want EXCEPT !.tracking = FALSE] /\ framework # 0
      /\ base' = Stopped("gnss", halMsgs)
      /\ halMsgs' = Hal!stopTracking("gnss", halMsgs).msgs
  BY DEF Hal!stop, Stopped, Hal!outside, Hal!Calls, Hal!Nobody
<1>3. /\ want'.callback = want.callback /\ want'.tracking = FALSE /\ want'.measurements = want.measurements
      /\ want' \in WantState
  <2>1. want \in WantState
    BY <1>1 DEF HalTypes
  <2> QED  BY <1>2, <2>1 DEF WantState
<1>4. "gnss" \in Hal!Clients /\ "measurement" \in Hal!Clients /\ halMsgs \in Seq(HalMsg)
  BY <1>1 DEF Hal!Clients, HalTypes
<1>5. /\ base' \in HalBase /\ base'["gnss"].mTracking = FALSE
      /\ \A d \in Hal!Clients : base'[d].session = base[d].session /\ (d # "gnss" => base'[d] = base[d])
      /\ halMsgs' \in Seq(HalMsg) /\ Arrives(halMsgs', On(adapter), Wanted(base', api))
      /\ Asks(halMsgs) => Asks(halMsgs')
  <2>1. /\ base' = Stopped("gnss", halMsgs)
        /\ halMsgs' = Hal!stopTracking("gnss", halMsgs).msgs
    BY <1>2
  <2> QED  BY <1>1, <1>4, <2>1, StopSends
<1>6. base'["measurement"] = base["measurement"]
  BY <1>4, <1>5
<1>7. HalTypes'
  BY <1>1, <1>2, <1>3, <1>5 DEF HalTypes, HalBase, HalRecord
<1>8. SessionsApart' /\ Arrives(halMsgs, On(adapter), Wanted(base, api))'
  <2>1. Arrives(halMsgs, On(adapter), Wanted(base, api))'
    BY <1>2, <1>5
  <2>2. SessionsApart'
    BY <1>1, <1>2, <1>4, <1>5 DEF SessionsApart
  <2> QED  BY <2>1, <2>2
<1>9. CapabilitiesCome'
  BY <1>1, <1>2, <1>3, <1>5 DEF CapabilitiesCome
<1>10. Links'
  BY <1>1, <1>2, <1>3, <1>5, <1>6 DEF Links
<1>11. Granted'
  BY <1>1, <1>2, <1>3, <1>5, <1>6 DEF Granted
<1> QED
  BY <1>7, <1>8, <1>9, <1>10, <1>11 DEF HalInv

LEMMA HalCleanupKeeps == HalInv /\ Hal!cleanup => HalInv'
<1> SUFFICES ASSUME HalInv, Hal!cleanup PROVE HalInv'
  OBVIOUS
<1>1. /\ HalTypes /\ SessionsApart /\ Arrives(halMsgs, On(adapter), Wanted(base, api))
      /\ CapabilitiesCome /\ Links /\ Granted
  BY DEF HalInv
<1>2. /\ UNCHANGED <<framework, born, halSessions, hal, base, binder, thread, adapter, halTold, overtaken>>
      /\ want.callback /\ ~want.tracking /\ want' = [want EXCEPT !.callback = FALSE] /\ framework # 0
      /\ api' = [api EXCEPT !.mEnabled = FALSE] /\ halMsgs' = Hal!disable(halMsgs)
  BY DEF Hal!cleanup, Hal!outside, Hal!Calls, Hal!Nobody
<1>3. /\ want'.callback = FALSE /\ want'.tracking = want.tracking /\ want'.measurements = want.measurements
      /\ want' \in WantState
  <2>1. want \in WantState
    BY <1>1 DEF HalTypes
  <2> QED  BY <1>2, <2>1 DEF WantState
<1>4. /\ api'.mEnabled = FALSE /\ api'.mGnssCbIface = api.mGnssCbIface /\ api'.cached = api.cached
      /\ api'.mGnssMeasurementCbIface = api.mGnssMeasurementCbIface /\ api' \in ApiState
  <2>1. api \in ApiState
    BY <1>1 DEF HalTypes
  <2> QED  BY <1>2, <2>1 DEF ApiState
<1>5. /\ halMsgs' \in Seq(HalMsg) /\ Arrives(halMsgs', On(adapter), Wanted(base, api'))
      /\ Asks(halMsgs) => Asks(halMsgs')
  <2>1. halMsgs \in Seq(HalMsg) /\ \A c \in Hal!Clients : base[c].mTracking => base[c].session # 0
    BY <1>1 DEF HalTypes, SessionsApart
  <2> QED  BY <1>1, <1>2, <1>4, <2>1, DisableAsks
<1>6. HalTypes'
  BY <1>1, <1>2, <1>3, <1>4, <1>5 DEF HalTypes
<1>7. SessionsApart' /\ Arrives(halMsgs, On(adapter), Wanted(base, api))'
  BY <1>1, <1>2, <1>5 DEF SessionsApart
<1>8. CapabilitiesCome'
  BY <1>1, <1>2, <1>3, <1>4, <1>5 DEF CapabilitiesCome
<1>9. Links'
  BY <1>1, <1>2, <1>3, <1>4 DEF Links
<1>10. Granted'
  BY <1>1, <1>2, <1>3, <1>4 DEF Granted
<1> QED
  BY <1>6, <1>7, <1>8, <1>9, <1>10 DEF HalInv

\* The measurement callback: refused while there is one, else a session starts with it.
LEMMA SetMeasurementKeeps == HalInv /\ Hal!setMeasurementCallback => HalInv'
<1> SUFFICES ASSUME HalInv, Hal!setMeasurementCallback PROVE HalInv'
  OBVIOUS
<1>1. /\ HalTypes /\ SessionsApart /\ Arrives(halMsgs, On(adapter), Wanted(base, api))
      /\ CapabilitiesCome /\ Links /\ Granted
  BY DEF HalInv
<1>2. /\ UNCHANGED <<framework, born, binder, thread, adapter, halTold>> /\ framework # 0
      /\ want' = [want EXCEPT !.measurements = TRUE] /\ Hal!overtakes
  BY DEF Hal!setMeasurementCallback, Hal!Calls, Hal!Nobody
<1>3. /\ want'.callback = want.callback /\ want'.tracking = want.tracking /\ want'.measurements = TRUE
      /\ want' \in WantState
  <2>1. want \in WantState
    BY <1>1 DEF HalTypes
  <2> QED  BY <1>2, <2>1 DEF WantState
<1>4. overtaken' \in BOOLEAN /\ (~overtaken' => ~overtaken /\ hal.linked \subseteq {framework}
                                                /\ hal.measurementLinked \subseteq {framework})
  BY <1>2, HalOverlooked
<1>5. CASE hal.mGnssMeasurementCbIface # 0
  <2>1. UNCHANGED <<hal, api, base, halMsgs, halSessions>>
    BY <1>5 DEF Hal!setMeasurementCallback, Hal!Nobody
  <2>2. HalTypes'
    BY <1>1, <1>2, <1>3, <1>4, <2>1 DEF HalTypes
  <2>3. SessionsApart' /\ Arrives(halMsgs, On(adapter), Wanted(base, api))'
    BY <1>1, <1>2, <2>1 DEF SessionsApart
  <2>4. CapabilitiesCome'
    BY <1>1, <1>2, <1>3, <2>1 DEF CapabilitiesCome
  <2>5. Links'
    BY <1>1, <1>2, <1>3, <2>1 DEF Links
  <2>6. Granted'
    <3>1. ~overtaken' => hal.mGnssMeasurementCbIface = framework
      BY <1>1, <1>4, <1>5 DEF Links
    <3> QED  BY <1>1, <1>2, <1>3, <1>4, <2>1, <3>1 DEF Granted
  <2> QED  BY <2>2, <2>3, <2>4, <2>5, <2>6 DEF HalInv
<1>6. CASE hal.mGnssMeasurementCbIface = 0
  <2>1. /\ hal' = [hal EXCEPT !.mGnssMeasurementCbIface = framework, !.measurementLinked = {framework}]
        /\ api' = [api EXCEPT !.mGnssMeasurementCbIface = framework]
    BY <1>6 DEF Hal!setMeasurementCallback, Hal!Nobody
  <2>2. /\ base' = Started("measurement", halMsgs)
        /\ halMsgs' = Hal!startTracking("measurement", halMsgs).msgs
        /\ halSessions' = Hal!startTracking("measurement", halMsgs).sessions
    BY <1>6 DEF Hal!setMeasurementCallback, Hal!Nobody, Started
  <2>3. framework \in 1..born /\ hal \in HalState(born) /\ api \in ApiState /\ framework \in Nat /\ framework \in 0..born
    BY <1>1, <1>2 DEF HalTypes
  <2>4. /\ (hal'.requested <=> hal.requested) /\ hal'.mApi = hal.mApi /\ hal'.mGnssCbIface = hal.mGnssCbIface /\ hal'.linked = hal.linked
        /\ hal'.mGnssMeasurementCbIface = framework /\ hal'.measurementLinked = {framework}
        /\ hal' \in HalState(born)
    BY <2>1, <2>3 DEF HalState
  <2>5. /\ api'.mGnssCbIface = api.mGnssCbIface /\ api'.mEnabled = api.mEnabled /\ api'.cached = api.cached
        /\ api'.mGnssMeasurementCbIface = framework /\ api' \in ApiState
    BY <2>1, <2>3 DEF ApiState
  <2>6. "gnss" \in Hal!Clients /\ "measurement" \in Hal!Clients /\ halMsgs \in Seq(HalMsg)
    BY <1>1 DEF Hal!Clients, HalTypes
  <2>7. /\ base' \in HalBase /\ base'["measurement"].mTracking = TRUE
        /\ \A d \in Hal!Clients : d # "measurement" => base'[d] = base[d]
        /\ halSessions' \in Nat
        /\ \A d \in Hal!Clients : base'[d].session <= halSessions' /\ (base'[d].mTracking => base'[d].session # 0)
        /\ base'["gnss"].session = base'["measurement"].session => base'["gnss"].session = 0
        /\ halMsgs' \in Seq(HalMsg) /\ Arrives(halMsgs', On(adapter), Wanted(base', api))
        /\ Asks(halMsgs) => Asks(halMsgs')
    <3> DEFINE b == Started("measurement", halMsgs)
               r == Hal!startTracking("measurement", halMsgs)
    <3>1. /\ b \in HalBase /\ b["measurement"].mTracking = TRUE
          /\ \A d \in Hal!Clients : d # "measurement" => b[d] = base[d]
          /\ r.sessions \in Nat
          /\ \A d \in Hal!Clients : b[d].session <= r.sessions /\ (b[d].mTracking => b[d].session # 0)
          /\ b["gnss"].session = b["measurement"].session => b["gnss"].session = 0
      BY <1>1, <2>6, StartSends
    <3>2. /\ r.msgs \in Seq(HalMsg) /\ Arrives(r.msgs, On(adapter), Wanted(b, api))
          /\ Asks(halMsgs) => Asks(r.msgs)
      BY <1>1, <2>6, StartSends
    <3> HIDE DEF b, r
    <3>3. base' = b /\ halMsgs' = r.msgs /\ halSessions' = r.sessions
      BY <2>2 DEF b, r
    <3> QED  BY <3>1, <3>2, <3>3
  <2>8. base'["gnss"] = base["gnss"] /\ Wanted(base', api') = Wanted(base', api)
    BY <2>5, <2>6, <2>7, WantedSame
  <2>9. HalTypes'
    BY <1>1, <1>2, <1>3, <1>4, <2>4, <2>5, <2>7 DEF HalTypes, HalBase, HalRecord
  <2>10. SessionsApart' /\ Arrives(halMsgs, On(adapter), Wanted(base, api))'
    BY <1>2, <2>7, <2>8 DEF SessionsApart
  <2>11. CapabilitiesCome'
    BY <1>1, <1>2, <1>3, <2>4, <2>5, <2>7 DEF CapabilitiesCome
  <2>12. Links'
    BY <1>1, <1>2, <1>3, <2>4, <2>5, <2>7, <2>8 DEF Links
  <2>13. Granted'
    BY <1>1, <1>2, <1>3, <1>4, <2>4, <2>5, <2>7, <2>8 DEF Granted
  <2> QED  BY <2>9, <2>10, <2>11, <2>12, <2>13 DEF HalInv
<1> QED
  BY <1>5, <1>6

\* GnssMeasurement::close, called by the framework or by the obituary.
LEMMA MeasurementCloses ==
  ASSUME HalInv, Hal!closeMeasurement, UNCHANGED <<framework, born, halSessions, api, thread, adapter>>,
         want' \in WantState, want'.callback = want.callback, want'.tracking = want.tracking,
         framework = 0 => want' = want, overtaken' \in BOOLEAN,
         ~overtaken' => ~overtaken /\ want'.measurements = FALSE,
         UNCHANGED <<binder, halTold>>
  PROVE  HalInv'
<1>1. /\ HalTypes /\ SessionsApart /\ Arrives(halMsgs, On(adapter), Wanted(base, api))
      /\ CapabilitiesCome /\ Links /\ Granted
  BY DEF HalInv
<1>2. hal' = [hal EXCEPT !.mGnssMeasurementCbIface = 0, !.measurementLinked = {}]
  BY DEF Hal!closeMeasurement, Hal!forget, Hal!Nobody
<1>3. base' = Stopped("measurement", halMsgs) /\ halMsgs' = Hal!stopTracking("measurement", halMsgs).msgs
  BY DEF Hal!closeMeasurement, Stopped
<1>4. hal \in HalState(born) /\ born \in Nat
  BY <1>1 DEF HalTypes
<1>5. /\ (hal'.requested <=> hal.requested) /\ hal'.mApi = hal.mApi /\ hal'.mGnssCbIface = hal.mGnssCbIface /\ hal'.linked = hal.linked
      /\ hal'.mGnssMeasurementCbIface = 0 /\ hal'.measurementLinked = {}
      /\ hal' \in HalState(born)
  <2>1. 0 \in 0..born /\ {} \in SUBSET (1..born)
    BY <1>4
  <2> QED  BY <1>2, <1>4, <2>1 DEF HalState
<1>6. "gnss" \in Hal!Clients /\ "measurement" \in Hal!Clients /\ halMsgs \in Seq(HalMsg)
  BY <1>1 DEF Hal!Clients, HalTypes
<1>7. /\ base' \in HalBase /\ base'["measurement"].mTracking = FALSE
      /\ \A d \in Hal!Clients : base'[d].session = base[d].session /\ (d # "measurement" => base'[d] = base[d])
      /\ halMsgs' \in Seq(HalMsg) /\ Arrives(halMsgs', On(adapter), Wanted(base', api))
      /\ Asks(halMsgs) => Asks(halMsgs')
  BY <1>1, <1>3, <1>6, StopSends
<1>8. base'["gnss"] = base["gnss"]
  BY <1>6, <1>7
<1>9. HalTypes'
  BY <1>1, <1>5, <1>7 DEF HalTypes, HalBase, HalRecord
<1>10. SessionsApart'
  BY <1>1, <1>6, <1>7 DEF SessionsApart
<1>11. Arrives(halMsgs, On(adapter), Wanted(base, api))'
  BY <1>7
<1>12. CapabilitiesCome'
  BY <1>1, <1>5, <1>7 DEF CapabilitiesCome
<1>13. Links'
  BY <1>1, <1>5, <1>7, <1>8 DEF Links
<1>14. Granted'
  BY <1>1, <1>5, <1>8 DEF Granted
<1> QED
  BY <1>9, <1>10, <1>11, <1>12, <1>13, <1>14 DEF HalInv

LEMMA HalCloseKeeps == HalInv /\ Hal!close => HalInv'
<1> SUFFICES ASSUME HalInv, Hal!close PROVE HalInv'
  OBVIOUS
<1>1. /\ Hal!closeMeasurement /\ UNCHANGED <<framework, born, halSessions, api, thread, adapter>>
      /\ want' = [want EXCEPT !.measurements = FALSE] /\ framework # 0 /\ Hal!overtakes
      /\ UNCHANGED <<binder, halTold>>
  BY DEF Hal!close, Hal!outside, Hal!Calls, Hal!Nobody
<1>2. want \in WantState
  BY DEF HalInv, HalTypes
<1>3. /\ want'.callback = want.callback /\ want'.tracking = want.tracking /\ want'.measurements = FALSE
      /\ want' \in WantState
  BY <1>1, <1>2 DEF WantState
<1> QED
  BY <1>1, <1>3, HalOverlooked, MeasurementCloses

\* The obituary comes for a dead framework: if the living one had asked for measurements it would have overtaken.
LEMMA MeasurementDiedKeeps == HalInv /\ Hal!measurementServiceDied => HalInv'
<1> SUFFICES ASSUME HalInv, Hal!measurementServiceDied PROVE HalInv'
  OBVIOUS
<1>1. /\ Hal!closeMeasurement /\ UNCHANGED <<framework, born, halSessions, api, thread, adapter>>
      /\ UNCHANGED <<binder, want, halTold, overtaken>> /\ hal.measurementLinked \ {framework} # {}
  BY DEF Hal!measurementServiceDied, Hal!outside
<1>2. /\ HalTypes /\ Links /\ Granted /\ want \in WantState /\ overtaken \in BOOLEAN
  BY DEF HalInv, HalTypes
<1>3. hal.mGnssMeasurementCbIface # framework
  BY <1>1, <1>2 DEF Links
<1>4. ~overtaken => want.measurements = FALSE
  BY <1>2, <1>3 DEF Granted, WantState
<1> QED
  BY <1>1, <1>2, <1>4, MeasurementCloses

\* The obituary of the framework linked: stop and cleanup.  A living framework that had set its callback
\* would be the one linked.
LEMMA GnssDiedKeeps == HalInv /\ Hal!gnssServiceDied => HalInv'
<1> SUFFICES ASSUME HalInv, Hal!gnssServiceDied PROVE HalInv'
  OBVIOUS
<1>1. /\ HalTypes /\ SessionsApart /\ Arrives(halMsgs, On(adapter), Wanted(base, api))
      /\ CapabilitiesCome /\ Links /\ Granted
  BY DEF HalInv
<1>2. /\ UNCHANGED <<framework, born, halSessions, binder, thread, adapter, want, halTold, overtaken>>
      /\ hal.linked \ {framework} # {}
      /\ hal' = [hal EXCEPT !.linked = @ \intersect {framework}]
      /\ api' = [api EXCEPT !.mEnabled = FALSE]
      /\ base' = Stopped("gnss", halMsgs)
      /\ halMsgs' = Hal!disable(Hal!stopTracking("gnss", halMsgs).msgs)
  BY DEF Hal!gnssServiceDied, Hal!outside, Hal!cleanupDead, Stopped
<1>3. hal.linked \cap {framework} = {} /\ want.callback = FALSE /\ want.tracking = FALSE
  <2>1. want \in WantState
    BY <1>1 DEF HalTypes
  <2>2. hal.linked \cap {framework} = {} /\ ~want.callback /\ ~want.tracking
    BY <1>1, <1>2 DEF Links
  <2> QED  BY <2>1, <2>2 DEF WantState
<1>4. /\ (hal'.requested <=> hal.requested) /\ hal'.mApi = hal.mApi /\ hal'.mGnssCbIface = hal.mGnssCbIface /\ hal'.linked = {}
      /\ hal'.mGnssMeasurementCbIface = hal.mGnssMeasurementCbIface /\ hal'.measurementLinked = hal.measurementLinked
      /\ hal' \in HalState(born)
  <2>1. hal \in HalState(born)
    BY <1>1 DEF HalTypes
  <2>2. hal' = [hal EXCEPT !.linked = {}]
    BY <1>2, <1>3
  <2> QED  BY <2>1, <2>2 DEF HalState
<1>5. /\ api'.mEnabled = FALSE /\ api'.mGnssCbIface = api.mGnssCbIface /\ api'.cached = api.cached
      /\ api'.mGnssMeasurementCbIface = api.mGnssMeasurementCbIface /\ api' \in ApiState
  <2>1. api \in ApiState
    BY <1>1 DEF HalTypes
  <2> QED  BY <1>2, <2>1 DEF ApiState
<1>6. "gnss" \in Hal!Clients /\ "measurement" \in Hal!Clients /\ halMsgs \in Seq(HalMsg)
  BY <1>1 DEF Hal!Clients, HalTypes
<1> DEFINE q == Hal!stopTracking("gnss", halMsgs).msgs
<1>7. /\ base' \in HalBase /\ base'["gnss"].mTracking = FALSE
      /\ \A d \in Hal!Clients : base'[d].session = base[d].session /\ (d # "gnss" => base'[d] = base[d])
      /\ q \in Seq(HalMsg) /\ Arrives(q, On(adapter), Wanted(base', api))
      /\ Asks(halMsgs) => Asks(q)
  <2>1. base' = Stopped("gnss", halMsgs)
    BY <1>2
  <2> QED  BY <1>1, <1>6, <2>1, StopSends
<1>8. halMsgs' = Hal!disable(q)
  BY <1>2
<1> HIDE DEF q
<1>9. base'["measurement"] = base["measurement"]
  BY <1>6, <1>7
<1>10. SessionsApart'
  BY <1>1, <1>2, <1>6, <1>7 DEF SessionsApart
<1>11. /\ halMsgs' \in Seq(HalMsg) /\ Arrives(halMsgs', On(adapter), Wanted(base', api'))
       /\ Asks(q) => Asks(halMsgs')
  <2>1. \A c \in Hal!Clients : base'[c].mTracking => base'[c].session # 0
    BY <1>10 DEF SessionsApart
  <2> QED  BY <1>1, <1>5, <1>7, <1>8, <2>1, DisableAsks
<1>12. HalTypes'
  BY <1>1, <1>2, <1>4, <1>5, <1>7, <1>11 DEF HalTypes, HalBase, HalRecord
<1>13. Arrives(halMsgs, On(adapter), Wanted(base, api))'
  BY <1>2, <1>11
<1>14. CapabilitiesCome'
  BY <1>1, <1>2, <1>4, <1>5, <1>7, <1>11 DEF CapabilitiesCome
<1>15. Links'
  BY <1>1, <1>2, <1>3, <1>4, <1>5, <1>7, <1>9 DEF Links
<1>16. Granted'
  BY <1>1, <1>2, <1>3, <1>4, <1>5, <1>7, <1>9 DEF Granted
<1> QED
  BY <1>10, <1>12, <1>13, <1>14, <1>15, <1>16 DEF HalInv

\* A framework dies or is born; it has no wishes then.
LEMMA FrameworkChanges ==
  ASSUME HalInv, UNCHANGED <<hal, api, base, halSessions, binder, thread, halMsgs, adapter, halTold, overtaken>>,
         \/ framework' = 0 /\ born' = born /\ want' = Hal!Nothing
         \/ framework = 0 /\ framework' = born + 1 /\ born' = born + 1 /\ want' = want
  PROVE  HalInv'
<1>1. /\ HalTypes /\ SessionsApart /\ Arrives(halMsgs, On(adapter), Wanted(base, api))
      /\ CapabilitiesCome /\ Links /\ Granted
  BY DEF HalInv
<1>2. want' = Hal!Nothing
  BY <1>1 DEF Links
<1>3. want'.callback = FALSE /\ want'.tracking = FALSE /\ want'.measurements = FALSE /\ want' \in WantState
  BY <1>2 DEF Hal!Nothing, WantState
<1>4. /\ born' \in Nat /\ framework' \in 0..born' /\ born <= born' /\ born \in Nat
      /\ framework' = 0 \/ framework' = born + 1
  BY <1>1 DEF HalTypes
<1>5. hal' \in HalState(born')
  <2>1. 0..born \subseteq 0..born' /\ 1..born \subseteq 1..born'
    BY <1>4
  <2>2. hal \in HalState(born)
    BY <1>1 DEF HalTypes
  <2> QED  BY <2>1, <2>2 DEF HalState
<1>6. framework' # 0 => framework' \notin hal.linked /\ hal.mGnssMeasurementCbIface # framework'
  BY <1>1, <1>4 DEF HalTypes, HalState
<1>7. framework' \notin hal.linked /\ hal.linked \subseteq 1..born
  BY <1>1, <1>4 DEF HalTypes, HalState
<1>8. HalTypes'
  BY <1>1, <1>3, <1>4, <1>5 DEF HalTypes
<1>9. SessionsApart' /\ Arrives(halMsgs, On(adapter), Wanted(base, api))'
  BY <1>1 DEF SessionsApart
<1>10. CapabilitiesCome'
  BY <1>1, <1>3 DEF CapabilitiesCome
<1>11. Links'
  <2>1. hal.linked = {} \/ \E f \in 1..born' : hal.linked = {f}
    BY <1>1, <1>4 DEF Links
  <2> QED  BY <1>1, <1>2, <1>3, <1>6, <2>1 DEF Links
<1>12. Granted'
  <2>1. hal.linked \subseteq {framework'} => hal.linked = {}
    BY <1>7
  <2> QED  BY <1>1, <1>3, <2>1 DEF Granted, Links
<1> QED
  BY <1>8, <1>9, <1>10, <1>11, <1>12 DEF HalInv

\* The adapter's thread handles a message.
LEMMA HalHandleKeeps == HalInv /\ Hal!Handle => HalInv'
<1> SUFFICES ASSUME HalInv, Hal!Handle PROVE HalInv'
  OBVIOUS
<1>1. /\ HalTypes /\ SessionsApart /\ Arrives(halMsgs, On(adapter), Wanted(base, api))
      /\ CapabilitiesCome /\ Links /\ Granted
  BY DEF HalInv
<1> DEFINE m == Head(halMsgs)
<1>2. /\ UNCHANGED <<framework, born, hal, base, halSessions, binder, want, halTold, overtaken>>
      /\ halMsgs # <<>> /\ halMsgs' = Tail(halMsgs)
      /\ IF m.type = "requestCapabilities"
         THEN api' = [api EXCEPT !.cached = TRUE] /\ thread' = "onCapabilitiesCb"
         ELSE api' = api /\ thread' = thread
      /\ adapter' = CASE m.type = "start"   -> [adapter EXCEPT !.sessions = @ \union {m.id}]
                      [] m.type = "stop"    -> [adapter EXCEPT !.sessions = @ \ {m.id}]
                      [] m.type = "enable"  -> [adapter EXCEPT !.vote = TRUE]
                      [] m.type = "disable" -> [adapter EXCEPT !.vote = FALSE]
                      [] OTHER -> adapter
  BY DEF Hal!Handle, Hal!cache
<1>3. m \in HalMsg /\ halMsgs \in Seq(HalMsg) /\ adapter \in AdapterState /\ api \in ApiState
  BY <1>1, <1>2 DEF HalTypes
<1>4. m = Head(halMsgs)
  OBVIOUS
<1> HIDE DEF m
<1>5. /\ api'.mEnabled = api.mEnabled /\ api'.mGnssCbIface = api.mGnssCbIface
      /\ api'.mGnssMeasurementCbIface = api.mGnssMeasurementCbIface
      /\ m.type = "requestCapabilities" => api'.cached = TRUE /\ thread' = "onCapabilitiesCb"
      /\ m.type # "requestCapabilities" => api'.cached = api.cached /\ thread' = thread
      /\ api' \in ApiState
  BY <1>2, <1>3 DEF ApiState
<1>6. /\ adapter' \in AdapterState
      /\ \A x \in Nat : IF About(m, x) THEN x \in On(adapter') <=> TurnsOn(m)
                        ELSE x \in On(adapter') <=> x \in On(adapter)
  <2>1. adapter.sessions \subseteq Nat \ {0} /\ adapter.vote \in BOOLEAN
    BY <1>3 DEF AdapterState
  <2>2. CASE m.type = "start"
    <3>1. adapter' = [adapter EXCEPT !.sessions = adapter.sessions \cup {m.id}] /\ m.id \in Nat \ {0}
      BY <1>2, <1>3, <2>2 DEF HalMsg
    <3>2. /\ adapter' \in AdapterState /\ adapter'.sessions = adapter.sessions \cup {m.id}
          /\ adapter'.vote = adapter.vote
      BY <1>3, <3>1 DEF AdapterState
    <3> QED  BY <2>1, <2>2, <3>1, <3>2 DEF On, About, TurnsOn
  <2>3. CASE m.type = "stop"
    <3>1. adapter' = [adapter EXCEPT !.sessions = adapter.sessions \ {m.id}] /\ m.id \in Nat \ {0}
      BY <1>2, <1>3, <2>3 DEF HalMsg
    <3>2. /\ adapter' \in AdapterState /\ adapter'.sessions = adapter.sessions \ {m.id}
          /\ adapter'.vote = adapter.vote
      BY <1>3, <3>1 DEF AdapterState
    <3> QED  BY <2>1, <2>3, <3>1, <3>2 DEF On, About, TurnsOn
  <2>4. CASE m.type = "enable"
    <3>1. adapter' = [adapter EXCEPT !.vote = TRUE]
      BY <1>2, <2>4
    <3>2. adapter' \in AdapterState /\ adapter'.sessions = adapter.sessions /\ adapter'.vote = TRUE
      BY <1>3, <3>1 DEF AdapterState
    <3> QED  BY <2>1, <2>4, <3>2 DEF On, About, TurnsOn
  <2>5. CASE m.type = "disable"
    <3>1. adapter' = [adapter EXCEPT !.vote = FALSE]
      BY <1>2, <2>5
    <3>2. adapter' \in AdapterState /\ adapter'.sessions = adapter.sessions /\ adapter'.vote = FALSE
      BY <1>3, <3>1 DEF AdapterState
    <3> QED  BY <2>1, <2>5, <3>2 DEF On, About, TurnsOn
  <2>6. CASE m.type = "requestCapabilities"
    <3>1. adapter' = adapter
      BY <1>2, <2>6
    <3> QED  BY <1>3, <2>6, <3>1 DEF About
  <2> QED  BY <1>3, <2>2, <2>3, <2>4, <2>5, <2>6 DEF HalMsg
<1>7. /\ halMsgs' \in Seq(HalMsg) /\ Arrives(halMsgs', On(adapter'), Wanted(base, api))
      /\ Asks(halMsgs) => Asks(halMsgs') \/ m.type = "requestCapabilities"
  BY <1>1, <1>2, <1>3, <1>4, <1>6, HalTaken
<1>8. Wanted(base, api') = Wanted(base, api)
  BY <1>5, WantedSame
<1>9. HalTypes'
  BY <1>1, <1>2, <1>5, <1>6, <1>7 DEF HalTypes
<1>10. SessionsApart' /\ Arrives(halMsgs, On(adapter), Wanted(base, api))'
  BY <1>1, <1>2, <1>7, <1>8 DEF SessionsApart
<1>11. CapabilitiesCome'
  BY <1>1, <1>2, <1>5, <1>7 DEF CapabilitiesCome
<1>12. Links'
  BY <1>1, <1>2, <1>5 DEF Links
<1>13. Granted'
  BY <1>1, <1>2, <1>5 DEF Granted
<1> QED
  BY <1>9, <1>10, <1>11, <1>12, <1>13 DEF HalInv

LEMMA HalKept == HalInv /\ [Hal!Next]_(Hal!vars) => HalInv'
<1> SUFFICES ASSUME HalInv, [Hal!Next]_(Hal!vars) PROVE HalInv'
  OBVIOUS
<1>1. CASE UNCHANGED Hal!vars
  <2>1. UNCHANGED <<framework, born, halSessions, hal, api, base, adapter, halMsgs, want, overtaken, binder, thread, halTold>>
    BY <1>1 DEF Hal!vars
  <2>2. CapabilitiesCome'
    BY <2>1 DEF HalInv, CapabilitiesCome
  <2> QED  BY <2>1, <2>2, HalStays
<1>2. CASE Hal!dies
  BY <1>2, FrameworkChanges DEF Hal!dies, Hal!Nobody
<1>3. CASE Hal!isBorn
  BY <1>3, FrameworkChanges DEF Hal!isBorn, Hal!Nobody
<1> QED
  BY <1>1, <1>2, <1>3, SetCallbackKeeps, SetNiCallbackKeeps, RequestKeeps, CapabilitiesKeeps, HalStartKeeps, HalStopKeeps,
     HalCleanupKeeps, SetMeasurementKeeps, HalCloseKeeps, MeasurementDiedKeeps, GnssDiedKeeps, HalHandleKeeps
     DEF Hal!Next

\* Once both threads have caught up the adapter does what is wanted, which HalInv knows.
LEMMA HalServes == HalInv => Hal!FrameworkServed
<1> SUFFICES ASSUME HalInv PROVE Hal!FrameworkServed
  OBVIOUS
<1>1. /\ HalTypes /\ SessionsApart /\ Arrives(halMsgs, On(adapter), Wanted(base, api))
      /\ CapabilitiesCome /\ Links /\ Granted
  BY DEF HalInv
<1>2. /\ want.callback \in BOOLEAN /\ want.tracking \in BOOLEAN /\ adapter.sessions \subseteq Nat \ {0}
      /\ adapter.vote \in BOOLEAN /\ api.mEnabled \in BOOLEAN /\ hal.linked \subseteq 1..born
      /\ hal.measurementLinked \subseteq 1..born /\ framework \in 0..born
      /\ \A c \in Hal!Clients : base[c].mTracking \in BOOLEAN /\ base[c].session \in Nat
  BY <1>1 DEF HalTypes, HalState, ApiState, WantState, AdapterState
<1>3. ASSUME Hal!Quiet
      PROVE  /\ \A x \in Nat \ {0} : x \in adapter.sessions <=> x \in Tracks(base)
             /\ adapter.vote <=> api.mEnabled
             /\ DOMAIN halMsgs = {} /\ binder = "idle" /\ thread = "idle"
  <2>1. DOMAIN halMsgs = {} /\ binder = "idle" /\ thread = "idle"
    BY <1>3 DEF Hal!Quiet
  <2>2. \A x \in Nat : x \in On(adapter) <=> x \in Wanted(base, api)
    BY <1>1, <2>1 DEF Arrives
  <2>3. 0 \notin Tracks(base)
    BY <1>1 DEF SessionsApart, Tracks
  <2> QED  BY <1>2, <2>1, <2>2, <2>3 DEF On, Wanted, Power
<1>4. Hal!CapabilitiesTold
  BY <1>1, <1>3 DEF Hal!CapabilitiesTold, CapabilitiesCome, Asks, Hal!Nobody
<1>5. Hal!NothingForTheDead
  <2> SUFFICES ASSUME Hal!Quiet, framework = 0, Hal!Obituaries = {} PROVE adapter.sessions = {} /\ ~adapter.vote
    BY DEF Hal!NothingForTheDead, Hal!Nobody
  <2>1. hal.linked = {} /\ hal.measurementLinked = {}
    BY <1>2 DEF Hal!Obituaries
  <2>2. ~api.mEnabled /\ \A c \in Hal!Clients : ~base[c].mTracking
    BY <1>1, <2>1 DEF Links, Hal!Clients
  <2>3. Tracks(base) = {}
    BY <2>2 DEF Tracks
  <2> QED  BY <1>2, <1>3, <2>2, <2>3
<1>6. Hal!WishesGranted
  <2> SUFFICES ASSUME Hal!Quiet, framework # 0, ~overtaken, Hal!Obituaries = {}
               PROVE  /\ Hal!Runs("gnss") <=> want.tracking
                      /\ Hal!Runs("measurement") <=> want.measurements
                      /\ adapter.sessions \subseteq {base[c].session : c \in Hal!Clients}
                      /\ adapter.vote <=> want.callback
                      /\ want.callback => api.mGnssCbIface = framework
                      /\ want.measurements => api.mGnssMeasurementCbIface = framework
    BY DEF Hal!WishesGranted, Hal!Nobody
  <2>1. hal.linked \subseteq {framework} /\ hal.measurementLinked \subseteq {framework}
    BY <1>2 DEF Hal!Obituaries
  <2>2. /\ base["gnss"].mTracking <=> want.tracking
        /\ api.mEnabled <=> want.callback
        /\ base["measurement"].mTracking <=> want.measurements
        /\ want.callback => api.mGnssCbIface = framework
        /\ want.measurements => api.mGnssMeasurementCbIface = framework
    BY <1>1, <2>1 DEF Granted, Links, CapabilitiesCome
  <2>3. \A c \in Hal!Clients : Hal!Runs(c) <=> base[c].mTracking
    <3> SUFFICES ASSUME NEW c \in Hal!Clients PROVE Hal!Runs(c) <=> base[c].mTracking
      OBVIOUS
    <3>1. base[c].mTracking => base[c].session \in Tracks(base) /\ base[c].session # 0
      BY <1>1 DEF Tracks, SessionsApart
    <3>2. base[c].session # 0 /\ base[c].session \in Tracks(base) => base[c].mTracking
      BY <1>1 DEF Tracks, SessionsApart, Hal!Clients
    <3> QED  BY <1>2, <1>3, <3>1, <3>2 DEF Hal!Runs
  <2>4. adapter.sessions \subseteq {base[c].session : c \in Hal!Clients}
    BY <1>2, <1>3 DEF Tracks
  <2>5. "gnss" \in Hal!Clients /\ "measurement" \in Hal!Clients
    BY DEF Hal!Clients
  <2> QED  BY <1>3, <2>2, <2>3, <2>4, <2>5
<1> QED
  BY <1>4, <1>5, <1>6 DEF Hal!FrameworkServed

\* However often frameworks die and come back, with their calls, obituaries and messages in any order: a
\* framework that set its callback hears the capabilities, nothing runs for a dead one whose obituaries were
\* handled, and a living one that was not overtaken has the sessions and the vote it asked for.
THEOREM FrameworkIsServed == ClientsSpec => []FrameworkServed
<1>1. ClientsInit => HalInv
  BY HalStarts DEF ClientsInit
<1>2. HalInv /\ [ClientsNext]_allVars => HalInv'
  <2>1. [ClientsNext]_allVars => [Hal!Next]_(Hal!vars)
    BY DEF ClientsNext, allVars, halVars, Hal!vars
  <2> QED  BY <2>1, HalKept
<1>3. HalInv => FrameworkServed
  BY HalServes DEF FrameworkServed
<1> QED
  BY <1>1, <1>2, <1>3, PTL DEF ClientsSpec

-----------------------------------------------------------------------------
(***************************************************************************)
(* The registry of the Location API, for any clients, callbacks, libraries *)
(* and any number of sessions, updates and messages.                       *)
(***************************************************************************)
SessionOps == {"start", "startBatching", "stop", "stopBatching"}
RegMsg ==
  [op : {"add"}, client : LocationApis, id : {0}, cbs : ApiCallbacks]
    \cup [op : {"capabilities", "remove"}, client : LocationApis, id : {0}, cbs : {{}}]
    \cup [op : SessionOps, client : LocationApis, id : Registry!Ids, cbs : {{}}]

BegunTypes ==
  [used : [LocationApis -> BOOLEAN], of : [Registry!Ids -> LocationApis \cup {None}], updates : Nat,
   stopped : [Registry!Ids -> BOOLEAN], batching : [Registry!Ids -> BOOLEAN], owed : [Registry!Ids -> BOOLEAN]]

RegTypes ==
  /\ interface \in [Registry!Adapters -> {"null", "loaded", "failed"}]
  /\ clientData \in [LocationApis -> ApiCallbacks \cup {None}]
  /\ adapterQueues \in [Registry!Adapters -> Seq(RegMsg)]
  /\ registered \in [Registry!Adapters -> [LocationApis -> ApiCallbacks \cup {None}]]
  /\ sessions \subseteq [id : Registry!Ids, client : LocationApis, kind : Registry!Adapters]
  /\ lastId \in 0..MaxId /\ begun \in BegunTypes
  /\ answers \in [Registry!Ids -> Nat] /\ caps \in [LocationApis -> Nat]

\* Messages about a client or about a session, alone and in a queue.
Starts(m, id) == m.op \in {"start", "startBatching"} /\ m.id = id
Stops(m, id) == m.op \in {"stop", "stopBatching"} /\ m.id = id
Says(m, op, c) == m.op = op /\ m.client = c
Mentions(q, c) == \E i \in DOMAIN q : q[i].client = c
Saying(q, op, c) == \E i \in DOMAIN q : Says(q[i], op, c)
Starting(q, id) == \E i \in DOMAIN q : Starts(q[i], id)
Stopping(q, id) == \E i \in DOMAIN q : Stops(q[i], id)

OwedIds == {id \in Registry!Ids : begun["owed"][id]}
StoppedIds == {id \in Registry!Ids : begun["stopped"][id]}
Alive(c) == clientData[c] # None
Member(k, c) == registered[k][c] # None \/ Saying(adapterQueues[k], "add", c)
Running(k, id) == \E s \in sessions : s.kind = k /\ s.id = id

(***************************************************************************)
(* The order in a queue.                                                   *)
(***************************************************************************)
\* A removal is the last message of its client.
RemovedLast(q) == \A i, j \in DOMAIN q : q[i].op = "remove" /\ i < j => q[j].client # q[i].client

\* What is answered to a known client only comes behind the client: capabilities, and starts of these ids.
Owes(m, ids) == m.op = "capabilities" \/ (m.op \in {"start", "startBatching"} /\ m.id \in ids)
AddedFirst(q, known, ids) ==
  \A i \in DOMAIN q : Owes(q[i], ids) =>
    known[q[i].client] # None \/ \E j \in DOMAIN q : j < i /\ Says(q[j], "add", q[i].client)

\* The start of a session that was stopped has a stop behind it.
StoppedLast(q, ids) ==
  \A i \in DOMAIN q : \A id \in ids : Starts(q[i], id) => \E j \in DOMAIN q : i < j /\ Stops(q[j], id)

\* Capabilities are asked for once, sessions are started once, and by their owner.
Single(q) ==
  \A i, j \in DOMAIN q :
    /\ q[i].op = "capabilities" /\ Says(q[j], "capabilities", q[i].client) => i = j
    /\ q[i].op \in {"start", "startBatching"} /\ Starts(q[j], q[i].id) => i = j
OwnersOnly(q, of) == \A i \in DOMAIN q : q[i].op \in SessionOps => q[i].client = of[q[i].id]

InOrder(q, known) ==
  /\ RemovedLast(q) /\ AddedFirst(q, known, OwedIds) /\ StoppedLast(q, StoppedIds) /\ Single(q)
  /\ OwnersOnly(q, begun["of"])

(***************************************************************************)
(* The invariant.                                                          *)
(***************************************************************************)
\* A client that was not created is known nowhere; the removal of one is its last message.
NotYet ==
  \A c \in LocationApis :
    /\ ~begun["used"][c] => ~Alive(c) /\ caps[c] = 0
    /\ \A k \in Registry!Adapters :
         /\ ~begun["used"][c] => registered[k][c] = None /\ ~Mentions(adapterQueues[k], c)
         /\ Saying(adapterQueues[k], "remove", c) => ~Alive(c)

\* The loaded interfaces that a client's callbacks need know the client, or will; as long as the callbacks
\* never ceased to need one, no others do.
Membership ==
  \A c \in LocationApis, k \in Registry!Adapters : Alive(c) =>
    /\ k \in Registry!needs(clientData[c]) => interface[k] # "null"
    /\ k \in Registry!Loaded(interface, clientData[c]) => Member(k, c)
    /\ c \notin shrunk /\ Member(k, c) => k \in Registry!Loaded(interface, clientData[c])

\* A client that was destroyed is going to be removed from where it is known.
Departure ==
  \A c \in LocationApis, k \in Registry!Adapters :
    c \notin shrunk /\ ~Alive(c) /\ Member(k, c) => Saying(adapterQueues[k], "remove", c)

\* The capabilities are told once, or are on their way.
Asking(k, c) == Saying(adapterQueues[k], "capabilities", c)
CapsOnce ==
  \A c \in LocationApis :
    /\ caps[c] <= 1
    /\ \A k \in Registry!Adapters : Asking(k, c) => caps[c] = 0 /\ \A l \in Registry!Adapters : Asking(l, c) => k = l
CapsCome ==
  begun["updates"] = 0 => \A c \in LocationApis : Alive(c) /\ (\E k \in Registry!Adapters : Member(k, c)) =>
    caps[c] = 1 \/ \E k \in Registry!Adapters : Asking(k, c)

\* An id that was not given yet is used nowhere, and one that was belongs to one client.
IdsGiven ==
  /\ \A id \in Registry!Ids :
       /\ id > lastId => id \notin StoppedIds /\ id \notin OwedIds /\ answers[id] = 0 /\ begun["of"][id] = None
       /\ \A k \in Registry!Adapters :
            Starting(adapterQueues[k], id) \/ Stopping(adapterQueues[k], id) => id <= lastId
  /\ \A s \in sessions : s.id <= lastId /\ s.client = begun["of"][s.id] /\ registered[s.kind][s.client] # None

\* Where sessions are started and run is where their stops go, and a session that was stopped has one coming.
Routed(k, id) == k \in {"gnss", "flp"} /\ interface[k] = "loaded" /\ (begun["batching"][id] => k = "flp")
StopsArrive ==
  \A k \in Registry!Adapters, id \in Registry!Ids :
    /\ Running(k, id) \/ Starting(adapterQueues[k], id) => Routed(k, id)
    /\ id \in StoppedIds /\ Running(k, id) => Stopping(adapterQueues[k], id)
    /\ Stopping(adapterQueues[k], id) => id \in StoppedIds

\* A session is started once, in one adapter.
StartedOnce ==
  \A k \in Registry!Adapters, id \in Registry!Ids : Running(k, id) \/ Starting(adapterQueues[k], id) =>
    /\ \A l \in Registry!Adapters : Running(l, id) \/ Starting(adapterQueues[l], id) => k = l
    /\ ~(Running(k, id) /\ Starting(adapterQueues[k], id))

\* How often a session was answered.
AnswersCounted ==
  \A id \in Registry!Ids :
    /\ answers[id] <= IF id \in StoppedIds THEN 2 ELSE 1
    /\ id \in OwedIds => answers[id] > 0 \/ \E k \in Registry!Adapters : Starting(adapterQueues[k], id)
    /\ \A k \in Registry!Adapters : /\ Running(k, id) => answers[id] <= 1
                                    /\ Starting(adapterQueues[k], id) => answers[id] = 0

RegInv ==
  /\ RegTypes /\ NotYet /\ Membership /\ Departure /\ CapsOnce /\ CapsCome
  /\ \A k \in Registry!Adapters : InOrder(adapterQueues[k], registered[k])
  /\ IdsGiven /\ StopsArrive /\ StartedOnce /\ AnswersCounted

LEMMA RegAssumptions == MaxId \in Nat /\ None \notin LocationApis /\ None \notin ApiCallbacks
  BY ClientsAssumption DEF Registry!BoundAssumption, Registry!NoneAssumption

\* One message more.
LEMMA QueueGrows ==
  ASSUME NEW q \in Seq(RegMsg), NEW m \in RegMsg
  PROVE  /\ Append(q, m) \in Seq(RegMsg)
         /\ \A c : /\ Mentions(Append(q, m), c) <=> Mentions(q, c) \/ m.client = c
                   /\ \A op : Saying(Append(q, m), op, c) <=> Saying(q, op, c) \/ Says(m, op, c)
         /\ \A id : /\ Starting(Append(q, m), id) <=> Starting(q, id) \/ Starts(m, id)
                    /\ Stopping(Append(q, m), id) <=> Stopping(q, id) \/ Stops(m, id)
<1> DEFINE p == Append(q, m)
           n == Len(q) + 1
<1>1. /\ p \in Seq(RegMsg) /\ DOMAIN p = DOMAIN q \cup {n} /\ p[n] = m /\ \A i \in DOMAIN q : p[i] = q[i]
  OBVIOUS
<1> HIDE DEF p, n
<1>2. \A c : Mentions(p, c) <=> Mentions(q, c) \/ m.client = c
  BY <1>1 DEF Mentions
<1>3. \A c, op : Saying(p, op, c) <=> Saying(q, op, c) \/ Says(m, op, c)
  BY <1>1 DEF Saying
<1>4. \A id : Starting(p, id) <=> Starting(q, id) \/ Starts(m, id)
  BY <1>1 DEF Starting
<1>5. \A id : Stopping(p, id) <=> Stopping(q, id) \/ Stops(m, id)
  BY <1>1 DEF Stopping
<1> QED
  BY <1>1, <1>2, <1>3, <1>4, <1>5 DEF p

\* What the order of a queue asks of a message that is appended to it.
LEMMA OrderGrows ==
  ASSUME NEW q \in Seq(RegMsg), NEW m \in RegMsg, NEW known, NEW ids, NEW stopped, NEW of,
         RemovedLast(q), AddedFirst(q, known, ids), StoppedLast(q, stopped), Single(q), OwnersOnly(q, of),
         ~Saying(q, "remove", m.client),
         Owes(m, ids) => known[m.client] # None \/ Saying(q, "add", m.client),
         \A id \in stopped : ~Starts(m, id),
         m.op = "capabilities" => ~Saying(q, "capabilities", m.client),
         m.op \in {"start", "startBatching"} => ~Starting(q, m.id),
         m.op \in SessionOps => m.client = of[m.id]
  PROVE  /\ RemovedLast(Append(q, m)) /\ AddedFirst(Append(q, m), known, ids) /\ StoppedLast(Append(q, m), stopped)
         /\ Single(Append(q, m)) /\ OwnersOnly(Append(q, m), of)
<1> DEFINE p == Append(q, m)
           n == Len(q) + 1
<1>1. /\ DOMAIN p = DOMAIN q \cup {n} /\ p[n] = m /\ \A i \in DOMAIN q : p[i] = q[i] /\ i < n /\ i \in Int
      /\ n \in Int
  OBVIOUS
<1> HIDE DEF p, n
<1>2. RemovedLast(p)
  BY <1>1 DEF RemovedLast, Saying, Says
<1>3. AddedFirst(p, known, ids)
  <2> SUFFICES ASSUME NEW i \in DOMAIN p, Owes(p[i], ids)
               PROVE  known[p[i].client] # None \/ \E j \in DOMAIN p : j < i /\ Says(p[j], "add", p[i].client)
    BY DEF AddedFirst
  <2>1. CASE i \in DOMAIN q
    BY <1>1, <2>1 DEF AddedFirst
  <2>2. CASE i = n
    BY <1>1, <2>2 DEF Saying
  <2> QED  BY <1>1, <2>1, <2>2
<1>4. StoppedLast(p, stopped)
  <2> SUFFICES ASSUME NEW i \in DOMAIN p, NEW id \in stopped, Starts(p[i], id)
               PROVE  \E j \in DOMAIN p : i < j /\ Stops(p[j], id)
    BY DEF StoppedLast
  <2>1. i \in DOMAIN q /\ p[i] = q[i]
    BY <1>1
  <2>2. PICK j \in DOMAIN q : i < j /\ Stops(q[j], id)
    BY <2>1 DEF StoppedLast
  <2> QED  BY <1>1, <2>2
<1>5. Single(p)
  <2> SUFFICES ASSUME NEW i \in DOMAIN p, NEW j \in DOMAIN p
               PROVE  /\ p[i].op = "capabilities" /\ Says(p[j], "capabilities", p[i].client) => i = j
                      /\ p[i].op \in {"start", "startBatching"} /\ Starts(p[j], p[i].id) => i = j
    BY DEF Single
  <2>1. CASE i \in DOMAIN q /\ j \in DOMAIN q
    BY <1>1, <2>1 DEF Single
  <2>2. CASE i = n /\ j \in DOMAIN q
    BY <1>1, <2>2 DEF Saying, Starting
  <2>3. CASE i \in DOMAIN q /\ j = n
    BY <1>1, <2>3 DEF Saying, Starting, Says, Starts
  <2> QED  BY <1>1, <2>1, <2>2, <2>3
<1>6. OwnersOnly(p, of)
  BY <1>1 DEF OwnersOnly
<1> QED
  BY <1>2, <1>3, <1>4, <1>5, <1>6 DEF p

\* A stop that is appended is behind every start, so its session may count as stopped.
LEMMA StopIsLast ==
  ASSUME NEW q \in Seq(RegMsg), NEW m \in RegMsg, NEW ids, NEW id, StoppedLast(q, ids), Stops(m, id)
  PROVE  StoppedLast(Append(q, m), ids \cup {id})
<1> DEFINE p == Append(q, m)
           n == Len(q) + 1
<1>1. /\ DOMAIN p = DOMAIN q \cup {n} /\ p[n] = m /\ \A i \in DOMAIN q : p[i] = q[i] /\ i < n
  OBVIOUS
<1> HIDE DEF p, n
<1>2. \A x : ~Starts(m, x)
  BY DEF Starts, Stops
<1> SUFFICES ASSUME NEW i \in DOMAIN p, NEW x \in ids \cup {id}, Starts(p[i], x)
             PROVE  \E j \in DOMAIN p : i < j /\ Stops(p[j], x)
  BY DEF StoppedLast, p
<1>3. i \in DOMAIN q /\ p[i] = q[i]
  BY <1>1, <1>2
<1>4. CASE x = id
  BY <1>1, <1>3, <1>4
<1>5. CASE x \in ids
  <2>1. PICK j \in DOMAIN q : i < j /\ Stops(q[j], x)
    BY <1>3, <1>5 DEF StoppedLast
  <2> QED  BY <1>1, <2>1
<1> QED
  BY <1>4, <1>5

\* The order asks nothing of ids that are not in the queue.
LEMMA OrderOfOthers ==
  ASSUME NEW q \in Seq(RegMsg), NEW known, NEW ids, NEW ids2, NEW stopped, NEW stopped2, NEW of, NEW of2,
         AddedFirst(q, known, ids), StoppedLast(q, stopped), OwnersOnly(q, of),
         \A id : Starting(q, id) => (id \in ids2 => id \in ids) /\ (id \in stopped2 => id \in stopped),
         \A id : Starting(q, id) \/ Stopping(q, id) => of2[id] = of[id]
  PROVE  AddedFirst(q, known, ids2) /\ StoppedLast(q, stopped2) /\ OwnersOnly(q, of2)
<1>1. AddedFirst(q, known, ids2)
  <2> SUFFICES ASSUME NEW i \in DOMAIN q, Owes(q[i], ids2) PROVE Owes(q[i], ids)
    BY DEF AddedFirst
  <2> QED  BY DEF Owes, Starting, Starts
<1>2. StoppedLast(q, stopped2)
  BY DEF StoppedLast, Starting
<1>3. OwnersOnly(q, of2)
  BY DEF OwnersOnly, Starting, Stopping, Starts, Stops, SessionOps
<1> QED
  BY <1>1, <1>2, <1>3

\* One message less.
LEMMA QueueShrinks ==
  ASSUME NEW q \in Seq(RegMsg), q # <<>>
  PROVE  /\ Tail(q) \in Seq(RegMsg) /\ Head(q) \in RegMsg
         /\ \A c : /\ Mentions(q, c) <=> Mentions(Tail(q), c) \/ Head(q).client = c
                   /\ \A op : Saying(q, op, c) <=> Saying(Tail(q), op, c) \/ Says(Head(q), op, c)
         /\ \A id : /\ Starting(q, id) <=> Starting(Tail(q), id) \/ Starts(Head(q), id)
                    /\ Stopping(q, id) <=> Stopping(Tail(q), id) \/ Stops(Head(q), id)
<1> DEFINE p == Tail(q)
           m == Head(q)
<1>1. /\ p \in Seq(RegMsg) /\ m \in RegMsg /\ 1 \in DOMAIN q /\ q[1] = m
      /\ \A i \in DOMAIN p : i + 1 \in DOMAIN q /\ p[i] = q[i + 1]
      /\ \A i \in DOMAIN q : i = 1 \/ (i - 1 \in DOMAIN p /\ p[i - 1] = q[i])
  OBVIOUS
<1> HIDE DEF p, m
<1>2. \A c : Mentions(q, c) <=> Mentions(p, c) \/ m.client = c
  BY <1>1 DEF Mentions
<1>3. \A c, op : Saying(q, op, c) <=> Saying(p, op, c) \/ Says(m, op, c)
  BY <1>1 DEF Saying
<1>4. \A id : Starting(q, id) <=> Starting(p, id) \/ Starts(m, id)
  BY <1>1 DEF Starting
<1>5. \A id : Stopping(q, id) <=> Stopping(p, id) \/ Stops(m, id)
  BY <1>1 DEF Stopping
<1> QED
  BY <1>1, <1>2, <1>3, <1>4, <1>5 DEF p, m

\* The rest of a queue is in order too, if whom the head adds is known then and others who are known stay so
\* or are not mentioned any more.
LEMMA OrderShrinks ==
  ASSUME NEW q \in Seq(RegMsg), q # <<>>, NEW known, NEW known2, NEW ids, NEW stopped, NEW of,
         RemovedLast(q), AddedFirst(q, known, ids), StoppedLast(q, stopped), Single(q), OwnersOnly(q, of),
         \A c : known[c] # None \/ Says(Head(q), "add", c) => known2[c] # None \/ ~Mentions(Tail(q), c)
  PROVE  /\ RemovedLast(Tail(q)) /\ AddedFirst(Tail(q), known2, ids) /\ StoppedLast(Tail(q), stopped)
         /\ Single(Tail(q)) /\ OwnersOnly(Tail(q), of)
         /\ Head(q).op = "remove" => ~Mentions(Tail(q), Head(q).client)
         /\ Owes(Head(q), ids) => known[Head(q).client] # None
         /\ \A id \in stopped : Starts(Head(q), id) => Stopping(Tail(q), id)
         /\ Head(q).op = "capabilities" => ~Saying(Tail(q), "capabilities", Head(q).client)
         /\ \A id : Starts(Head(q), id) => ~Starting(Tail(q), id)
         /\ Head(q).op \in SessionOps => Head(q).client = of[Head(q).id]
<1> DEFINE p == Tail(q)
           m == Head(q)
<1>1. /\ p \in Seq(RegMsg) /\ m \in RegMsg /\ 1 \in DOMAIN q /\ q[1] = m
      /\ \A i \in DOMAIN p : i \in Nat /\ i + 1 \in DOMAIN q /\ p[i] = q[i + 1] /\ 1 < i + 1
      /\ \A i \in DOMAIN q : i \in Nat /\ (i = 1 \/ (i > 1 /\ i - 1 \in DOMAIN p /\ p[i - 1] = q[i]))
  OBVIOUS
<1> HIDE DEF p, m
<1>2. RemovedLast(p) /\ (m.op = "remove" => ~Mentions(p, m.client))
  BY <1>1 DEF RemovedLast, Mentions
<1>3. AddedFirst(p, known2, ids) /\ (Owes(m, ids) => known[m.client] # None)
  <2>1. ASSUME Owes(m, ids) PROVE known[m.client] # None
    BY <1>1, <2>1 DEF AddedFirst
  <2>2. ASSUME NEW i \in DOMAIN p, Owes(p[i], ids)
        PROVE  known2[p[i].client] # None \/ \E j \in DOMAIN p : j < i /\ Says(p[j], "add", p[i].client)
    <3>1. Mentions(p, p[i].client)
      BY DEF Mentions
    <3>2. CASE known[p[i].client] # None
      BY <3>1, <3>2 DEF p, m
    <3>3. CASE known[p[i].client] = None
      <4>1. PICK j \in DOMAIN q : j < i + 1 /\ Says(q[j], "add", p[i].client)
        BY <1>1, <2>2, <3>3 DEF AddedFirst
      <4>2. CASE j = 1
        BY <1>1, <3>1, <4>1, <4>2 DEF p, m
      <4>3. CASE j # 1
        <5>0. j \in Nat /\ i \in Nat /\ j - 1 \in DOMAIN p /\ p[j - 1] = q[j]
          BY <1>1, <4>3
        <5>1. j - 1 \in DOMAIN p /\ p[j - 1] = q[j] /\ j - 1 < i
          BY <4>1, <5>0
        <5> QED  BY <4>1, <5>1
      <4> QED  BY <4>2, <4>3
    <3> QED  BY <3>2, <3>3
  <2> QED  BY <2>1, <2>2 DEF AddedFirst
<1>4. StoppedLast(p, stopped) /\ \A id \in stopped : Starts(m, id) => Stopping(p, id)
  <2>1. ASSUME NEW i \in DOMAIN q, NEW id \in stopped, Starts(q[i], id)
        PROVE  \E j \in DOMAIN p : i < j + 1 /\ Stops(p[j], id)
    <3>1. PICK j \in DOMAIN q : i < j /\ Stops(q[j], id)
      BY <2>1 DEF StoppedLast
    <3>2. j - 1 \in DOMAIN p /\ p[j - 1] = q[j] /\ i < (j - 1) + 1
      BY <1>1, <3>1
    <3> QED  BY <3>1, <3>2
  <2>2. StoppedLast(p, stopped)
    <3> SUFFICES ASSUME NEW i \in DOMAIN p, NEW id \in stopped, Starts(p[i], id)
                 PROVE  \E j \in DOMAIN p : i < j /\ Stops(p[j], id)
      BY DEF StoppedLast
    <3>1. PICK j \in DOMAIN p : i + 1 < j + 1 /\ Stops(p[j], id)
      BY <1>1, <2>1
    <3> QED  BY <1>1, <3>1
  <2>3. \A id \in stopped : Starts(m, id) => Stopping(p, id)
    BY <1>1, <2>1 DEF Stopping
  <2> QED  BY <2>2, <2>3
<1>5. /\ Single(p)
      /\ m.op = "capabilities" => ~Saying(p, "capabilities", m.client)
      /\ \A id : Starts(m, id) => ~Starting(p, id)
  <2>1. \A i, j \in DOMAIN p : i + 1 = j + 1 => i = j
    BY <1>1
  <2>2. Single(p)
    <3> SUFFICES ASSUME NEW i \in DOMAIN p, NEW j \in DOMAIN p
                 PROVE  /\ p[i].op = "capabilities" /\ Says(p[j], "capabilities", p[i].client) => i = j
                        /\ p[i].op \in {"start", "startBatching"} /\ Starts(p[j], p[i].id) => i = j
      BY DEF Single
    <3>1. p[i] = q[i + 1] /\ p[j] = q[j + 1] /\ i + 1 \in DOMAIN q /\ j + 1 \in DOMAIN q
      BY <1>1
    <3>2. /\ p[i].op = "capabilities" /\ Says(p[j], "capabilities", p[i].client) => i + 1 = j + 1
          /\ p[i].op \in {"start", "startBatching"} /\ Starts(p[j], p[i].id) => i + 1 = j + 1
      BY <3>1 DEF Single
    <3> QED  BY <3>2, <2>1
  <2>3. m.op = "capabilities" => ~Saying(p, "capabilities", m.client)
    BY <1>1 DEF Single, Saying
  <2>4. \A id : Starts(m, id) => ~Starting(p, id)
    BY <1>1 DEF Single, Starting, Starts
  <2> QED  BY <2>2, <2>3, <2>4
<1>6. OwnersOnly(p, of) /\ (m.op \in SessionOps => m.client = of[m.id])
  BY <1>1 DEF OwnersOnly
<1> QED
  BY <1>2, <1>3, <1>4, <1>5, <1>6 DEF p, m

\* A message to some of the adapters.
Sent(q, K, m) == [k \in Registry!Adapters |-> IF k \in K THEN Append(q[k], m) ELSE q[k]]

LEMMA SentSays ==
  ASSUME NEW q \in [Registry!Adapters -> Seq(RegMsg)], NEW K \in SUBSET Registry!Adapters, NEW m \in RegMsg
  PROVE  /\ Sent(q, K, m) \in [Registry!Adapters -> Seq(RegMsg)]
         /\ \A k \in Registry!Adapters :
              /\ \A c : /\ Mentions(Sent(q, K, m)[k], c) <=> Mentions(q[k], c) \/ (k \in K /\ m.client = c)
                        /\ \A op : Saying(Sent(q, K, m)[k], op, c) <=> Saying(q[k], op, c) \/ (k \in K /\ Says(m, op, c))
              /\ \A id : /\ Starting(Sent(q, K, m)[k], id) <=> Starting(q[k], id) \/ (k \in K /\ Starts(m, id))
                         /\ Stopping(Sent(q, K, m)[k], id) <=> Stopping(q[k], id) \/ (k \in K /\ Stops(m, id))
<1>1. \A k \in Registry!Adapters : Sent(q, K, m)[k] = IF k \in K THEN Append(q[k], m) ELSE q[k]
  BY DEF Sent
<1>2. \A k \in Registry!Adapters : q[k] \in Seq(RegMsg)
  OBVIOUS
<1>3. Sent(q, K, m) \in [Registry!Adapters -> Seq(RegMsg)]
  BY <1>2, QueueGrows DEF Sent
<1> SUFFICES ASSUME NEW k \in Registry!Adapters
    PROVE  /\ \A c : /\ Mentions(Sent(q, K, m)[k], c) <=> Mentions(q[k], c) \/ (k \in K /\ m.client = c)
                     /\ \A op : Saying(Sent(q, K, m)[k], op, c) <=> Saying(q[k], op, c) \/ (k \in K /\ Says(m, op, c))
           /\ \A id : /\ Starting(Sent(q, K, m)[k], id) <=> Starting(q[k], id) \/ (k \in K /\ Starts(m, id))
                      /\ Stopping(Sent(q, K, m)[k], id) <=> Stopping(q[k], id) \/ (k \in K /\ Stops(m, id))
  BY <1>3
<1>4. CASE k \in K
  <2>1. Sent(q, K, m)[k] = Append(q[k], m)
    BY <1>1, <1>4
  <2> DEFINE r == q[k]
             p == Append(r, m)
  <2>2. r \in Seq(RegMsg)
    BY <1>2
  <2>3. /\ \A c : /\ Mentions(p, c) <=> Mentions(r, c) \/ m.client = c
                  /\ \A op : Saying(p, op, c) <=> Saying(r, op, c) \/ Says(m, op, c)
        /\ \A id : /\ Starting(p, id) <=> Starting(r, id) \/ Starts(m, id)
                   /\ Stopping(p, id) <=> Stopping(r, id) \/ Stops(m, id)
    BY <2>2, QueueGrows
  <2>4. Sent(q, K, m)[k] = p /\ q[k] = r
    BY <2>1
  <2> HIDE DEF p, r
  <2> QED  BY <1>4, <2>3, <2>4
<1>5. CASE k \notin K
  BY <1>1, <1>5
<1> QED
  BY <1>4, <1>5

LEMMA Posts ==
  ASSUME adapterQueues \in [Registry!Adapters -> Seq(RegMsg)], NEW K \in SUBSET Registry!Adapters, NEW m \in RegMsg,
         Registry!post(Registry!only(K, m))
  PROVE  adapterQueues' = Sent(adapterQueues, K, m)
<1>1. adapterQueues' = [k \in Registry!Adapters |-> adapterQueues[k] \o (IF k \in K THEN <<m>> ELSE <<>>)]
  BY DEF Registry!post, Registry!only
<1>2. \A k \in Registry!Adapters : adapterQueues[k] \o (IF k \in K THEN <<m>> ELSE <<>>)
        = IF k \in K THEN Append(adapterQueues[k], m) ELSE adapterQueues[k]
  <2> SUFFICES ASSUME NEW k \in Registry!Adapters
               PROVE  /\ adapterQueues[k] \o <<m>> = Append(adapterQueues[k], m)
                      /\ adapterQueues[k] \o <<>> = adapterQueues[k]
    OBVIOUS
  <2>1. adapterQueues[k] \in Seq(RegMsg)
    OBVIOUS
  <2> QED  BY <2>1
<1> QED
  BY <1>1, <1>2 DEF Sent

LEMMA PostSays ==
  ASSUME adapterQueues \in [Registry!Adapters -> Seq(RegMsg)], NEW K \in SUBSET Registry!Adapters, NEW m \in RegMsg,
         Registry!post(Registry!only(K, m))
  PROVE  /\ adapterQueues' = Sent(adapterQueues, K, m) /\ adapterQueues' \in [Registry!Adapters -> Seq(RegMsg)]
         /\ \A k \in Registry!Adapters :
              /\ \A c : /\ Mentions(adapterQueues'[k], c) <=> Mentions(adapterQueues[k], c) \/ (k \in K /\ m.client = c)
                        /\ Saying(adapterQueues'[k], "add", c) <=>
                             Saying(adapterQueues[k], "add", c) \/ (k \in K /\ m.op = "add" /\ m.client = c)
                        /\ Saying(adapterQueues'[k], "remove", c) <=>
                             Saying(adapterQueues[k], "remove", c) \/ (k \in K /\ m.op = "remove" /\ m.client = c)
                        /\ Saying(adapterQueues'[k], "capabilities", c) <=>
                             Saying(adapterQueues[k], "capabilities", c)
                               \/ (k \in K /\ m.op = "capabilities" /\ m.client = c)
              /\ \A id : /\ Starting(adapterQueues'[k], id) <=> Starting(adapterQueues[k], id)
                                \/ (k \in K /\ m.op \in {"start", "startBatching"} /\ m.id = id)
                         /\ Stopping(adapterQueues'[k], id) <=> Stopping(adapterQueues[k], id)
                                \/ (k \in K /\ m.op \in {"stop", "stopBatching"} /\ m.id = id)
<1>1. adapterQueues' = Sent(adapterQueues, K, m)
  BY Posts
<1> DEFINE q == adapterQueues
           s == Sent(q, K, m)
<1>2. /\ s \in [Registry!Adapters -> Seq(RegMsg)]
      /\ \A k \in Registry!Adapters :
           /\ \A x : /\ Mentions(s[k], x) <=> Mentions(q[k], x) \/ (k \in K /\ m.client = x)
                     /\ Saying(s[k], "add", x) <=> Saying(q[k], "add", x) \/ (k \in K /\ Says(m, "add", x))
                     /\ Saying(s[k], "remove", x) <=> Saying(q[k], "remove", x) \/ (k \in K /\ Says(m, "remove", x))
                     /\ Saying(s[k], "capabilities", x) <=>
                          Saying(q[k], "capabilities", x) \/ (k \in K /\ Says(m, "capabilities", x))
           /\ \A id : /\ Starting(s[k], id) <=> Starting(q[k], id) \/ (k \in K /\ Starts(m, id))
                      /\ Stopping(s[k], id) <=> Stopping(q[k], id) \/ (k \in K /\ Stops(m, id))
  BY SentSays
<1> HIDE DEF s
<1> QED
  BY <1>1, <1>2 DEF Says, Starts, Stops, s

\* The ghosts of sessions and clients.
LEMMA BegunParts ==
  ASSUME begun \in BegunTypes
  PROVE  /\ begun = [used |-> begun.used, of |-> begun.of, updates |-> begun.updates, stopped |-> begun.stopped,
                     batching |-> begun.batching, owed |-> begun.owed]
         /\ begun.used \in [LocationApis -> BOOLEAN] /\ begun.of \in [Registry!Ids -> LocationApis \cup {None}]
         /\ begun.updates \in Nat /\ begun.stopped \in [Registry!Ids -> BOOLEAN]
         /\ begun.batching \in [Registry!Ids -> BOOLEAN] /\ begun.owed \in [Registry!Ids -> BOOLEAN]
  BY DEF BegunTypes

LEMMA BegunMade ==
  ASSUME NEW u \in [LocationApis -> BOOLEAN], NEW x \in [Registry!Ids -> LocationApis \cup {None}], NEW v \in Nat,
         NEW w \in [Registry!Ids -> BOOLEAN], NEW y \in [Registry!Ids -> BOOLEAN], NEW z \in [Registry!Ids -> BOOLEAN]
  PROVE  [used |-> u, of |-> x, updates |-> v, stopped |-> w, batching |-> y, owed |-> z] \in BegunTypes
  BY DEF BegunTypes

LEMMA BegunStopped ==
  ASSUME begun \in BegunTypes, NEW i \in Registry!Ids, NEW n, n = [begun EXCEPT !["stopped"][i] = TRUE]
  PROVE  /\ n \in BegunTypes /\ n.used = begun.used /\ n.updates = begun.updates /\ n.of = begun.of
         /\ n.batching = begun.batching /\ n.owed = begun.owed /\ n.stopped = [begun.stopped EXCEPT ![i] = TRUE]
  BY BegunParts DEF BegunTypes

LEMMA BegunUsed ==
  ASSUME begun \in BegunTypes, NEW c \in LocationApis, NEW n, n = [begun EXCEPT !["used"][c] = TRUE]
  PROVE  /\ n \in BegunTypes /\ n.stopped = begun.stopped /\ n.updates = begun.updates /\ n.of = begun.of
         /\ n.batching = begun.batching /\ n.owed = begun.owed /\ n.used = [begun.used EXCEPT ![c] = TRUE]
  BY BegunParts DEF BegunTypes

LEMMA BegunUpdated ==
  ASSUME begun \in BegunTypes, NEW n, n = [begun EXCEPT !["updates"] = @ + 1]
  PROVE  /\ n \in BegunTypes /\ n.stopped = begun.stopped /\ n.used = begun.used /\ n.of = begun.of
         /\ n.batching = begun.batching /\ n.owed = begun.owed /\ n.updates = begun.updates + 1
  BY BegunParts DEF BegunTypes

\* A session is asked for.
AskedBy(c, i, b, o) == [begun EXCEPT !["of"][i] = c, !["batching"][i] = b, !["owed"][i] = o]
LEMMA BegunAsked ==
  ASSUME begun \in BegunTypes, NEW i \in Registry!Ids, NEW c \in LocationApis, NEW b \in BOOLEAN, NEW o \in BOOLEAN,
         NEW n, n = AskedBy(c, i, b, o)
  PROVE  /\ n \in BegunTypes /\ n.used = begun.used /\ n.updates = begun.updates /\ n.stopped = begun.stopped
         /\ n.of = [begun.of EXCEPT ![i] = c] /\ n.batching = [begun.batching EXCEPT ![i] = b]
         /\ n.owed = [begun.owed EXCEPT ![i] = o]
<1> DEFINE x == begun.of
           y == begun.batching
           z == begun.owed
           u == begun.used
           v == begun.updates
           w == begun.stopped
<1>1. /\ begun = [used |-> u, of |-> x, updates |-> v, stopped |-> w, batching |-> y, owed |-> z]
      /\ u \in [LocationApis -> BOOLEAN] /\ x \in [Registry!Ids -> LocationApis \cup {None}]
      /\ v \in Nat /\ w \in [Registry!Ids -> BOOLEAN]
      /\ y \in [Registry!Ids -> BOOLEAN] /\ z \in [Registry!Ids -> BOOLEAN]
  BY BegunParts
<1> HIDE DEF x, y, z, u, v, w
<1>2. /\ n.of = [x EXCEPT ![i] = c] /\ n.batching = [y EXCEPT ![i] = b] /\ n.owed = [z EXCEPT ![i] = o]
      /\ n.used = u /\ n.updates = v /\ n.stopped = w
  BY <1>1 DEF AskedBy
<1>3. n = [f \in {"used", "of", "updates", "stopped", "batching", "owed"} |-> n[f]]
  BY <1>1 DEF AskedBy
<1>4. n = [used |-> u, of |-> n.of, updates |-> v, stopped |-> w, batching |-> n.batching, owed |-> n.owed]
  BY <1>2, <1>3
<1>5. n.of \in [Registry!Ids -> LocationApis \cup {None}] /\ n.batching \in [Registry!Ids -> BOOLEAN]
      /\ n.owed \in [Registry!Ids -> BOOLEAN]
  BY <1>1, <1>2
<1>6. n \in BegunTypes
  <2> DEFINE d == n.of
             e == n.batching
             f == n.owed
  <2>1. /\ n = [used |-> u, of |-> d, updates |-> v, stopped |-> w, batching |-> e, owed |-> f]
        /\ d \in [Registry!Ids -> LocationApis \cup {None}] /\ e \in [Registry!Ids -> BOOLEAN]
        /\ f \in [Registry!Ids -> BOOLEAN]
    BY <1>4, <1>5
  <2> HIDE DEF d, e, f
  <2>2. [used |-> u, of |-> d, updates |-> v, stopped |-> w, batching |-> e, owed |-> f] \in BegunTypes
    <3>1. d \in [Registry!Ids -> LocationApis \cup {None}] /\ e \in [Registry!Ids -> BOOLEAN]
          /\ f \in [Registry!Ids -> BOOLEAN]
      BY <2>1
    <3> QED  BY ONLY <1>1, <3>1, BegunMade
  <2>3. n = [used |-> u, of |-> d, updates |-> v, stopped |-> w, batching |-> e, owed |-> f]
    BY <2>1
  <2> HIDE DEF BegunTypes
  <2> QED  BY ONLY <2>2, <2>3
<1> QED
  BY <1>2, <1>6 DEF x, y, z, u, v, w

\* Interfaces are loaded once.
LEMMA LoadsOnce ==
  ASSUME RegTypes, NEW cbs
  PROVE  /\ Registry!load(cbs) \in [Registry!Adapters -> {"null", "loaded", "failed"}]
         /\ \A k \in Registry!Adapters : interface[k] # "null" => Registry!load(cbs)[k] = interface[k]
         /\ \A k \in Registry!needs(cbs) : Registry!load(cbs)[k] # "null"
         /\ Registry!needs(cbs) \subseteq Registry!Adapters
<1>1. interface \in [Registry!Adapters -> {"null", "loaded", "failed"}]
  BY DEF RegTypes
<1>2. Registry!needs(cbs) \subseteq Registry!Adapters
  BY DEF Registry!needs
<1> DEFINE N == Registry!needs(cbs)
<1>3. Registry!load(cbs) = [k \in Registry!Adapters |-> IF k \in N /\ interface[k] = "null"
                              THEN IF k \in installed THEN "loaded" ELSE "failed" ELSE interface[k]]
  BY DEF Registry!load
<1> HIDE DEF N
<1>4. /\ Registry!load(cbs) \in [Registry!Adapters -> {"null", "loaded", "failed"}]
      /\ \A k \in Registry!Adapters : interface[k] # "null" => Registry!load(cbs)[k] = interface[k]
      /\ \A k \in Registry!Adapters : k \in N => Registry!load(cbs)[k] # "null"
  BY <1>1, <1>3
<1> QED
  BY <1>2, <1>4 DEF N

LEMMA LoadedIs ==
  ASSUME NEW state, NEW cbs, NEW k PROVE k \in Registry!Loaded(state, cbs) <=> k \in Registry!needs(cbs) /\ state[k] = "loaded"
  BY DEF Registry!Loaded

LEMMA RegStarts == Registry!Init => RegInv
<1> SUFFICES ASSUME Registry!Init PROVE RegInv
  OBVIOUS
<1>1. /\ interface = [k \in Registry!Adapters |-> "null"] /\ clientData = [c \in LocationApis |-> None]
      /\ adapterQueues = [k \in Registry!Adapters |-> <<>>]
      /\ registered = [k \in Registry!Adapters |-> [c \in LocationApis |-> None]]
      /\ sessions = {} /\ lastId = 0
      /\ begun = [used |-> [c \in LocationApis |-> FALSE], of |-> [i \in Registry!Ids |-> None],
                  updates |-> 0, stopped |-> [i \in Registry!Ids |-> FALSE],
                  batching |-> [i \in Registry!Ids |-> FALSE], owed |-> [i \in Registry!Ids |-> FALSE]]
      /\ answers = [i \in Registry!Ids |-> 0] /\ caps = [c \in LocationApis |-> 0] /\ shrunk = {}
  BY DEF Registry!Init
<1>2. /\ \A k \in Registry!Adapters : adapterQueues[k] = <<>> /\ DOMAIN adapterQueues[k] = {}
      /\ \A k \in Registry!Adapters : \A c \in LocationApis : registered[k][c] = None
      /\ \A c \in LocationApis : clientData[c] = None
      /\ \A id \in Registry!Ids : begun["of"][id] = None
      /\ OwedIds = {} /\ StoppedIds = {}
  BY <1>1 DEF OwedIds, StoppedIds
<1>3. \A k \in Registry!Adapters : \A c : /\ ~Mentions(adapterQueues[k], c)
                                          /\ \A op : ~Saying(adapterQueues[k], op, c)
                                          /\ ~Starting(adapterQueues[k], c) /\ ~Stopping(adapterQueues[k], c)
  BY <1>2 DEF Mentions, Saying, Starting, Stopping
<1>4. RegTypes
  <2>1. adapterQueues \in [Registry!Adapters -> Seq(RegMsg)]
    BY <1>1
  <2>2. lastId \in 0..MaxId
    BY <1>1, RegAssumptions
  <2>3. begun \in BegunTypes
    BY <1>1 DEF BegunTypes
  <2>4. interface \in [Registry!Adapters -> {"null", "loaded", "failed"}] /\ clientData \in [LocationApis -> ApiCallbacks \cup {None}]
    BY <1>1
  <2>5. registered \in [Registry!Adapters -> [LocationApis -> ApiCallbacks \cup {None}]]
    BY <1>1
  <2>6. answers \in [Registry!Ids -> Nat] /\ caps \in [LocationApis -> Nat]
    BY <1>1
  <2> QED  BY <1>1, <2>1, <2>2, <2>3, <2>4, <2>5, <2>6 DEF RegTypes
<1>5. NotYet /\ Membership /\ Departure
  BY <1>1, <1>2, <1>3 DEF NotYet, Membership, Departure, Alive, Member
<1>6. CapsOnce /\ CapsCome
  <2>1. \A c \in LocationApis : caps[c] = 0 /\ ~Alive(c)
    BY <1>1, <1>2 DEF Alive
  <2> QED  BY <1>3, <2>1 DEF CapsOnce, CapsCome, Asking
<1>7. \A k \in Registry!Adapters : InOrder(adapterQueues[k], registered[k])
  BY <1>2 DEF InOrder, RemovedLast, AddedFirst, StoppedLast, Single, OwnersOnly
<1>8. IdsGiven
  BY <1>1, <1>2, <1>3 DEF IdsGiven
<1>9. StopsArrive /\ StartedOnce
  BY <1>1, <1>2, <1>3 DEF StopsArrive, StartedOnce, Running
<1>10. AnswersCounted
  BY <1>1, <1>2, <1>3 DEF AnswersCounted, Running
<1> QED
  BY <1>4, <1>5, <1>6, <1>7, <1>8, <1>9, <1>10 DEF RegInv

\* What the order of a queue asks of a message that is sent to the adapters in K, if nothing else changes.
LEMMA OrderKept ==
  ASSUME RegTypes, \A k \in Registry!Adapters : InOrder(adapterQueues[k], registered[k]),
         NEW K \in SUBSET Registry!Adapters, NEW m \in RegMsg,
         adapterQueues' = Sent(adapterQueues, K, m), registered' = registered, OwedIds' = OwedIds, StoppedIds' = StoppedIds,
         begun'["of"] = begun["of"],
         m.op \in {"add", "remove"},
         \A k \in K : ~Saying(adapterQueues[k], "remove", m.client)
  PROVE  \A k \in Registry!Adapters : InOrder(adapterQueues[k], registered[k])'
<1> SUFFICES ASSUME NEW k \in Registry!Adapters
    PROVE  /\ RemovedLast(adapterQueues'[k]) /\ AddedFirst(adapterQueues'[k], registered'[k], OwedIds')
           /\ StoppedLast(adapterQueues'[k], StoppedIds') /\ Single(adapterQueues'[k])
           /\ OwnersOnly(adapterQueues'[k], begun'["of"])
  BY DEF InOrder
<1> DEFINE q == adapterQueues[k]
           of == begun["of"]
           known == registered[k]
<1>1. q \in Seq(RegMsg)
  BY DEF RegTypes
<1>2. adapterQueues'[k] = IF k \in K THEN Append(q, m) ELSE q
  BY DEF Sent
<1>3. /\ RemovedLast(q) /\ AddedFirst(q, known, OwedIds) /\ StoppedLast(q, StoppedIds) /\ Single(q) /\ OwnersOnly(q, of)
      /\ registered'[k] = known /\ begun'["of"] = of
  BY DEF InOrder
<1>4. k \in K => ~Saying(q, "remove", m.client)
  OBVIOUS
<1> HIDE DEF q, of, known
<1>5. CASE k \in K
  <2>1. /\ m.op # "capabilities" /\ m.op \notin SessionOps /\ ~Owes(m, OwedIds) /\ \A id \in StoppedIds : ~Starts(m, id)
        /\ m.op \notin {"start", "startBatching"}
    BY DEF SessionOps, Owes, Starts
  <2>2. /\ RemovedLast(Append(q, m)) /\ AddedFirst(Append(q, m), known, OwedIds) /\ StoppedLast(Append(q, m), StoppedIds)
        /\ Single(Append(q, m)) /\ OwnersOnly(Append(q, m), of)
    BY <1>1, <1>3, <1>4, <1>5, <2>1, OrderGrows
  <2> QED  BY <1>2, <1>3, <1>5, <2>2
<1>6. CASE k \notin K
  BY <1>2, <1>3, <1>6
<1> QED
  BY <1>5, <1>6

(***************************************************************************)
(* The actions.                                                            *)
(***************************************************************************)
LEMMA UpdateKeeps ==
  ASSUME RegInv, NEW c \in LocationApis, NEW cbs \in ApiCallbacks, Registry!updateCallbacks(c, cbs)
  PROVE  RegInv'
<1> DEFINE m == [op |-> "add", client |-> c, id |-> 0, cbs |-> cbs]
           K == Registry!Loaded(interface', cbs)
           q == adapterQueues
           p == adapterQueues'
<1>1. /\ RegTypes /\ NotYet /\ Membership /\ Departure /\ CapsOnce /\ CapsCome
      /\ \A k \in Registry!Adapters : InOrder(adapterQueues[k], registered[k])
      /\ IdsGiven /\ StopsArrive /\ StartedOnce /\ AnswersCounted
  BY DEF RegInv
<1>2. /\ clientData[c] # None /\ interface' = Registry!load(cbs)
      /\ Registry!post(Registry!only(K, m))
      /\ clientData' = [clientData EXCEPT ![c] = cbs]
      /\ shrunk' = IF Registry!needs(clientData[c]) \subseteq Registry!needs(cbs) THEN shrunk ELSE shrunk \cup {c}
      /\ begun' = [begun EXCEPT !["updates"] = @ + 1]
      /\ UNCHANGED <<installed, registered, sessions, lastId, answers, caps>>
  BY DEF Registry!updateCallbacks, Registry!msg
<1>3. m \in RegMsg /\ m.op = "add" /\ m.client = c
  BY DEF RegMsg
<1>4. /\ K \subseteq Registry!Adapters
      /\ interface' \in [Registry!Adapters -> {"null", "loaded", "failed"}]
      /\ \A k \in Registry!Adapters : interface[k] # "null" => interface'[k] = interface[k]
      /\ \A k \in Registry!needs(cbs) : interface'[k] # "null"
      /\ \A k : k \in K <=> k \in Registry!needs(cbs) /\ interface'[k] = "loaded"
  BY <1>1, <1>2, LoadsOnce, LoadedIs
<1> HIDE DEF K, m
<1>5. /\ p = Sent(q, K, m) /\ p \in [Registry!Adapters -> Seq(RegMsg)]
      /\ \A k \in Registry!Adapters :
           /\ \A x : /\ Mentions(p[k], x) <=> Mentions(q[k], x) \/ (k \in K /\ x = c)
                     /\ Saying(p[k], "add", x) <=> Saying(q[k], "add", x) \/ (k \in K /\ x = c)
                     /\ Saying(p[k], "remove", x) <=> Saying(q[k], "remove", x)
                     /\ Saying(p[k], "capabilities", x) <=> Saying(q[k], "capabilities", x)
           /\ \A id : /\ Starting(p[k], id) <=> Starting(q[k], id)
                      /\ Stopping(p[k], id) <=> Stopping(q[k], id)
  <2>1. q \in [Registry!Adapters -> Seq(RegMsg)]
    BY <1>1 DEF RegTypes
  <2>2. m.op \notin {"start", "startBatching", "stop", "stopBatching"}
    BY <1>3
  <2>3. /\ p = Sent(q, K, m) /\ p \in [Registry!Adapters -> Seq(RegMsg)]
        /\ \A k \in Registry!Adapters :
             /\ \A x : /\ Mentions(p[k], x) <=> Mentions(q[k], x) \/ (k \in K /\ m.client = x)
                       /\ Saying(p[k], "add", x) <=> Saying(q[k], "add", x) \/ (k \in K /\ m.op = "add" /\ m.client = x)
                       /\ Saying(p[k], "remove", x) <=>
                            Saying(q[k], "remove", x) \/ (k \in K /\ m.op = "remove" /\ m.client = x)
                       /\ Saying(p[k], "capabilities", x) <=>
                            Saying(q[k], "capabilities", x) \/ (k \in K /\ m.op = "capabilities" /\ m.client = x)
             /\ \A id : /\ Starting(p[k], id) <=> Starting(q[k], id)
                               \/ (k \in K /\ m.op \in {"start", "startBatching"} /\ m.id = id)
                        /\ Stopping(p[k], id) <=> Stopping(q[k], id)
                               \/ (k \in K /\ m.op \in {"stop", "stopBatching"} /\ m.id = id)
    BY <1>2, <1>3, <1>4, <2>1, PostSays
  <2> HIDE DEF p, q
  <2> QED  BY <1>3, <2>2, <2>3
<1>6. /\ begun' \in BegunTypes /\ begun'["used"] = begun["used"] /\ begun'["of"] = begun["of"]
      /\ begun'["batching"] = begun["batching"] /\ begun'["updates"] # 0
      /\ OwedIds' = OwedIds /\ StoppedIds' = StoppedIds
  <2>1. begun \in BegunTypes /\ begun.updates \in Nat
    BY <1>1 DEF RegTypes, BegunTypes
  <2>2. /\ begun' \in BegunTypes /\ begun'.stopped = begun.stopped /\ begun'.used = begun.used /\ begun'.of = begun.of
        /\ begun'.batching = begun.batching /\ begun'.owed = begun.owed /\ begun'.updates = begun.updates + 1
    BY <1>2, <2>1, BegunUpdated
  <2> QED  BY <2>1, <2>2 DEF OwedIds, StoppedIds
<1>7. /\ \A x \in LocationApis : x # c => clientData'[x] = clientData[x]
      /\ clientData'[c] = cbs /\ cbs # None /\ clientData' \in [LocationApis -> ApiCallbacks \cup {None}]
      /\ begun["used"][c] /\ \A k \in Registry!Adapters : ~Saying(q[k], "remove", c)
  BY <1>1, <1>2, RegAssumptions DEF RegTypes, NotYet, Alive
<1>8. RegTypes'
  BY <1>1, <1>2, <1>4, <1>5, <1>6, <1>7 DEF RegTypes
<1>9. NotYet'
  <2> SUFFICES ASSUME NEW x \in LocationApis
      PROVE  /\ ~begun["used"][x] => ~Alive(x)' /\ caps'[x] = 0
             /\ \A k \in Registry!Adapters :
                  /\ ~begun["used"][x] => registered'[k][x] = None /\ ~Mentions(p[k], x)
                  /\ Saying(p[k], "remove", x) => ~Alive(x)'
    BY <1>6 DEF NotYet
  <2>1. CASE x = c
    <3>1. \A k \in Registry!Adapters : ~Saying(p[k], "remove", c)
      BY <1>5, <1>7
    <3> QED  BY <1>7, <2>1, <3>1
  <2>2. CASE x # c
    <3>1. Alive(x)' <=> Alive(x)
      BY <1>7, <2>2 DEF Alive
    <3> QED  BY <1>1, <1>2, <1>5, <2>2, <3>1 DEF NotYet
  <2> QED  BY <2>1, <2>2
<1>10. \A k \in Registry!Adapters, x \in LocationApis : Member(k, x)' <=> Member(k, x) \/ (k \in K /\ x = c)
  BY <1>2, <1>5 DEF Member
<1>11. Membership'
  <2> SUFFICES ASSUME NEW x \in LocationApis, NEW k \in Registry!Adapters, Alive(x)'
      PROVE  /\ k \in Registry!needs(clientData'[x]) => interface'[k] # "null"
             /\ k \in Registry!needs(clientData'[x]) /\ interface'[k] = "loaded" => Member(k, x)'
             /\ x \notin shrunk' /\ Member(k, x)' => k \in Registry!needs(clientData'[x]) /\ interface'[k] = "loaded"
    BY LoadedIs DEF Membership
  <2>1. CASE x = c
    <3>1. x \notin shrunk' /\ Member(k, c) => k \in Registry!needs(cbs) /\ interface'[k] = "loaded"
      BY <1>1, <1>2, <1>4, <2>1, LoadedIs DEF Membership, Alive
    <3> QED  BY <1>4, <1>7, <1>10, <2>1, <3>1
  <2>2. CASE x # c
    <3>1. Alive(x) /\ clientData'[x] = clientData[x] /\ (Member(k, x)' <=> Member(k, x)) /\ (x \notin shrunk' => x \notin shrunk)
      BY <1>2, <1>7, <1>10, <2>2 DEF Alive
    <3> QED  BY <1>1, <1>4, <3>1, LoadedIs DEF Membership
  <2> QED  BY <2>1, <2>2
<1>12. Departure'
  BY <1>1, <1>2, <1>5, <1>7, <1>10 DEF Departure, Alive
<1>13. CapsOnce' /\ CapsCome'
  <2>1. \A k \in Registry!Adapters, x \in LocationApis : Asking(k, x)' <=> Asking(k, x)
    BY <1>5 DEF Asking
  <2> QED  BY <1>1, <1>2, <1>6, <2>1 DEF CapsOnce, CapsCome
<1>14. \A k \in Registry!Adapters : InOrder(adapterQueues[k], registered[k])'
  BY <1>1, <1>2, <1>3, <1>4, <1>5, <1>6, <1>7, OrderKept
<1>15. IdsGiven'
  BY <1>1, <1>2, <1>5, <1>6 DEF IdsGiven
<1>16. \A k, id : Running(k, id)' <=> Running(k, id)
  BY <1>2 DEF Running
<1>17. StopsArrive'
  BY <1>1, <1>2, <1>4, <1>5, <1>6, <1>16 DEF StopsArrive, Routed
<1>18. StartedOnce' /\ AnswersCounted'
  BY <1>1, <1>2, <1>5, <1>6, <1>16 DEF StartedOnce, AnswersCounted
<1> QED
  BY <1>8, <1>9, <1>11, <1>12, <1>13, <1>14, <1>15, <1>17, <1>18 DEF RegInv

LEMMA DestroyKeeps == ASSUME RegInv, NEW c \in LocationApis, Registry!destroy(c) PROVE RegInv'
<1> DEFINE m == [op |-> "remove", client |-> c, id |-> 0, cbs |-> {}]
           K == Registry!Loaded(interface, clientData[c])
           q == adapterQueues
           p == adapterQueues'
<1>1. /\ RegTypes /\ NotYet /\ Membership /\ Departure /\ CapsOnce /\ CapsCome
      /\ \A k \in Registry!Adapters : InOrder(adapterQueues[k], registered[k])
      /\ IdsGiven /\ StopsArrive /\ StartedOnce /\ AnswersCounted
  BY DEF RegInv
<1>2. /\ clientData[c] # None
      /\ Registry!post(Registry!only(K, m))
      /\ clientData' = [clientData EXCEPT ![c] = None]
      /\ UNCHANGED <<interface, installed, registered, sessions, lastId, begun, answers, caps, shrunk>>
  BY DEF Registry!destroy, Registry!msg, Registry!removedFrom
<1>3. m \in RegMsg /\ m.op = "remove" /\ m.client = c
  BY DEF RegMsg
<1>4. /\ K \subseteq Registry!Adapters
      /\ \A k : k \in K <=> k \in Registry!needs(clientData[c]) /\ interface[k] = "loaded"
  BY LoadedIs DEF Registry!Loaded, Registry!needs
<1> HIDE DEF K, m
<1>5. /\ p = Sent(q, K, m) /\ p \in [Registry!Adapters -> Seq(RegMsg)]
      /\ \A k \in Registry!Adapters :
           /\ \A x : /\ Mentions(p[k], x) <=> Mentions(q[k], x) \/ (k \in K /\ x = c)
                     /\ Saying(p[k], "add", x) <=> Saying(q[k], "add", x)
                     /\ Saying(p[k], "remove", x) <=> Saying(q[k], "remove", x) \/ (k \in K /\ x = c)
                     /\ Saying(p[k], "capabilities", x) <=> Saying(q[k], "capabilities", x)
           /\ \A id : /\ Starting(p[k], id) <=> Starting(q[k], id)
                      /\ Stopping(p[k], id) <=> Stopping(q[k], id)
  <2>1. q \in [Registry!Adapters -> Seq(RegMsg)]
    BY <1>1 DEF RegTypes
  <2>2. m.op \notin {"start", "startBatching", "stop", "stopBatching"}
    BY <1>3
  <2>3. /\ p = Sent(q, K, m) /\ p \in [Registry!Adapters -> Seq(RegMsg)]
        /\ \A k \in Registry!Adapters :
             /\ \A x : /\ Mentions(p[k], x) <=> Mentions(q[k], x) \/ (k \in K /\ m.client = x)
                       /\ Saying(p[k], "add", x) <=> Saying(q[k], "add", x) \/ (k \in K /\ m.op = "add" /\ m.client = x)
                       /\ Saying(p[k], "remove", x) <=>
                            Saying(q[k], "remove", x) \/ (k \in K /\ m.op = "remove" /\ m.client = x)
                       /\ Saying(p[k], "capabilities", x) <=>
                            Saying(q[k], "capabilities", x) \/ (k \in K /\ m.op = "capabilities" /\ m.client = x)
             /\ \A id : /\ Starting(p[k], id) <=> Starting(q[k], id)
                               \/ (k \in K /\ m.op \in {"start", "startBatching"} /\ m.id = id)
                        /\ Stopping(p[k], id) <=> Stopping(q[k], id)
                               \/ (k \in K /\ m.op \in {"stop", "stopBatching"} /\ m.id = id)
    BY <1>2, <1>3, <1>4, <2>1, PostSays
  <2> HIDE DEF p, q
  <2> QED  BY <1>3, <2>2, <2>3
<1>6. OwedIds' = OwedIds /\ StoppedIds' = StoppedIds
  BY <1>2 DEF OwedIds, StoppedIds
<1>7. /\ \A x \in LocationApis : x # c => clientData'[x] = clientData[x]
      /\ clientData'[c] = None /\ clientData' \in [LocationApis -> ApiCallbacks \cup {None}]
      /\ begun["used"][c] /\ \A k \in Registry!Adapters : ~Saying(q[k], "remove", c)
  BY <1>1, <1>2 DEF RegTypes, NotYet, Alive
<1>8. RegTypes'
  BY <1>1, <1>2, <1>5, <1>7 DEF RegTypes
<1>9. NotYet'
  BY <1>1, <1>2, <1>5, <1>7 DEF NotYet, Alive
<1>10. \A k \in Registry!Adapters, x \in LocationApis : Member(k, x)' <=> Member(k, x)
  BY <1>2, <1>5 DEF Member
<1>11. Membership'
  <2>1. \A x \in LocationApis : Alive(x)' => Alive(x) /\ clientData'[x] = clientData[x]
    BY <1>7 DEF Alive
  <2> QED  BY <1>1, <1>2, <1>10, <2>1, LoadedIs DEF Membership
<1>12. Departure'
  <2> SUFFICES ASSUME NEW x \in LocationApis, NEW k \in Registry!Adapters, x \notin shrunk, ~Alive(x)', Member(k, x)
               PROVE  Saying(p[k], "remove", x)
    BY <1>2, <1>10 DEF Departure
  <2>1. CASE x = c
    <3>1. k \in Registry!Loaded(interface, clientData[c])
      BY <1>1, <1>2, <2>1 DEF Membership, Alive
    <3>2. k \in K
      BY <3>1 DEF K
    <3> QED  BY <1>5, <2>1, <3>2
  <2>2. CASE x # c
    BY <1>1, <1>5, <1>7, <2>2 DEF Departure, Alive
  <2> QED  BY <2>1, <2>2
<1>13. CapsOnce' /\ CapsCome'
  <2>1. \A k \in Registry!Adapters, x \in LocationApis : Asking(k, x)' <=> Asking(k, x)
    BY <1>5 DEF Asking
  <2>2. \A x \in LocationApis : Alive(x)' => Alive(x)
    BY <1>7 DEF Alive
  <2> QED  BY <1>1, <1>2, <1>10, <2>1, <2>2 DEF CapsOnce, CapsCome
<1>14. \A k \in Registry!Adapters : InOrder(adapterQueues[k], registered[k])'
  BY <1>1, <1>2, <1>3, <1>4, <1>5, <1>6, <1>7, OrderKept
<1>15. IdsGiven'
  BY <1>1, <1>2, <1>5, <1>6 DEF IdsGiven
<1>16. \A k, id : Running(k, id)' <=> Running(k, id)
  BY <1>2 DEF Running
<1>17. StopsArrive'
  BY <1>1, <1>2, <1>5, <1>6, <1>16 DEF StopsArrive, Routed
<1>18. StartedOnce' /\ AnswersCounted'
  BY <1>1, <1>2, <1>5, <1>6, <1>16 DEF StartedOnce, AnswersCounted
<1> QED
  BY <1>8, <1>9, <1>11, <1>12, <1>13, <1>14, <1>15, <1>17, <1>18 DEF RegInv

LEMMA SessionIds ==
  ASSUME NEW q \in Seq(RegMsg), NEW id, Starting(q, id) \/ Stopping(q, id) PROVE id \in Registry!Ids
<1>1. PICK i \in DOMAIN q : Starts(q[i], id) \/ Stops(q[i], id)
  BY DEF Starting, Stopping
<1>2. q[i] \in RegMsg
  OBVIOUS
<1> QED
  BY <1>1, <1>2 DEF RegMsg, Starts, Stops

\* The id is new, so nothing in the model is about it yet.
LEMMA AskKeeps ==
  ASSUME RegInv, NEW c \in LocationApis, clientData[c] # None, NEW k \in {"gnss", "flp"},
         NEW op \in {"start", "startBatching"}, op = "startBatching" => k = "flp", Registry!ask(c, k, op)
  PROVE  RegInv'
<1> DEFINE id == lastId + 1
           m == [op |-> op, client |-> c, id |-> id, cbs |-> {}]
           q == adapterQueues
           p == adapterQueues'
           owes == "trackingCb" \in clientData[c] /\ op = "start"
<1>1. /\ RegTypes /\ NotYet /\ Membership /\ Departure /\ CapsOnce /\ CapsCome
      /\ \A l \in Registry!Adapters : InOrder(adapterQueues[l], registered[l])
      /\ IdsGiven /\ StopsArrive /\ StartedOnce /\ AnswersCounted
  BY DEF RegInv
<1>2. /\ lastId < MaxId /\ interface[k] = "loaded" /\ lastId' = id
      /\ Registry!post(Registry!only({k}, m))
      /\ begun' = [begun EXCEPT !["of"][id] = c, !["batching"][id] = (op = "startBatching"), !["owed"][id] = owes]
      /\ UNCHANGED <<interface, clientData, installed, registered, sessions, answers, caps, shrunk>>
  BY DEF Registry!ask, Registry!msg, Registry!generateSessionId
<1>3. k \in Registry!Adapters /\ lastId \in Nat /\ id \in Nat /\ id \in Registry!Ids /\ id \in 0..MaxId /\ lastId < id
  BY <1>1, <1>2, RegAssumptions DEF RegTypes, Registry!Ids, Registry!Adapters
<1>4. m \in RegMsg /\ m.op = op /\ m.client = c /\ m.id = id
  BY <1>3 DEF RegMsg, SessionOps
<1>5. owes => k \in Registry!needs(clientData[c])
  BY DEF Registry!needs, Registry!Adapters
<1>6. owes \in BOOLEAN /\ (op = "startBatching") \in BOOLEAN
  OBVIOUS
<1> HIDE DEF id, m, owes
<1>7. /\ p = Sent(q, {k}, m) /\ p \in [Registry!Adapters -> Seq(RegMsg)]
      /\ \A l \in Registry!Adapters :
           /\ \A x : /\ Mentions(p[l], x) <=> Mentions(q[l], x) \/ (l = k /\ x = c)
                     /\ Saying(p[l], "add", x) <=> Saying(q[l], "add", x)
                     /\ Saying(p[l], "remove", x) <=> Saying(q[l], "remove", x)
                     /\ Saying(p[l], "capabilities", x) <=> Saying(q[l], "capabilities", x)
           /\ \A x : /\ Starting(p[l], x) <=> Starting(q[l], x) \/ (l = k /\ x = id)
                     /\ Stopping(p[l], x) <=> Stopping(q[l], x)
  <2>1. q \in [Registry!Adapters -> Seq(RegMsg)]
    BY <1>1 DEF RegTypes
  <2>2. m.op \in {"start", "startBatching"} /\ m.op \notin {"add", "remove", "capabilities", "stop", "stopBatching"}
    BY <1>4
  <2>3. /\ p = Sent(q, {k}, m) /\ p \in [Registry!Adapters -> Seq(RegMsg)]
        /\ \A l \in Registry!Adapters :
             /\ \A x : /\ Mentions(p[l], x) <=> Mentions(q[l], x) \/ (l \in {k} /\ m.client = x)
                       /\ Saying(p[l], "add", x) <=> Saying(q[l], "add", x) \/ (l \in {k} /\ m.op = "add" /\ m.client = x)
                       /\ Saying(p[l], "remove", x) <=>
                            Saying(q[l], "remove", x) \/ (l \in {k} /\ m.op = "remove" /\ m.client = x)
                       /\ Saying(p[l], "capabilities", x) <=>
                            Saying(q[l], "capabilities", x) \/ (l \in {k} /\ m.op = "capabilities" /\ m.client = x)
             /\ \A x : /\ Starting(p[l], x) <=> Starting(q[l], x)
                               \/ (l \in {k} /\ m.op \in {"start", "startBatching"} /\ m.id = x)
                       /\ Stopping(p[l], x) <=> Stopping(q[l], x)
                               \/ (l \in {k} /\ m.op \in {"stop", "stopBatching"} /\ m.id = x)
    <3>1. {k} \in SUBSET Registry!Adapters
      BY <1>3
    <3> QED  BY <1>2, <1>4, <2>1, <3>1, PostSays
  <2> HIDE DEF p, q
  <2> QED  BY <1>4, <2>2, <2>3
<1>8. /\ begun' \in BegunTypes /\ begun'["used"] = begun["used"] /\ begun'["updates"] = begun["updates"]
      /\ \A x \in Registry!Ids : x # id => /\ begun'["of"][x] = begun["of"][x]
                                           /\ begun'["batching"][x] = begun["batching"][x]
                                           /\ x \in OwedIds' <=> x \in OwedIds
      /\ begun'["of"][id] = c /\ (begun'["batching"][id] => op = "startBatching") /\ (id \in OwedIds' <=> owes)
      /\ StoppedIds' = StoppedIds /\ StoppedIds \subseteq Registry!Ids /\ OwedIds' \subseteq Registry!Ids
  <2>1. begun \in BegunTypes
    BY <1>1 DEF RegTypes
  <2> DEFINE b == (op = "startBatching")
  <2>2. b \in BOOLEAN /\ begun' = [begun EXCEPT !["of"][id] = c, !["batching"][id] = b, !["owed"][id] = owes]
    BY <1>2
  <2>3. b => op = "startBatching"
    OBVIOUS
  <2> HIDE DEF b
  <2>4. /\ begun' \in BegunTypes /\ begun'.used = begun.used /\ begun'.updates = begun.updates
        /\ begun'.stopped = begun.stopped
        /\ begun'.of = [begun.of EXCEPT ![id] = c] /\ begun'.batching = [begun.batching EXCEPT ![id] = b]
        /\ begun'.owed = [begun.owed EXCEPT ![id] = owes]
    <3>1. begun' = AskedBy(c, id, b, owes)
      BY <2>2 DEF AskedBy
    <3>2. id \in Registry!Ids /\ c \in LocationApis /\ b \in BOOLEAN /\ owes \in BOOLEAN
      BY <1>3, <1>6, <2>2
    <3> QED  BY ONLY <2>1, <3>1, <3>2, BegunAsked
  <2>5. /\ begun.of \in [Registry!Ids -> LocationApis \cup {None}] /\ begun.stopped \in [Registry!Ids -> BOOLEAN]
        /\ begun.batching \in [Registry!Ids -> BOOLEAN] /\ begun.owed \in [Registry!Ids -> BOOLEAN]
    BY <2>1, BegunParts
  <2>6. \A x \in Registry!Ids : x # id => /\ begun'.of[x] = begun.of[x]
                                          /\ begun'.batching[x] = begun.batching[x] /\ begun'.owed[x] = begun.owed[x]
    BY <2>4, <2>5
  <2>7. begun'.of[id] = c /\ begun'.batching[id] = b /\ begun'.owed[id] = owes
    BY <1>3, <2>4, <2>5
  <2> QED  BY <1>3, <2>3, <2>4, <2>6, <2>7 DEF OwedIds, StoppedIds
<1>9. \A l, x : Running(l, x)' <=> Running(l, x)
  BY <1>2 DEF Running
\* The id is new.
<1>10. /\ id \notin StoppedIds /\ answers[id] = 0
       /\ \A l \in Registry!Adapters : ~Starting(q[l], id) /\ ~Stopping(q[l], id) /\ ~Running(l, id)
  <2>1. \A s \in sessions : s.id # id
    BY <1>1, <1>3 DEF IdsGiven, RegTypes
  <2>2. id > lastId /\ ~(id <= lastId)
    BY <1>3
  <2>3. id \notin StoppedIds /\ answers[id] = 0
    BY <1>1, <1>3, <2>2 DEF IdsGiven
  <2>4. \A l \in Registry!Adapters : ~Starting(q[l], id) /\ ~Stopping(q[l], id)
    BY <1>1, <1>3, <2>2 DEF IdsGiven
  <2>5. \A l \in Registry!Adapters : ~Running(l, id)
    BY <2>1 DEF Running
  <2> QED  BY <2>3, <2>4, <2>5
<1>11. Alive(c) /\ begun["used"][c] /\ \A l \in Registry!Adapters : ~Saying(q[l], "remove", c)
  BY <1>1 DEF NotYet, Alive
<1>12. RegTypes'
  BY <1>1, <1>2, <1>3, <1>7, <1>8 DEF RegTypes
<1>13. NotYet'
  <2> SUFFICES ASSUME NEW x \in LocationApis
      PROVE  /\ ~begun["used"][x] => ~Alive(x) /\ caps[x] = 0
             /\ \A l \in Registry!Adapters :
                  /\ ~begun["used"][x] => registered[l][x] = None /\ ~Mentions(p[l], x)
                  /\ Saying(p[l], "remove", x) => ~Alive(x)
    BY <1>2, <1>8 DEF NotYet, Alive
  <2>1. \A l \in Registry!Adapters : Saying(p[l], "remove", x) => ~Alive(x)
    BY <1>1, <1>7 DEF NotYet
  <2>2. ~begun["used"][x] => x # c
    BY <1>11
  <2> QED  BY <1>1, <1>7, <2>1, <2>2 DEF NotYet
<1>14. \A l \in Registry!Adapters, x \in LocationApis : Member(l, x)' <=> Member(l, x)
  BY <1>2, <1>7 DEF Member
<1>15. Membership' /\ Departure'
  BY <1>1, <1>2, <1>7, <1>14 DEF Membership, Departure, Alive
<1>16. CapsOnce' /\ CapsCome'
  <2>1. \A l \in Registry!Adapters, x \in LocationApis : Asking(l, x)' <=> Asking(l, x)
    BY <1>7 DEF Asking
  <2> QED  BY <1>1, <1>2, <1>8, <1>14, <2>1 DEF CapsOnce, CapsCome, Alive
<1>17. \A l \in Registry!Adapters : InOrder(adapterQueues[l], registered[l])'
  <2> SUFFICES ASSUME NEW l \in Registry!Adapters
      PROVE  /\ RemovedLast(p[l]) /\ AddedFirst(p[l], registered[l], OwedIds') /\ StoppedLast(p[l], StoppedIds)
             /\ Single(p[l]) /\ OwnersOnly(p[l], begun'["of"])
    BY <1>2, <1>8 DEF InOrder
  <2> DEFINE r == q[l]
             of == begun["of"]
             of2 == begun'["of"]
             known == registered[l]
  <2>1. r \in Seq(RegMsg) /\ p[l] = IF l = k THEN Append(r, m) ELSE r
    BY <1>1, <1>7 DEF RegTypes, Sent
  <2>2. /\ RemovedLast(r) /\ AddedFirst(r, known, OwedIds) /\ StoppedLast(r, StoppedIds) /\ Single(r) /\ OwnersOnly(r, of)
    BY <1>1 DEF InOrder
  <2>3. \A x : Starting(r, x) \/ Stopping(r, x) => x \in Registry!Ids /\ x # id
    BY <1>10, <2>1, SessionIds
  <2>4. of2[id] = c /\ \A x \in Registry!Ids : x # id => of2[x] = of[x]
    BY <1>8
  <2>5. l = k /\ owes => known[c] # None \/ Saying(r, "add", c)
    BY <1>1, <1>2, <1>3, <1>5, <1>11, LoadedIs DEF Membership, Member
  <2>6. ~Saying(r, "remove", c) /\ ~Starting(r, id)
    BY <1>10, <1>11
  <2> HIDE DEF r, of, of2, known, p
  <2>7. AddedFirst(r, known, OwedIds') /\ StoppedLast(r, StoppedIds) /\ OwnersOnly(r, of2)
    <3>1. \A x : Starting(r, x) => (x \in OwedIds' => x \in OwedIds) /\ (x \in StoppedIds => x \in StoppedIds)
      BY <1>8, <2>3
    <3>2. \A x : Starting(r, x) \/ Stopping(r, x) => of2[x] = of[x]
      BY <2>3, <2>4
    <3> HIDE DEF OwedIds, StoppedIds
    <3> QED  BY <2>1, <2>2, <3>1, <3>2, OrderOfOthers
  <2>8. CASE l = k
    <3>1. Owes(m, OwedIds') => known[m.client] # None \/ Saying(r, "add", m.client)
      BY <1>4, <1>8, <2>5, <2>8 DEF Owes
    <3>2. \A x \in StoppedIds : ~Starts(m, x)
      BY <1>4, <1>10 DEF Starts
    <3>3. m.op # "capabilities" /\ m.client = of2[m.id]
      BY <1>4, <2>4
    <3>4. ~Saying(r, "remove", m.client) /\ ~Starting(r, m.id)
      BY <1>4, <2>6
    <3> DEFINE o == OwedIds'
    <3>5. AddedFirst(r, known, o) /\ (Owes(m, o) => known[m.client] # None \/ Saying(r, "add", m.client))
      BY <2>7, <3>1
    <3> HIDE DEF o
    <3>6. /\ RemovedLast(Append(r, m)) /\ AddedFirst(Append(r, m), known, o) /\ StoppedLast(Append(r, m), StoppedIds)
          /\ Single(Append(r, m)) /\ OwnersOnly(Append(r, m), of2)
      BY <1>4, <2>1, <2>2, <2>7, <3>2, <3>3, <3>4, <3>5, OrderGrows
    <3> QED  BY <2>1, <2>8, <3>6 DEF o, of2, known
  <2>9. CASE l # k
    BY <2>1, <2>2, <2>7, <2>9 DEF of2, known
  <2> QED  BY <2>8, <2>9
<1>18. IdsGiven'
  <2>1. \A x \in Registry!Ids : x > id => x > lastId /\ x # id
    BY <1>3 DEF Registry!Ids
  <2>2. \A x \in Registry!Ids : x <= lastId => x <= id /\ x # id
    BY <1>3 DEF Registry!Ids
  <2>3. \A x \in Registry!Ids : x > lastId' => x \notin StoppedIds' /\ x \notin OwedIds' /\ answers'[x] = 0 /\ begun'["of"][x] = None
    BY <1>1, <1>2, <1>8, <2>1 DEF IdsGiven
  <2>4. \A x \in Registry!Ids : \A l \in Registry!Adapters : Starting(p[l], x) \/ Stopping(p[l], x) => x <= lastId'
    <3>1. id <= id
      BY <1>3
    <3> QED  BY <1>1, <1>2, <1>7, <2>2, <3>1 DEF IdsGiven
  <2>5. ASSUME NEW s \in sessions'
        PROVE  s.id <= lastId' /\ s.client = begun'["of"][s.id] /\ registered'[s.kind][s.client] # None
    <3>1. s \in sessions /\ s.id \in Registry!Ids
      BY <1>1, <1>2, <1>8 DEF RegTypes
    <3>2. s.id <= lastId /\ s.client = begun["of"][s.id] /\ registered[s.kind][s.client] # None
      BY <1>1, <3>1 DEF IdsGiven
    <3>3. s.id <= lastId' /\ s.id # id
      BY <1>1, <1>2, <2>2, <3>1, <3>2
    <3> QED  BY <1>1, <1>2, <1>8, <3>1, <3>2, <3>3
  <2> QED  BY <2>3, <2>4, <2>5 DEF IdsGiven
<1>19. StopsArrive'
  <2> SUFFICES ASSUME NEW l \in Registry!Adapters, NEW x \in Registry!Ids
      PROVE  /\ Running(l, x) \/ Starting(p[l], x) => Routed(l, x)'
             /\ x \in StoppedIds /\ Running(l, x) => Stopping(p[l], x)
             /\ Stopping(p[l], x) => x \in StoppedIds
    BY <1>8, <1>9 DEF StopsArrive
  <2>1. CASE x = id
    BY <1>2, <1>7, <1>8, <1>10, <2>1 DEF Routed
  <2>2. CASE x # id
    BY <1>1, <1>2, <1>7, <1>8, <2>2 DEF StopsArrive, Routed
  <2> QED  BY <2>1, <2>2
<1>20. StartedOnce'
  <2> SUFFICES ASSUME NEW l \in Registry!Adapters, NEW x \in Registry!Ids, Running(l, x) \/ Starting(p[l], x)
      PROVE  /\ \A n \in Registry!Adapters : Running(n, x) \/ Starting(p[n], x) => l = n
             /\ ~(Running(l, x) /\ Starting(p[l], x))
    BY <1>9 DEF StartedOnce
  <2>1. CASE x = id
    BY <1>7, <1>10, <2>1
  <2>2. CASE x # id
    BY <1>1, <1>7, <2>2 DEF StartedOnce
  <2> QED  BY <2>1, <2>2
<1>21. AnswersCounted'
  <2> SUFFICES ASSUME NEW x \in Registry!Ids
      PROVE  /\ answers[x] <= IF x \in StoppedIds THEN 2 ELSE 1
             /\ x \in OwedIds' => answers[x] > 0 \/ \E l \in Registry!Adapters : Starting(p[l], x)
             /\ \A l \in Registry!Adapters : /\ Running(l, x) => answers[x] <= 1
                                             /\ Starting(p[l], x) => answers[x] = 0
    BY <1>2, <1>8, <1>9 DEF AnswersCounted
  <2>1. CASE x = id
    <3>1. answers[x] = 0 /\ x \notin StoppedIds /\ 0 <= 1
      BY <1>10, <2>1
    <3>2. k \in Registry!Adapters /\ Starting(p[k], x)
      BY <1>3, <1>7, <2>1
    <3>3. answers[x] <= IF x \in StoppedIds THEN 2 ELSE 1
      BY <3>1
    <3>4. \A l \in Registry!Adapters : ~Running(l, x)
      BY <1>10, <2>1
    <3> QED  BY <3>1, <3>2, <3>3, <3>4
  <2>2. CASE x # id
    BY <1>1, <1>7, <1>8, <2>2 DEF AnswersCounted
  <2> QED  BY <2>1, <2>2
<1> QED
  BY <1>12, <1>13, <1>15, <1>16, <1>17, <1>18, <1>19, <1>20, <1>21 DEF RegInv

\* The stop goes wherever the session may be, behind its start.
LEMMA StopKeeps == ASSUME RegInv, NEW c \in LocationApis, NEW id \in Registry!Ids, Registry!stop(c, id) PROVE RegInv'
<1> DEFINE K == IF begun["batching"][id] THEN {"flp"} ELSE Registry!stopBoth(c)
           m == [op |-> IF begun["batching"][id] THEN "stopBatching" ELSE "stop", client |-> c, id |-> id, cbs |-> {}]
           q == adapterQueues
           p == adapterQueues'
<1>1. /\ RegTypes /\ NotYet /\ Membership /\ Departure /\ CapsOnce /\ CapsCome
      /\ \A l \in Registry!Adapters : InOrder(adapterQueues[l], registered[l])
      /\ IdsGiven /\ StopsArrive /\ StartedOnce /\ AnswersCounted
  BY DEF RegInv
<1>2. /\ clientData[c] # None /\ begun["of"][id] = c
      /\ Registry!post(Registry!only(K, m))
      /\ begun' = [begun EXCEPT !["stopped"][id] = TRUE]
      /\ UNCHANGED <<interface, clientData, installed, registered, sessions, lastId, answers, caps, shrunk>>
  BY DEF Registry!stop, Registry!msg
<1>3. m \in RegMsg /\ m.op \in {"stop", "stopBatching"} /\ m.client = c /\ m.id = id
  BY DEF RegMsg, SessionOps
<1>4. K \subseteq Registry!Adapters /\ \A l \in Registry!Adapters : Routed(l, id) => l \in K
  BY DEF Registry!stopBoth, Registry!Adapters, Routed
<1> HIDE DEF K, m
<1>5. /\ p = Sent(q, K, m) /\ p \in [Registry!Adapters -> Seq(RegMsg)]
      /\ \A l \in Registry!Adapters :
           /\ \A x : /\ Mentions(p[l], x) <=> Mentions(q[l], x) \/ (l \in K /\ x = c)
                     /\ Saying(p[l], "add", x) <=> Saying(q[l], "add", x)
                     /\ Saying(p[l], "remove", x) <=> Saying(q[l], "remove", x)
                     /\ Saying(p[l], "capabilities", x) <=> Saying(q[l], "capabilities", x)
           /\ \A x : /\ Starting(p[l], x) <=> Starting(q[l], x)
                     /\ Stopping(p[l], x) <=> Stopping(q[l], x) \/ (l \in K /\ x = id)
  <2>1. q \in [Registry!Adapters -> Seq(RegMsg)]
    BY <1>1 DEF RegTypes
  <2>2. m.op \notin {"add", "remove", "capabilities", "start", "startBatching"}
    BY <1>3
  <2>3. /\ p = Sent(q, K, m) /\ p \in [Registry!Adapters -> Seq(RegMsg)]
        /\ \A l \in Registry!Adapters :
             /\ \A x : /\ Mentions(p[l], x) <=> Mentions(q[l], x) \/ (l \in K /\ m.client = x)
                       /\ Saying(p[l], "add", x) <=> Saying(q[l], "add", x) \/ (l \in K /\ m.op = "add" /\ m.client = x)
                       /\ Saying(p[l], "remove", x) <=>
                            Saying(q[l], "remove", x) \/ (l \in K /\ m.op = "remove" /\ m.client = x)
                       /\ Saying(p[l], "capabilities", x) <=>
                            Saying(q[l], "capabilities", x) \/ (l \in K /\ m.op = "capabilities" /\ m.client = x)
             /\ \A x : /\ Starting(p[l], x) <=> Starting(q[l], x)
                               \/ (l \in K /\ m.op \in {"start", "startBatching"} /\ m.id = x)
                       /\ Stopping(p[l], x) <=> Stopping(q[l], x)
                               \/ (l \in K /\ m.op \in {"stop", "stopBatching"} /\ m.id = x)
    BY <1>2, <1>3, <1>4, <2>1, PostSays
  <2> HIDE DEF p, q
  <2> QED  BY <1>3, <2>2, <2>3
<1>6. /\ begun' \in BegunTypes /\ begun'["used"] = begun["used"] /\ begun'["updates"] = begun["updates"]
      /\ begun'["of"] = begun["of"] /\ begun'["batching"] = begun["batching"]
      /\ OwedIds' = OwedIds /\ StoppedIds' = StoppedIds \cup {id}
  <2>1. begun \in BegunTypes /\ begun.stopped \in [Registry!Ids -> BOOLEAN]
    BY <1>1, BegunParts DEF RegTypes
  <2>2. /\ begun' \in BegunTypes /\ begun'.used = begun.used /\ begun'.updates = begun.updates /\ begun'.of = begun.of
        /\ begun'.batching = begun.batching /\ begun'.owed = begun.owed
        /\ begun'.stopped = [begun.stopped EXCEPT ![id] = TRUE]
    BY <1>2, <2>1, BegunStopped
  <2> QED  BY <2>1, <2>2 DEF OwedIds, StoppedIds
<1>7. /\ begun["used"][c] /\ id <= lastId
      /\ \A l \in Registry!Adapters : ~Saying(q[l], "remove", c)
  <2>1. begun["used"][c] /\ \A l \in Registry!Adapters : ~Saying(q[l], "remove", c)
    BY <1>1, <1>2 DEF NotYet, Alive
  <2>2. lastId \in Nat /\ id \in Nat /\ ~(id > lastId)
    BY <1>1, <1>2, RegAssumptions DEF IdsGiven, RegTypes, Registry!Ids
  <2> QED  BY <2>1, <2>2
<1>8. RegTypes'
  BY <1>1, <1>2, <1>5, <1>6 DEF RegTypes
<1>9. NotYet'
  <2> SUFFICES ASSUME NEW x \in LocationApis
      PROVE  /\ ~begun["used"][x] => ~Alive(x) /\ caps[x] = 0
             /\ \A l \in Registry!Adapters :
                  /\ ~begun["used"][x] => registered[l][x] = None /\ ~Mentions(p[l], x)
                  /\ Saying(p[l], "remove", x) => ~Alive(x)
    BY <1>2, <1>6 DEF NotYet, Alive
  <2>1. \A l \in Registry!Adapters : Saying(p[l], "remove", x) => ~Alive(x)
    BY <1>1, <1>5 DEF NotYet
  <2>2. ~begun["used"][x] => x # c
    BY <1>7
  <2> QED  BY <1>1, <1>5, <2>1, <2>2 DEF NotYet
<1>10. \A l \in Registry!Adapters, x \in LocationApis : Member(l, x)' <=> Member(l, x)
  BY <1>2, <1>5 DEF Member
<1>11. Membership' /\ Departure'
  BY <1>1, <1>2, <1>5, <1>10 DEF Membership, Departure, Alive
<1>12. CapsOnce' /\ CapsCome'
  <2>1. \A l \in Registry!Adapters, x \in LocationApis : Asking(l, x)' <=> Asking(l, x)
    BY <1>5 DEF Asking
  <2> QED  BY <1>1, <1>2, <1>6, <1>10, <2>1 DEF CapsOnce, CapsCome, Alive
<1>13. \A l \in Registry!Adapters : InOrder(adapterQueues[l], registered[l])'
  <2> SUFFICES ASSUME NEW l \in Registry!Adapters
      PROVE  /\ RemovedLast(p[l]) /\ AddedFirst(p[l], registered[l], OwedIds) /\ StoppedLast(p[l], StoppedIds \cup {id})
             /\ Single(p[l]) /\ OwnersOnly(p[l], begun["of"])
    BY <1>2, <1>6 DEF InOrder
  <2> DEFINE r == q[l]
             of == begun["of"]
             known == registered[l]
             now == StoppedIds \cup {id}
  <2>1. r \in Seq(RegMsg) /\ p[l] = IF l \in K THEN Append(r, m) ELSE r
    BY <1>1, <1>5 DEF RegTypes, Sent
  <2>2. /\ RemovedLast(r) /\ AddedFirst(r, known, OwedIds) /\ StoppedLast(r, StoppedIds) /\ Single(r) /\ OwnersOnly(r, of)
    BY <1>1 DEF InOrder
  <2>3. l \notin K => ~Starting(r, id)
    BY <1>1, <1>4 DEF StopsArrive
  <2>4. ~Saying(r, "remove", c) /\ c = of[id]
    BY <1>2, <1>7
  <2>5. CASE l \in K
    <3>1. /\ ~Owes(m, OwedIds) /\ \A x \in StoppedIds : ~Starts(m, x)
          /\ m.op # "capabilities" /\ m.op \notin {"start", "startBatching"} /\ m.client = of[m.id]
          /\ ~Saying(r, "remove", m.client)
      BY <1>3, <2>4 DEF Owes, Starts
    <3>2. Stops(m, id)
      BY <1>3 DEF Stops
    <3> HIDE DEF r, of, known, p
    <3>3. /\ RemovedLast(Append(r, m)) /\ AddedFirst(Append(r, m), known, OwedIds) /\ Single(Append(r, m))
          /\ OwnersOnly(Append(r, m), of)
      BY <1>3, <2>1, <2>2, <3>1, OrderGrows
    <3>4. StoppedLast(Append(r, m), StoppedIds \cup {id})
      BY <1>3, <2>1, <2>2, <3>2, StopIsLast
    <3> QED  BY <2>1, <2>5, <3>3, <3>4 DEF of, known
  <2>6. CASE l \notin K
    <3>1. \A x : Starting(r, x) => (x \in OwedIds => x \in OwedIds) /\ (x \in now => x \in StoppedIds)
      BY <2>3, <2>6
    <3>2. \A x : Starting(r, x) \/ Stopping(r, x) => of[x] = of[x]
      OBVIOUS
    <3> HIDE DEF r, of, known, p, now, OwedIds, StoppedIds
    <3>3. AddedFirst(r, known, OwedIds) /\ StoppedLast(r, now) /\ OwnersOnly(r, of)
      BY <2>1, <2>2, <3>1, <3>2, OrderOfOthers
    <3> QED  BY <2>1, <2>2, <2>6, <3>3 DEF of, known, now
  <2> QED  BY <2>5, <2>6
<1>14. IdsGiven'
  <2>1. \A x \in Registry!Ids : x > lastId => x \notin StoppedIds' /\ x \notin OwedIds' /\ answers[x] = 0 /\ begun["of"][x] = None
    <3>1. ~(id > lastId)
      BY <1>1, <1>7, RegAssumptions DEF RegTypes, Registry!Ids
    <3> QED  BY <1>1, <1>6, <3>1 DEF IdsGiven
  <2>2. \A x \in Registry!Ids : \A l \in Registry!Adapters : Starting(p[l], x) \/ Stopping(p[l], x) => x <= lastId
    BY <1>1, <1>5, <1>7 DEF IdsGiven
  <2> QED  BY <1>1, <1>2, <1>6, <2>1, <2>2 DEF IdsGiven
<1>15. \A l, x : Running(l, x)' <=> Running(l, x)
  BY <1>2 DEF Running
<1>16. StopsArrive'
  <2> SUFFICES ASSUME NEW l \in Registry!Adapters, NEW x \in Registry!Ids
      PROVE  /\ Running(l, x) \/ Starting(p[l], x) => Routed(l, x)
             /\ x \in StoppedIds \cup {id} /\ Running(l, x) => Stopping(p[l], x)
             /\ Stopping(p[l], x) => x \in StoppedIds \cup {id}
    BY <1>2, <1>6, <1>15 DEF StopsArrive, Routed
  <2>1. CASE x = id
    BY <1>1, <1>4, <1>5, <2>1 DEF StopsArrive
  <2>2. CASE x # id
    BY <1>1, <1>5, <2>2 DEF StopsArrive
  <2> QED  BY <2>1, <2>2
<1>17. StartedOnce'
  BY <1>1, <1>5, <1>15 DEF StartedOnce
<1>18. AnswersCounted'
  <2>1. \A x \in Registry!Ids : answers[x] <= IF x \in StoppedIds' THEN 2 ELSE 1
    <3>1. \A x \in Registry!Ids : answers[x] \in Nat /\ answers[x] <= IF x \in StoppedIds THEN 2 ELSE 1
      BY <1>1 DEF AnswersCounted, RegTypes
    <3> QED  BY <1>6, <3>1
  <2> QED  BY <1>1, <1>2, <1>5, <1>6, <1>15, <2>1 DEF AnswersCounted
<1> QED
  BY <1>8, <1>9, <1>11, <1>12, <1>13, <1>14, <1>16, <1>17, <1>18 DEF RegInv

\* The capabilities are asked of one of the adapters, if there are any.
LEMMA FirstIsOne ==
  ASSUME NEW ks \in SUBSET Registry!Adapters
  PROVE  /\ Registry!askFirst(ks) \subseteq ks
         /\ \A k, l \in Registry!askFirst(ks) : k = l
         /\ ks # {} => Registry!askFirst(ks) # {}
<1>1. Registry!Kinds[1] = "gnss" /\ Registry!Kinds[2] = "flp" /\ Registry!Kinds[3] = "geofence"
      /\ DOMAIN Registry!Kinds = {1, 2, 3}
  BY DEF Registry!Kinds
<1>2. 1 .. 1 - 1 = {} /\ 1 .. 2 - 1 = {1} /\ 1 .. 3 - 1 = {1, 2}
  OBVIOUS
<1>3. \A k \in ks : k = "gnss" \/ k = "flp" \/ k = "geofence"
  BY DEF Registry!Adapters
<1>4. "gnss" \in ks => "gnss" \in Registry!askFirst(ks)
  BY <1>1, <1>2 DEF Registry!askFirst
<1>5. "flp" \in ks /\ "gnss" \notin ks => "flp" \in Registry!askFirst(ks)
  BY <1>1, <1>2 DEF Registry!askFirst
<1>6. "geofence" \in ks /\ "gnss" \notin ks /\ "flp" \notin ks => "geofence" \in Registry!askFirst(ks)
  BY <1>1, <1>2 DEF Registry!askFirst
<1>7. \A k \in Registry!askFirst(ks) : /\ k \in ks
                                       /\ k = "flp" => "gnss" \notin ks
                                       /\ k = "geofence" => "gnss" \notin ks /\ "flp" \notin ks
  BY <1>1, <1>2 DEF Registry!askFirst
<1> HIDE DEF Registry!askFirst
<1> QED
  BY <1>3, <1>4, <1>5, <1>6, <1>7

LEMMA SayingMentions == ASSUME NEW q, NEW op, NEW c, Saying(q, op, c) PROVE Mentions(q, c)
  BY DEF Saying, Mentions, Says

\* Two messages in a row, or one, or none.
LEMMA TwoSent ==
  ASSUME NEW q \in Seq(RegMsg), NEW a, NEW b
  PROVE  /\ q \o (<<a>> \o <<b>>) = Append(Append(q, a), b) /\ q \o (<<a>> \o <<>>) = Append(q, a)
         /\ q \o (<<>> \o <<b>>) = Append(q, b) /\ q \o (<<>> \o <<>>) = q
  OBVIOUS

Both(K, a, A, b) == [k \in Registry!Adapters |-> (IF k \in K THEN <<a>> ELSE <<>>) \o (IF k \in A THEN <<b>> ELSE <<>>)]
LEMMA TwoPosts ==
  ASSUME adapterQueues \in [Registry!Adapters -> Seq(RegMsg)], NEW K, NEW A, NEW a, NEW b,
         Registry!post(Both(K, a, A, b))
  PROVE  adapterQueues' = Sent(Sent(adapterQueues, K, a), A, b)
<1> DEFINE q == adapterQueues
           p == adapterQueues'
<1>1. p = [k \in Registry!Adapters |-> q[k] \o ((IF k \in K THEN <<a>> ELSE <<>>) \o (IF k \in A THEN <<b>> ELSE <<>>))]
  BY DEF Registry!post, Both
<1>2. \A k \in Registry!Adapters :
        q[k] \o ((IF k \in K THEN <<a>> ELSE <<>>) \o (IF k \in A THEN <<b>> ELSE <<>>))
          = IF k \in A THEN Append(IF k \in K THEN Append(q[k], a) ELSE q[k], b)
            ELSE IF k \in K THEN Append(q[k], a) ELSE q[k]
  <2> TAKE k \in Registry!Adapters
  <2> DEFINE r == q[k]
  <2>1. r \in Seq(RegMsg)
    OBVIOUS
  <2> HIDE DEF r
  <2>2. /\ r \o (<<a>> \o <<b>>) = Append(Append(r, a), b) /\ r \o (<<a>> \o <<>>) = Append(r, a)
        /\ r \o (<<>> \o <<b>>) = Append(r, b) /\ r \o (<<>> \o <<>>) = r
    BY ONLY <2>1, TwoSent
  <2> QED  BY <2>2 DEF r
<1> HIDE DEF p, q
<1> QED
  BY <1>1, <1>2 DEF Sent, p, q

LEMMA CreateKeeps ==
  ASSUME RegInv, NEW c \in LocationApis, NEW cbs \in ApiCallbacks, Registry!createInstance(c, cbs)
  PROVE  RegInv'
<1> DEFINE a == [op |-> "add", client |-> c, id |-> 0, cbs |-> cbs]
           b == [op |-> "capabilities", client |-> c, id |-> 0, cbs |-> {}]
           K == Registry!Loaded(interface', cbs)
           A == Registry!askFirst(K)
           q == adapterQueues
           s == Sent(q, K, a)
           p == adapterQueues'
<1>1. /\ RegTypes /\ NotYet /\ Membership /\ Departure /\ CapsOnce /\ CapsCome
      /\ \A k \in Registry!Adapters : InOrder(adapterQueues[k], registered[k])
      /\ IdsGiven /\ StopsArrive /\ StartedOnce /\ AnswersCounted
  BY DEF RegInv
<1>2. /\ ~begun["used"][c] /\ interface' = Registry!load(cbs)
      /\ Registry!post([k \in Registry!Adapters |-> (IF k \in K THEN <<a>> ELSE <<>>) \o (IF k \in A THEN <<b>> ELSE <<>>)])
      /\ clientData' = [clientData EXCEPT ![c] = cbs]
      /\ begun' = [begun EXCEPT !["used"][c] = TRUE]
      /\ UNCHANGED <<installed, registered, sessions, lastId, answers, caps, shrunk>>
  BY DEF Registry!createInstance, Registry!msg
<1>3. a \in RegMsg /\ a.op = "add" /\ a.client = c /\ b \in RegMsg /\ b.op = "capabilities" /\ b.client = c
  BY DEF RegMsg
<1>4. /\ K \subseteq Registry!Adapters
      /\ interface' \in [Registry!Adapters -> {"null", "loaded", "failed"}]
      /\ \A k \in Registry!Adapters : interface[k] # "null" => interface'[k] = interface[k]
      /\ \A k \in Registry!needs(cbs) : interface'[k] # "null"
      /\ \A k : k \in K <=> k \in Registry!needs(cbs) /\ interface'[k] = "loaded"
  BY <1>1, <1>2, LoadsOnce, LoadedIs
<1> HIDE DEF K, a, b
<1>5. A \subseteq K /\ (\A k, l \in A : k = l) /\ (K # {} => A # {})
  BY <1>4, FirstIsOne
<1> HIDE DEF A
<1>6. /\ p = Sent(s, A, b) /\ p \in [Registry!Adapters -> Seq(RegMsg)] /\ q \in [Registry!Adapters -> Seq(RegMsg)]
      /\ \A k \in Registry!Adapters :
           /\ \A x : /\ Mentions(p[k], x) <=> Mentions(q[k], x) \/ (k \in K /\ x = c)
                     /\ Saying(p[k], "add", x) <=> Saying(q[k], "add", x) \/ (k \in K /\ x = c)
                     /\ Saying(p[k], "remove", x) <=> Saying(q[k], "remove", x)
                     /\ Saying(p[k], "capabilities", x) <=> Saying(q[k], "capabilities", x) \/ (k \in A /\ x = c)
           /\ \A x : /\ Starting(p[k], x) <=> Starting(q[k], x)
                     /\ Stopping(p[k], x) <=> Stopping(q[k], x)
  <2>1. q \in [Registry!Adapters -> Seq(RegMsg)] /\ p = Sent(s, A, b) /\ K \in SUBSET Registry!Adapters
    <3>1. q \in [Registry!Adapters -> Seq(RegMsg)] /\ K \in SUBSET Registry!Adapters
      BY <1>1, <1>4 DEF RegTypes
    <3> HIDE DEF q, p, s
    <3>2. Registry!post(Both(K, a, A, b))
      BY <1>2 DEF Both
    <3>3. p = Sent(s, A, b)
      BY ONLY <3>1, <3>2, TwoPosts DEF p, q, s
    <3> QED  BY <3>1, <3>3
  <2>2. a.op \notin {"start", "startBatching", "stop", "stopBatching", "remove", "capabilities"}
        /\ b.op \notin {"start", "startBatching", "stop", "stopBatching", "remove", "add"}
    BY <1>3
  <2>3. /\ s \in [Registry!Adapters -> Seq(RegMsg)]
        /\ \A k \in Registry!Adapters :
             /\ \A x : /\ Mentions(s[k], x) <=> Mentions(q[k], x) \/ (k \in K /\ a.client = x)
                       /\ Saying(s[k], "add", x) <=> Saying(q[k], "add", x) \/ (k \in K /\ Says(a, "add", x))
                       /\ Saying(s[k], "remove", x) <=> Saying(q[k], "remove", x) \/ (k \in K /\ Says(a, "remove", x))
                       /\ Saying(s[k], "capabilities", x) <=>
                            Saying(q[k], "capabilities", x) \/ (k \in K /\ Says(a, "capabilities", x))
             /\ \A x : /\ Starting(s[k], x) <=> Starting(q[k], x) \/ (k \in K /\ Starts(a, x))
                       /\ Stopping(s[k], x) <=> Stopping(q[k], x) \/ (k \in K /\ Stops(a, x))
    <3>1. a \in RegMsg
      BY <1>3
    <3> QED  BY ONLY <2>1, <3>1, SentSays
  <2> HIDE DEF s
  <2>4. A \in SUBSET Registry!Adapters
    BY <1>4, <1>5
  <2>5. /\ Sent(s, A, b) \in [Registry!Adapters -> Seq(RegMsg)]
        /\ \A k \in Registry!Adapters :
             /\ \A x : /\ Mentions(Sent(s, A, b)[k], x) <=> Mentions(s[k], x) \/ (k \in A /\ b.client = x)
                       /\ Saying(Sent(s, A, b)[k], "add", x) <=> Saying(s[k], "add", x) \/ (k \in A /\ Says(b, "add", x))
                       /\ Saying(Sent(s, A, b)[k], "remove", x) <=>
                            Saying(s[k], "remove", x) \/ (k \in A /\ Says(b, "remove", x))
                       /\ Saying(Sent(s, A, b)[k], "capabilities", x) <=>
                            Saying(s[k], "capabilities", x) \/ (k \in A /\ Says(b, "capabilities", x))
             /\ \A x : /\ Starting(Sent(s, A, b)[k], x) <=> Starting(s[k], x) \/ (k \in A /\ Starts(b, x))
                       /\ Stopping(Sent(s, A, b)[k], x) <=> Stopping(s[k], x) \/ (k \in A /\ Stops(b, x))
    <3>1. b \in RegMsg /\ s \in [Registry!Adapters -> Seq(RegMsg)]
      BY <1>3, <2>3
    <3> QED  BY ONLY <2>4, <3>1, SentSays
  <2>6. /\ \A x : /\ Says(a, "add", x) <=> x = c
                  /\ ~Says(a, "remove", x) /\ ~Says(a, "capabilities", x) /\ ~Starts(a, x) /\ ~Stops(a, x)
        /\ \A x : /\ Says(b, "capabilities", x) <=> x = c
                  /\ ~Says(b, "remove", x) /\ ~Says(b, "add", x) /\ ~Starts(b, x) /\ ~Stops(b, x)
    BY <1>3, <2>2 DEF Says, Starts, Stops
  <2>7. p \in [Registry!Adapters -> Seq(RegMsg)]
    BY <2>1, <2>5
  <2> SUFFICES ASSUME NEW k \in Registry!Adapters
      PROVE  /\ \A x : /\ Mentions(p[k], x) <=> Mentions(q[k], x) \/ (k \in K /\ x = c)
                       /\ Saying(p[k], "add", x) <=> Saying(q[k], "add", x) \/ (k \in K /\ x = c)
                       /\ Saying(p[k], "remove", x) <=> Saying(q[k], "remove", x)
                       /\ Saying(p[k], "capabilities", x) <=> Saying(q[k], "capabilities", x) \/ (k \in A /\ x = c)
             /\ \A x : /\ Starting(p[k], x) <=> Starting(q[k], x)
                       /\ Stopping(p[k], x) <=> Stopping(q[k], x)
    BY <2>1, <2>7
  <2> HIDE DEF p, q
  <2> QED  BY <1>3, <1>5, <2>1, <2>3, <2>5, <2>6
<1>7. /\ begun' \in BegunTypes /\ begun'["updates"] = begun["updates"] /\ begun'["of"] = begun["of"]
      /\ begun'["batching"] = begun["batching"] /\ OwedIds' = OwedIds /\ StoppedIds' = StoppedIds
      /\ begun'["used"][c] /\ \A x \in LocationApis : x # c => begun'["used"][x] = begun["used"][x]
  <2>1. begun \in BegunTypes /\ begun.used \in [LocationApis -> BOOLEAN]
    BY <1>1, BegunParts DEF RegTypes
  <2>2. /\ begun' \in BegunTypes /\ begun'.stopped = begun.stopped /\ begun'.updates = begun.updates
        /\ begun'.of = begun.of /\ begun'.batching = begun.batching /\ begun'.owed = begun.owed
        /\ begun'.used = [begun.used EXCEPT ![c] = TRUE]
    BY <1>2, <2>1, BegunUsed
  <2> QED  BY <2>1, <2>2 DEF OwedIds, StoppedIds
<1>8. /\ \A x \in LocationApis : x # c => clientData'[x] = clientData[x]
      /\ clientData'[c] = cbs /\ cbs # None /\ clientData' \in [LocationApis -> ApiCallbacks \cup {None}]
  BY <1>1, <1>2, RegAssumptions DEF RegTypes
\* Nothing is about the client yet.
<1>9. /\ caps[c] = 0 /\ \A k \in Registry!Adapters : registered[k][c] = None /\ ~Mentions(q[k], c)
      /\ \A k \in Registry!Adapters :
           ~Saying(q[k], "add", c) /\ ~Saying(q[k], "remove", c) /\ ~Saying(q[k], "capabilities", c)
  <2>1. caps[c] = 0 /\ \A k \in Registry!Adapters : registered[k][c] = None /\ ~Mentions(q[k], c)
    BY <1>1, <1>2 DEF NotYet
  <2> QED  BY <2>1, SayingMentions
<1>10. RegTypes'
  BY <1>1, <1>2, <1>4, <1>6, <1>7, <1>8 DEF RegTypes
<1>11. NotYet'
  <2> SUFFICES ASSUME NEW x \in LocationApis
      PROVE  /\ ~begun'["used"][x] => ~Alive(x)' /\ caps'[x] = 0
             /\ \A k \in Registry!Adapters :
                  /\ ~begun'["used"][x] => registered'[k][x] = None /\ ~Mentions(p[k], x)
                  /\ Saying(p[k], "remove", x) => ~Alive(x)'
    BY DEF NotYet
  <2>1. CASE x = c
    BY <1>6, <1>7, <1>9, <2>1
  <2>2. CASE x # c
    <3>1. (Alive(x)' <=> Alive(x)) /\ begun'["used"][x] = begun["used"][x]
      BY <1>7, <1>8, <2>2 DEF Alive
    <3> QED  BY <1>1, <1>2, <1>6, <2>2, <3>1 DEF NotYet
  <2> QED  BY <2>1, <2>2
<1>12. \A k \in Registry!Adapters, x \in LocationApis : Member(k, x)' <=> Member(k, x) \/ (k \in K /\ x = c)
  BY <1>2, <1>6 DEF Member
<1>13. \A k \in Registry!Adapters : ~Member(k, c)
  BY <1>9 DEF Member
<1>14. Membership'
  <2> SUFFICES ASSUME NEW x \in LocationApis, NEW k \in Registry!Adapters, Alive(x)'
      PROVE  /\ k \in Registry!needs(clientData'[x]) => interface'[k] # "null"
             /\ k \in Registry!needs(clientData'[x]) /\ interface'[k] = "loaded" => Member(k, x)'
             /\ x \notin shrunk' /\ Member(k, x)' => k \in Registry!needs(clientData'[x]) /\ interface'[k] = "loaded"
    BY LoadedIs DEF Membership
  <2>1. CASE x = c
    BY <1>4, <1>8, <1>12, <1>13, <2>1
  <2>2. CASE x # c
    <3>1. Alive(x) /\ clientData'[x] = clientData[x] /\ (Member(k, x)' <=> Member(k, x)) /\ (x \notin shrunk' => x \notin shrunk)
      BY <1>2, <1>8, <1>12, <2>2 DEF Alive
    <3> QED  BY <1>1, <1>4, <3>1, LoadedIs DEF Membership
  <2> QED  BY <2>1, <2>2
<1>15. Departure'
  BY <1>1, <1>2, <1>6, <1>8, <1>12 DEF Departure, Alive
<1>16. \A k \in Registry!Adapters, x \in LocationApis : Asking(k, x)' <=> Asking(k, x) \/ (k \in A /\ x = c)
  BY <1>6 DEF Asking
<1>17. \A k \in Registry!Adapters : ~Asking(k, c)
  BY <1>9 DEF Asking
<1>18. CapsOnce'
  <2> SUFFICES ASSUME NEW x \in LocationApis
      PROVE  /\ caps[x] <= 1
             /\ \A k \in Registry!Adapters : Asking(k, x)' => caps[x] = 0 /\ \A l \in Registry!Adapters : Asking(l, x)' => k = l
    BY <1>2 DEF CapsOnce
  <2>1. caps[x] <= 1
    BY <1>1 DEF CapsOnce
  <2>2. CASE x = c
    BY <1>5, <1>9, <1>16, <1>17, <2>1, <2>2
  <2>3. CASE x # c
    BY <1>1, <1>16, <2>3 DEF CapsOnce
  <2> QED  BY <2>2, <2>3
<1>19. CapsCome'
  <2> SUFFICES ASSUME begun["updates"] = 0, NEW x \in LocationApis, Alive(x)', NEW k \in Registry!Adapters, Member(k, x)'
      PROVE  caps[x] = 1 \/ \E l \in Registry!Adapters : Asking(l, x)'
    BY <1>2, <1>7 DEF CapsCome
  <2>1. CASE x = c
    <3>1. PICK l \in A : TRUE
      BY <1>5, <1>12, <1>13, <2>1
    <3> QED  BY <1>4, <1>5, <1>16, <2>1, <3>1
  <2>2. CASE x # c
    <3>1. Alive(x) /\ Member(k, x)
      BY <1>8, <1>12, <2>2 DEF Alive
    <3> QED  BY <1>1, <1>16, <3>1 DEF CapsCome
  <2> QED  BY <2>1, <2>2
<1>20. \A k \in Registry!Adapters : InOrder(adapterQueues[k], registered[k])'
  <2> SUFFICES ASSUME NEW k \in Registry!Adapters
      PROVE  /\ RemovedLast(p[k]) /\ AddedFirst(p[k], registered[k], OwedIds) /\ StoppedLast(p[k], StoppedIds)
             /\ Single(p[k]) /\ OwnersOnly(p[k], begun["of"])
    BY <1>2, <1>7 DEF InOrder
  <2> DEFINE r == q[k]
             t == IF k \in K THEN Append(r, a) ELSE r
             of == begun["of"]
             known == registered[k]
  <2>1. r \in Seq(RegMsg) /\ p[k] = IF k \in A THEN Append(t, b) ELSE t
    BY <1>6 DEF Sent
  <2>2. /\ RemovedLast(r) /\ AddedFirst(r, known, OwedIds) /\ StoppedLast(r, StoppedIds) /\ Single(r) /\ OwnersOnly(r, of)
    BY <1>1 DEF InOrder
  <2>3. ~Saying(r, "remove", c) /\ ~Saying(r, "capabilities", c)
    BY <1>9
  <2>4. /\ a.op \notin SessionOps /\ a.op \notin {"start", "startBatching"} /\ a.op # "capabilities"
        /\ b.op \notin SessionOps /\ b.op \notin {"start", "startBatching"}
        /\ ~Owes(a, OwedIds) /\ \A x : ~Starts(a, x) /\ ~Starts(b, x)
        /\ Says(a, "add", c) /\ ~Says(a, "remove", c) /\ ~Says(a, "capabilities", c)
    BY <1>3 DEF SessionOps, Owes, Starts, Says
  <2> HIDE DEF r, of, known, p
  <2>5. CASE k \in K
    <3> DEFINE u == Append(r, a)
    <3>1. /\ u \in Seq(RegMsg) /\ Saying(u, "add", c) /\ ~Saying(u, "remove", c) /\ ~Saying(u, "capabilities", c)
      BY <1>3, <2>1, <2>3, <2>4, QueueGrows
    <3>2. /\ RemovedLast(u) /\ AddedFirst(u, known, OwedIds) /\ StoppedLast(u, StoppedIds) /\ Single(u) /\ OwnersOnly(u, of)
      BY <1>3, <2>1, <2>2, <2>3, <2>4, OrderGrows
    <3> HIDE DEF u
    <3>3. /\ RemovedLast(Append(u, b)) /\ AddedFirst(Append(u, b), known, OwedIds) /\ StoppedLast(Append(u, b), StoppedIds)
          /\ Single(Append(u, b)) /\ OwnersOnly(Append(u, b), of)
      BY <1>3, <2>4, <3>1, <3>2, OrderGrows
    <3>4. p[k] = IF k \in A THEN Append(u, b) ELSE u
      BY <2>1, <2>5 DEF u
    <3> QED  BY <3>2, <3>3, <3>4 DEF of, known
  <2>6. CASE k \notin K
    <3>1. p[k] = r
      BY <1>5, <2>1, <2>6
    <3> QED  BY <2>2, <3>1 DEF of, known
  <2> QED  BY <2>5, <2>6
<1>21. IdsGiven'
  BY <1>1, <1>2, <1>6, <1>7 DEF IdsGiven
<1>22. \A k, x : Running(k, x)' <=> Running(k, x)
  BY <1>2 DEF Running
<1>23. StopsArrive'
  BY <1>1, <1>2, <1>4, <1>6, <1>7, <1>22 DEF StopsArrive, Routed
<1>24. StartedOnce' /\ AnswersCounted'
  BY <1>1, <1>2, <1>6, <1>7, <1>22 DEF StartedOnce, AnswersCounted
<1> QED
  BY <1>10, <1>11, <1>14, <1>15, <1>18, <1>19, <1>20, <1>21, <1>23, <1>24 DEF RegInv

(***************************************************************************)
(* The threads of the adapters.                                            *)
(***************************************************************************)
\* An adapter takes its first message.
Taken(k, m) ==
  /\ adapterQueues[k] # <<>> /\ m = Head(adapterQueues[k]) /\ m \in RegMsg
  /\ adapterQueues' \in [Registry!Adapters -> Seq(RegMsg)]
  /\ adapterQueues'[k] = Tail(adapterQueues[k])
  /\ \A l \in Registry!Adapters :
       /\ l # k => adapterQueues'[l] = adapterQueues[l]
       /\ \A x : /\ Mentions(adapterQueues[l], x) <=> Mentions(adapterQueues'[l], x) \/ (l = k /\ m.client = x)
                 /\ Saying(adapterQueues[l], "add", x) <=>
                      Saying(adapterQueues'[l], "add", x) \/ (l = k /\ m.op = "add" /\ m.client = x)
                 /\ Saying(adapterQueues[l], "remove", x) <=>
                      Saying(adapterQueues'[l], "remove", x) \/ (l = k /\ m.op = "remove" /\ m.client = x)
                 /\ Saying(adapterQueues[l], "capabilities", x) <=>
                      Saying(adapterQueues'[l], "capabilities", x) \/ (l = k /\ m.op = "capabilities" /\ m.client = x)
       /\ \A x : /\ Starting(adapterQueues[l], x) <=> Starting(adapterQueues'[l], x)
                      \/ (l = k /\ m.op \in {"start", "startBatching"} /\ m.id = x)
                 /\ Stopping(adapterQueues[l], x) <=> Stopping(adapterQueues'[l], x)
                      \/ (l = k /\ m.op \in {"stop", "stopBatching"} /\ m.id = x)
  /\ UNCHANGED <<interface, clientData, installed, lastId, begun, shrunk>>
  /\ OwedIds' = OwedIds /\ StoppedIds' = StoppedIds

LEMMA TakenSays ==
  ASSUME RegTypes, NEW k \in Registry!Adapters, Registry!handle(k)
  PROVE  Taken(k, Head(adapterQueues[k]))
<1> DEFINE q == adapterQueues[k]
           m == Head(q)
<1>1. /\ q # <<>> /\ q \in Seq(RegMsg) /\ adapterQueues' = [adapterQueues EXCEPT ![k] = Tail(q)]
      /\ UNCHANGED <<interface, clientData, installed, lastId, begun, shrunk>>
      /\ adapterQueues \in [Registry!Adapters -> Seq(RegMsg)]
  BY DEF Registry!handle, RegTypes
<1>2. /\ Tail(q) \in Seq(RegMsg) /\ m \in RegMsg
      /\ \A x : /\ Mentions(q, x) <=> Mentions(Tail(q), x) \/ m.client = x
                /\ Saying(q, "add", x) <=> Saying(Tail(q), "add", x) \/ Says(m, "add", x)
                /\ Saying(q, "remove", x) <=> Saying(Tail(q), "remove", x) \/ Says(m, "remove", x)
                /\ Saying(q, "capabilities", x) <=> Saying(Tail(q), "capabilities", x) \/ Says(m, "capabilities", x)
      /\ \A x : /\ Starting(q, x) <=> Starting(Tail(q), x) \/ Starts(m, x)
                /\ Stopping(q, x) <=> Stopping(Tail(q), x) \/ Stops(m, x)
  BY <1>1, QueueShrinks
<1>3. /\ adapterQueues' \in [Registry!Adapters -> Seq(RegMsg)] /\ adapterQueues'[k] = Tail(q)
      /\ \A l \in Registry!Adapters : l # k => adapterQueues'[l] = adapterQueues[l]
  BY <1>1, <1>2
<1>4. OwedIds' = OwedIds /\ StoppedIds' = StoppedIds
  BY <1>1 DEF OwedIds, StoppedIds
<1>5. q = adapterQueues[k] /\ m = Head(adapterQueues[k])
  OBVIOUS
<1> HIDE DEF q, m
<1>6. \A l \in Registry!Adapters :
       /\ \A x : /\ Mentions(adapterQueues[l], x) <=> Mentions(adapterQueues'[l], x) \/ (l = k /\ m.client = x)
                 /\ Saying(adapterQueues[l], "add", x) <=>
                      Saying(adapterQueues'[l], "add", x) \/ (l = k /\ m.op = "add" /\ m.client = x)
                 /\ Saying(adapterQueues[l], "remove", x) <=>
                      Saying(adapterQueues'[l], "remove", x) \/ (l = k /\ m.op = "remove" /\ m.client = x)
                 /\ Saying(adapterQueues[l], "capabilities", x) <=>
                      Saying(adapterQueues'[l], "capabilities", x) \/ (l = k /\ m.op = "capabilities" /\ m.client = x)
       /\ \A x : /\ Starting(adapterQueues[l], x) <=> Starting(adapterQueues'[l], x)
                      \/ (l = k /\ m.op \in {"start", "startBatching"} /\ m.id = x)
                 /\ Stopping(adapterQueues[l], x) <=> Stopping(adapterQueues'[l], x)
                      \/ (l = k /\ m.op \in {"stop", "stopBatching"} /\ m.id = x)
  <2> TAKE l \in Registry!Adapters
  <2>1. CASE l = k
    BY <1>2, <1>3, <1>5, <2>1 DEF Says, Starts, Stops
  <2>2. CASE l # k
    BY <1>3, <2>2
  <2> QED  BY <2>1, <2>2
<1> QED
  BY <1>1, <1>2, <1>3, <1>4, <1>5, <1>6 DEF Taken

\* The removal of a client is the last message about it.
LEMMA NothingAfterRemoval ==
  ASSUME NEW q \in Seq(RegMsg), q # <<>>, RemovedLast(q), Head(q).op = "remove"
  PROVE  ~Mentions(Tail(q), Head(q).client)
<1>1. /\ 1 \in DOMAIN q /\ q[1] = Head(q)
      /\ \A i \in DOMAIN Tail(q) : i + 1 \in DOMAIN q /\ Tail(q)[i] = q[i + 1] /\ 1 < i + 1
  OBVIOUS
<1> QED
  BY <1>1 DEF RemovedLast, Mentions

\* What the order of its queue says of the message that is taken, and of the rest.
LEMMA OrderLeft ==
  ASSUME RegTypes, \A l \in Registry!Adapters : InOrder(adapterQueues[l], registered[l]),
         NEW k \in Registry!Adapters, NEW m, Taken(k, m),
         \A l \in Registry!Adapters : l # k => registered'[l] = registered[l],
         \A x : registered[k][x] # None \/ (m.op = "add" /\ m.client = x) =>
                  registered'[k][x] # None \/ ~Mentions(adapterQueues'[k], x)
  PROVE  /\ \A l \in Registry!Adapters : InOrder(adapterQueues[l], registered[l])'
         /\ m.op = "capabilities" => registered[k][m.client] # None /\ ~Saying(adapterQueues'[k], "capabilities", m.client)
         /\ m.op \in {"start", "startBatching"} =>
              /\ m.id \in OwedIds => registered[k][m.client] # None
              /\ m.id \in StoppedIds => Stopping(adapterQueues'[k], m.id)
              /\ ~Starting(adapterQueues'[k], m.id)
         /\ m.op \in SessionOps => m.client = begun["of"][m.id]
<1> DEFINE q == adapterQueues[k]
           of == begun["of"]
           known == registered[k]
           known2 == registered'[k]
<1>1. /\ q \in Seq(RegMsg) /\ q # <<>> /\ m = Head(q) /\ adapterQueues'[k] = Tail(q)
      /\ \A l \in Registry!Adapters : l # k => adapterQueues'[l] = adapterQueues[l]
      /\ begun' = begun /\ OwedIds' = OwedIds /\ StoppedIds' = StoppedIds
  BY DEF Taken, RegTypes
<1>2. RemovedLast(q) /\ AddedFirst(q, known, OwedIds) /\ StoppedLast(q, StoppedIds) /\ Single(q) /\ OwnersOnly(q, of)
  BY DEF InOrder
<1>3. \A x : known[x] # None \/ Says(Head(q), "add", x) => known2[x] # None \/ ~Mentions(Tail(q), x)
  BY <1>1 DEF Says
<1>4. of = begun["of"] /\ known = registered[k] /\ known2 = registered'[k]
  OBVIOUS
<1> HIDE DEF q, of, known, known2
<1>5. /\ RemovedLast(Tail(q)) /\ AddedFirst(Tail(q), known2, OwedIds) /\ StoppedLast(Tail(q), StoppedIds)
      /\ Single(Tail(q)) /\ OwnersOnly(Tail(q), of)
      /\ Owes(m, OwedIds) => known[m.client] # None
      /\ \A id \in StoppedIds : Starts(m, id) => Stopping(Tail(q), id)
      /\ m.op = "capabilities" => ~Saying(Tail(q), "capabilities", m.client)
      /\ \A id : Starts(m, id) => ~Starting(Tail(q), id)
      /\ m.op \in SessionOps => m.client = of[m.id]
  <2> DEFINE o == OwedIds
             s == StoppedIds
  <2>1. q \in Seq(RegMsg) /\ q # <<>> /\ AddedFirst(q, known, o) /\ StoppedLast(q, s)
    BY <1>1, <1>2
  <2> HIDE DEF o, s
  <2>2. /\ RemovedLast(Tail(q)) /\ AddedFirst(Tail(q), known2, o) /\ StoppedLast(Tail(q), s)
        /\ Single(Tail(q)) /\ OwnersOnly(Tail(q), of)
        /\ Head(q).op = "remove" => ~Mentions(Tail(q), Head(q).client)
        /\ Owes(Head(q), o) => known[Head(q).client] # None
        /\ \A id \in s : Starts(Head(q), id) => Stopping(Tail(q), id)
        /\ Head(q).op = "capabilities" => ~Saying(Tail(q), "capabilities", Head(q).client)
        /\ \A id : Starts(Head(q), id) => ~Starting(Tail(q), id)
        /\ Head(q).op \in SessionOps => Head(q).client = of[Head(q).id]
    BY ONLY <1>2, <1>3, <2>1, OrderShrinks
  <2> QED  BY <1>1, <2>2 DEF o, s
<1>6. ASSUME NEW l \in Registry!Adapters PROVE InOrder(adapterQueues[l], registered[l])'
  <2> SUFFICES /\ RemovedLast(adapterQueues'[l]) /\ AddedFirst(adapterQueues'[l], registered'[l], OwedIds)
               /\ StoppedLast(adapterQueues'[l], StoppedIds) /\ Single(adapterQueues'[l])
               /\ OwnersOnly(adapterQueues'[l], begun["of"])
    BY <1>1 DEF InOrder
  <2>1. CASE l = k
    BY <1>1, <1>4, <1>5, <2>1
  <2>2. CASE l # k
    BY <1>1, <2>2 DEF InOrder
  <2> QED  BY <2>1, <2>2
<1>7. m.op = "capabilities" => registered[k][m.client] # None /\ ~Saying(adapterQueues'[k], "capabilities", m.client)
  BY <1>1, <1>4, <1>5 DEF Owes
<1>8. m.op \in {"start", "startBatching"} =>
        /\ m.id \in OwedIds => registered[k][m.client] # None
        /\ m.id \in StoppedIds => Stopping(adapterQueues'[k], m.id)
        /\ ~Starting(adapterQueues'[k], m.id)
  BY <1>1, <1>4, <1>5 DEF Owes, Starts
<1> QED
  BY <1>4, <1>5, <1>6, <1>7, <1>8

LEMMA MsgFields ==
  ASSUME NEW m \in RegMsg
  PROVE  /\ m.client \in LocationApis /\ (m.op = "add" => m.cbs \in ApiCallbacks)
         /\ m.op \in SessionOps => m.id \in Registry!Ids
         /\ m.op \in {"add", "capabilities", "remove"} \cup SessionOps
  BY DEF RegMsg, SessionOps

\* A message about a session is nothing to the clients.
LEMMA ClientsKept ==
  ASSUME RegInv, NEW k \in Registry!Adapters, NEW m, Taken(k, m), m.op \in SessionOps,
         UNCHANGED <<registered, caps>>
  PROVE  NotYet' /\ Membership' /\ Departure' /\ CapsOnce' /\ CapsCome'
<1> DEFINE q == adapterQueues
           p == adapterQueues'
<1>1. RegTypes /\ NotYet /\ Membership /\ Departure /\ CapsOnce /\ CapsCome
  BY DEF RegInv
<1>2. /\ \A l \in Registry!Adapters : \A x :
           /\ Mentions(p[l], x) => Mentions(q[l], x)
           /\ Saying(p[l], "add", x) <=> Saying(q[l], "add", x)
           /\ Saying(p[l], "remove", x) <=> Saying(q[l], "remove", x)
           /\ Saying(p[l], "capabilities", x) <=> Saying(q[l], "capabilities", x)
      /\ UNCHANGED <<interface, clientData, begun, shrunk>>
  BY DEF Taken, SessionOps
<1>3. NotYet'
  BY <1>1, <1>2 DEF NotYet, Alive
<1>4. \A l \in Registry!Adapters, x \in LocationApis : Member(l, x)' <=> Member(l, x)
  BY <1>2 DEF Member
<1>5. Membership' /\ Departure'
  BY <1>1, <1>2, <1>4 DEF Membership, Departure, Alive
<1>6. \A l \in Registry!Adapters, x \in LocationApis : Asking(l, x)' <=> Asking(l, x)
  BY <1>2 DEF Asking
<1>7. CapsOnce' /\ CapsCome'
  BY <1>1, <1>2, <1>4, <1>6 DEF CapsOnce, CapsCome, Alive
<1> QED
  BY <1>3, <1>5, <1>7

\* A message about a client is nothing to the sessions, but that some may end with it.
LEMMA SessionsKept ==
  ASSUME RegInv, NEW k \in Registry!Adapters, NEW m, Taken(k, m), m.op \in {"add", "capabilities", "remove"},
         UNCHANGED answers, sessions' \subseteq sessions, \A s \in sessions' : registered'[s.kind][s.client] # None
  PROVE  IdsGiven' /\ StopsArrive' /\ StartedOnce' /\ AnswersCounted'
<1> DEFINE q == adapterQueues
           p == adapterQueues'
<1>1. RegTypes /\ IdsGiven /\ StopsArrive /\ StartedOnce /\ AnswersCounted
  BY DEF RegInv
<1>2. /\ \A l \in Registry!Adapters : \A x :
           /\ Starting(p[l], x) <=> Starting(q[l], x)
           /\ Stopping(p[l], x) <=> Stopping(q[l], x)
      /\ UNCHANGED <<interface, lastId, begun>> /\ OwedIds' = OwedIds /\ StoppedIds' = StoppedIds
  BY DEF Taken
<1>3. \A l, x : Running(l, x)' => Running(l, x)
  BY DEF Running
<1>4. IdsGiven'
  BY <1>1, <1>2 DEF IdsGiven
<1>5. StopsArrive'
  BY <1>1, <1>2, <1>3 DEF StopsArrive, Routed
<1>6. StartedOnce'
  BY <1>1, <1>2, <1>3 DEF StartedOnce
<1>7. AnswersCounted'
  BY <1>1, <1>2, <1>3 DEF AnswersCounted
<1> QED
  BY <1>4, <1>5, <1>6, <1>7

LEMMA SaveKeeps ==
  ASSUME RegInv, NEW k \in Registry!Adapters, NEW m, Taken(k, m), Registry!saveClient(k, m)
  PROVE  RegInv'
<1> DEFINE q == adapterQueues
           p == adapterQueues'
           c == m.client
<1>1. /\ RegTypes /\ NotYet /\ Membership /\ Departure /\ CapsOnce /\ CapsCome /\ IdsGiven
      /\ \A l \in Registry!Adapters : InOrder(adapterQueues[l], registered[l])
  BY DEF RegInv
<1>2. /\ m.op = "add" /\ registered' = [registered EXCEPT ![k][c] = m.cbs] /\ UNCHANGED <<sessions, answers, caps>>
  BY DEF Registry!saveClient
<1>3. c \in LocationApis /\ m.cbs \in ApiCallbacks /\ m.cbs # None
  BY <1>2, MsgFields, RegAssumptions DEF Taken
<1>4. /\ p \in [Registry!Adapters -> Seq(RegMsg)]
      /\ \A l \in Registry!Adapters : \A x :
           /\ Mentions(q[l], x) <=> Mentions(p[l], x) \/ (l = k /\ x = c)
           /\ Saying(q[l], "add", x) <=> Saying(p[l], "add", x) \/ (l = k /\ x = c)
           /\ Saying(p[l], "remove", x) <=> Saying(q[l], "remove", x)
           /\ Saying(p[l], "capabilities", x) <=> Saying(q[l], "capabilities", x)
      /\ UNCHANGED <<interface, clientData, lastId, begun, shrunk>>
  BY <1>2 DEF Taken
<1>5. /\ registered' \in [Registry!Adapters -> [LocationApis -> ApiCallbacks \cup {None}]]
      /\ registered'[k][c] # None
      /\ \A l \in Registry!Adapters, x \in LocationApis : l # k \/ x # c => registered'[l][x] = registered[l][x]
      /\ \A l \in Registry!Adapters : l # k => registered'[l] = registered[l]
      /\ \A x : registered[k][x] # None => registered'[k][x] # None
  BY <1>1, <1>2, <1>3 DEF RegTypes
<1> HIDE DEF c, p, q
<1>6. RegTypes'
  BY <1>1, <1>2, <1>4, <1>5 DEF RegTypes, p
<1>7. NotYet'
  <2>1. begun["used"][c]
    BY <1>1, <1>3, <1>4 DEF NotYet, q
  <2> QED  BY <1>1, <1>2, <1>4, <1>5, <2>1 DEF NotYet, Alive, p, q
<1>8. \A l \in Registry!Adapters, x \in LocationApis : Member(l, x)' <=> Member(l, x)
  <2> TAKE l \in Registry!Adapters, x \in LocationApis
  <2>1. CASE l = k /\ x = c
    BY <1>4, <1>5, <2>1 DEF Member, q
  <2>2. CASE l # k \/ x # c
    BY <1>4, <1>5, <2>2 DEF Member, p, q
  <2> QED  BY <2>1, <2>2
<1>9. Membership' /\ Departure'
  BY <1>1, <1>4, <1>8 DEF Membership, Departure, Alive, p, q
<1>10. \A l \in Registry!Adapters, x \in LocationApis : Asking(l, x)' <=> Asking(l, x)
  BY <1>4 DEF Asking, p, q
<1>11. CapsOnce' /\ CapsCome'
  BY <1>1, <1>2, <1>4, <1>8, <1>10 DEF CapsOnce, CapsCome, Alive
<1>12. \A l \in Registry!Adapters : InOrder(adapterQueues[l], registered[l])'
  <2>1. \A x : registered[k][x] # None \/ (m.op = "add" /\ m.client = x) =>
               registered'[k][x] # None \/ ~Mentions(adapterQueues'[k], x)
    BY <1>5 DEF c
  <2> QED  BY <1>1, <1>5, <2>1, OrderLeft
<1>13. IdsGiven' /\ StopsArrive' /\ StartedOnce' /\ AnswersCounted'
  <2>1. \A s \in sessions' : registered'[s.kind][s.client] # None
    <3>1. \A s \in sessions : s.kind \in Registry!Adapters /\ s.client \in LocationApis /\ registered[s.kind][s.client] # None
      BY <1>1 DEF IdsGiven, RegTypes
    <3> QED  BY <1>2, <1>5, <3>1
  <2> QED  BY <1>2, <2>1, SessionsKept
<1> QED
  BY <1>6, <1>7, <1>9, <1>11, <1>12, <1>13 DEF RegInv

LEMMA CapabilitiesKeep ==
  ASSUME RegInv, NEW k \in Registry!Adapters, NEW m, Taken(k, m), Registry!requestCapabilities(k, m)
  PROVE  RegInv'
<1> DEFINE q == adapterQueues
           p == adapterQueues'
           c == m.client
<1>1. /\ RegTypes /\ NotYet /\ Membership /\ Departure /\ CapsOnce /\ CapsCome /\ IdsGiven
      /\ \A l \in Registry!Adapters : InOrder(adapterQueues[l], registered[l])
  BY DEF RegInv
<1>2. /\ m.op = "capabilities" /\ UNCHANGED <<registered, sessions, answers>>
      /\ caps' = IF registered[k][c] # None THEN [caps EXCEPT ![c] = @ + 1] ELSE caps
  BY DEF Registry!requestCapabilities
<1>3. c \in LocationApis
  BY MsgFields DEF Taken
<1>4. /\ p \in [Registry!Adapters -> Seq(RegMsg)]
      /\ \A l \in Registry!Adapters : \A x :
           /\ Mentions(q[l], x) <=> Mentions(p[l], x) \/ (l = k /\ x = c)
           /\ Saying(p[l], "add", x) <=> Saying(q[l], "add", x)
           /\ Saying(p[l], "remove", x) <=> Saying(q[l], "remove", x)
           /\ Saying(q[l], "capabilities", x) <=> Saying(p[l], "capabilities", x) \/ (l = k /\ x = c)
      /\ UNCHANGED <<interface, clientData, lastId, begun, shrunk>>
  BY <1>2 DEF Taken
<1>5. /\ \A l \in Registry!Adapters : InOrder(adapterQueues[l], registered[l])'
      /\ registered[k][c] # None /\ ~Saying(p[k], "capabilities", c)
  BY <1>1, <1>2, OrderLeft
<1> HIDE DEF c, p, q
<1>6. \A l \in Registry!Adapters, x \in LocationApis : Asking(l, x) <=> Asking(l, x)' \/ (l = k /\ x = c)
  BY <1>4 DEF Asking, p, q
<1>7. caps[c] = 0 /\ \A l \in Registry!Adapters : ~Asking(l, c)'
  <2>1. Asking(k, c) /\ ~Asking(k, c)'
    BY <1>3, <1>5, <1>6 DEF Asking, p, q
  <2> QED  BY <1>1, <1>3, <1>6, <2>1 DEF CapsOnce
<1>8. /\ caps' \in [LocationApis -> Nat] /\ caps'[c] = 1 /\ \A x \in LocationApis : x # c => caps'[x] = caps[x]
  BY <1>1, <1>2, <1>3, <1>5, <1>7 DEF RegTypes
<1>9. RegTypes'
  BY <1>1, <1>2, <1>4, <1>8 DEF RegTypes, p
<1>10. NotYet'
  <2>1. begun["used"][c]
    BY <1>1, <1>3, <1>4 DEF NotYet, q
  <2> QED  BY <1>1, <1>2, <1>4, <1>8, <2>1 DEF NotYet, Alive, p, q
<1>11. \A l \in Registry!Adapters, x \in LocationApis : Member(l, x)' <=> Member(l, x)
  BY <1>2, <1>4 DEF Member, p, q
<1>12. Membership' /\ Departure'
  BY <1>1, <1>4, <1>11 DEF Membership, Departure, Alive, p, q
<1>13. CapsOnce'
  <2> SUFFICES ASSUME NEW x \in LocationApis
      PROVE  /\ caps'[x] <= 1
             /\ \A l \in Registry!Adapters : Asking(l, x)' => caps'[x] = 0 /\ \A n \in Registry!Adapters : Asking(n, x)' => l = n
    BY DEF CapsOnce
  <2>1. CASE x = c
    BY <1>7, <1>8, <2>1
  <2>2. CASE x # c
    BY <1>1, <1>6, <1>8, <2>2 DEF CapsOnce
  <2> QED  BY <2>1, <2>2
<1>14. CapsCome'
  <2> SUFFICES ASSUME begun["updates"] = 0, NEW x \in LocationApis, Alive(x), NEW l \in Registry!Adapters, Member(l, x)
      PROVE  caps'[x] = 1 \/ \E n \in Registry!Adapters : Asking(n, x)'
    BY <1>4, <1>11 DEF CapsCome, Alive
  <2>1. CASE x = c
    BY <1>8, <2>1
  <2>2. CASE x # c
    BY <1>1, <1>6, <1>8, <2>2 DEF CapsCome
  <2> QED  BY <2>1, <2>2
<1>15. IdsGiven' /\ StopsArrive' /\ StartedOnce' /\ AnswersCounted'
  <2>1. \A s \in sessions' : registered'[s.kind][s.client] # None
    BY <1>1, <1>2 DEF IdsGiven
  <2> QED  BY <1>2, <2>1, SessionsKept
<1> QED
  BY <1>5, <1>9, <1>10, <1>12, <1>13, <1>14, <1>15 DEF RegInv

LEMMA EraseKeeps ==
  ASSUME RegInv, NEW k \in Registry!Adapters, NEW m, Taken(k, m), Registry!eraseClient(k, m)
  PROVE  RegInv'
<1> DEFINE q == adapterQueues
           p == adapterQueues'
           c == m.client
<1>1. /\ RegTypes /\ NotYet /\ Membership /\ Departure /\ CapsOnce /\ CapsCome /\ IdsGiven
      /\ \A l \in Registry!Adapters : InOrder(adapterQueues[l], registered[l])
  BY DEF RegInv
<1>2. /\ m.op = "remove" /\ registered' = [registered EXCEPT ![k][c] = None]
      /\ sessions' = {s \in sessions : ~(s.kind = k /\ s.client = c)} /\ UNCHANGED <<answers, caps>>
  BY DEF Registry!eraseClient
<1>3. c \in LocationApis
  BY MsgFields DEF Taken
<1>4. /\ p \in [Registry!Adapters -> Seq(RegMsg)]
      /\ \A l \in Registry!Adapters : \A x :
           /\ Mentions(q[l], x) <=> Mentions(p[l], x) \/ (l = k /\ x = c)
           /\ Saying(p[l], "add", x) <=> Saying(q[l], "add", x)
           /\ Saying(q[l], "remove", x) <=> Saying(p[l], "remove", x) \/ (l = k /\ x = c)
           /\ Saying(p[l], "capabilities", x) <=> Saying(q[l], "capabilities", x)
      /\ UNCHANGED <<interface, clientData, lastId, begun, shrunk>>
  BY <1>2 DEF Taken
<1>5. /\ registered' \in [Registry!Adapters -> [LocationApis -> ApiCallbacks \cup {None}]]
      /\ registered'[k][c] = None
      /\ \A l \in Registry!Adapters, x \in LocationApis : l # k \/ x # c => registered'[l][x] = registered[l][x]
      /\ \A l \in Registry!Adapters : l # k => registered'[l] = registered[l]
      /\ \A x : registered[k][x] # None /\ x # c => registered'[k][x] # None
  BY <1>1, <1>2, <1>3 DEF RegTypes
\* It is the last message about the client.
<1>6. ~Mentions(p[k], c) /\ ~Saying(p[k], "add", c)
  <2> DEFINE r == adapterQueues[k]
  <2>1. r \in Seq(RegMsg) /\ r # <<>> /\ RemovedLast(r) /\ m = Head(r) /\ p[k] = Tail(r)
    BY <1>1 DEF RegTypes, Taken, InOrder
  <2> HIDE DEF r
  <2>2. ~Mentions(Tail(r), Head(r).client)
    BY <1>2, <2>1, NothingAfterRemoval
  <2>3. ~Mentions(p[k], c)
    BY <2>1, <2>2
  <2> QED  BY <2>3, SayingMentions
<1> HIDE DEF c, p, q
<1>7. ~Alive(c) /\ begun["used"][c]
  BY <1>1, <1>3, <1>4 DEF NotYet, q
<1>8. RegTypes'
  BY <1>1, <1>2, <1>4, <1>5 DEF RegTypes, p
<1>9. NotYet'
  BY <1>1, <1>2, <1>4, <1>5, <1>7 DEF NotYet, Alive, p, q
<1>10. /\ ~Member(k, c)'
       /\ \A l \in Registry!Adapters, x \in LocationApis : l # k \/ x # c => (Member(l, x)' <=> Member(l, x))
  BY <1>4, <1>5, <1>6 DEF Member, p, q
<1>11. Membership'
  <2>1. \A x \in LocationApis : Alive(x)' => Alive(x) /\ x # c
    BY <1>4, <1>7 DEF Alive
  <2> QED  BY <1>1, <1>4, <1>10, <2>1 DEF Membership
<1>12. Departure'
  <2> SUFFICES ASSUME NEW x \in LocationApis, NEW l \in Registry!Adapters, x \notin shrunk, ~Alive(x), Member(l, x)'
               PROVE  Saying(p[l], "remove", x)
    BY <1>4 DEF Departure, Alive, p
  <2>1. l # k \/ x # c
    BY <1>10
  <2>2. Saying(q[l], "remove", x)
    BY <1>1, <1>10, <2>1 DEF Departure, q
  <2> QED  BY <1>4, <2>1, <2>2
<1>13. \A l \in Registry!Adapters, x \in LocationApis : Asking(l, x)' <=> Asking(l, x)
  BY <1>4 DEF Asking, p, q
<1>14. CapsOnce'
  BY <1>1, <1>2, <1>13 DEF CapsOnce
<1>15. CapsCome'
  <2> SUFFICES ASSUME begun["updates"] = 0, NEW x \in LocationApis, Alive(x), NEW l \in Registry!Adapters, Member(l, x)'
      PROVE  caps[x] = 1 \/ \E n \in Registry!Adapters : Asking(n, x)
    BY <1>2, <1>4, <1>13 DEF CapsCome, Alive
  <2>1. Member(l, x)
    BY <1>7, <1>10
  <2> QED  BY <1>1, <2>1 DEF CapsCome
<1>16. \A l \in Registry!Adapters : InOrder(adapterQueues[l], registered[l])'
  <2>1. \A x : registered[k][x] # None \/ (m.op = "add" /\ m.client = x) =>
               registered'[k][x] # None \/ ~Mentions(adapterQueues'[k], x)
    BY <1>2, <1>5, <1>6 DEF p
  <2> QED  BY <1>1, <1>5, <2>1, OrderLeft
<1>17. IdsGiven' /\ StopsArrive' /\ StartedOnce' /\ AnswersCounted'
  <2>1. \A s \in sessions' : registered'[s.kind][s.client] # None
    <3>1. \A s \in sessions : s.kind \in Registry!Adapters /\ s.client \in LocationApis /\ registered[s.kind][s.client] # None
      BY <1>1 DEF IdsGiven, RegTypes
    <3> QED  BY <1>2, <1>5, <3>1
  <2>2. sessions' \subseteq sessions
    BY <1>2
  <2> QED  BY <1>2, <2>1, <2>2, SessionsKept
<1> QED
  BY <1>8, <1>9, <1>11, <1>12, <1>14, <1>15, <1>16, <1>17 DEF RegInv

\* A start finds the session started nowhere, and unanswered.
LEMMA StartKeeps ==
  ASSUME RegInv, NEW k \in Registry!Adapters, NEW m, Taken(k, m), Registry!startSession(k, m)
  PROVE  RegInv'
<1> DEFINE q == adapterQueues
           p == adapterQueues'
           c == m.client
           id == m.id
<1>1. /\ RegTypes /\ IdsGiven /\ StopsArrive /\ StartedOnce /\ AnswersCounted
      /\ \A l \in Registry!Adapters : InOrder(adapterQueues[l], registered[l])
  BY DEF RegInv
<1>2. /\ m.op \in {"start", "startBatching"} /\ UNCHANGED <<registered, caps>>
      /\ sessions' = sessions \/ (sessions' = sessions \cup {Registry!session(k, m)} /\ registered[k][c] # None)
      /\ answers' = IF registered[k][c] # None THEN [answers EXCEPT ![id] = @ + 1] ELSE answers
  BY DEF Registry!startSession, Registry!hasCallback, Registry!respond
<1>3. c \in LocationApis /\ id \in Registry!Ids /\ m.op \in SessionOps
  BY <1>2, MsgFields DEF Taken, SessionOps
<1>4. /\ p \in [Registry!Adapters -> Seq(RegMsg)]
      /\ \A l \in Registry!Adapters : \A x :
           /\ Starting(q[l], x) <=> Starting(p[l], x) \/ (l = k /\ x = id)
           /\ Stopping(p[l], x) <=> Stopping(q[l], x)
      /\ UNCHANGED <<interface, clientData, lastId, begun, shrunk>> /\ OwedIds' = OwedIds /\ StoppedIds' = StoppedIds
  BY <1>2 DEF Taken
<1>5. /\ \A l \in Registry!Adapters : InOrder(adapterQueues[l], registered[l])'
      /\ id \in OwedIds => registered[k][c] # None
      /\ id \in StoppedIds => Stopping(p[k], id)
      /\ ~Starting(p[k], id) /\ c = begun["of"][id]
  <2>1. \A x : registered[k][x] # None \/ (m.op = "add" /\ m.client = x) =>
               registered'[k][x] # None \/ ~Mentions(adapterQueues'[k], x)
    BY <1>2
  <2> QED  BY <1>1, <1>2, <1>3, <2>1, OrderLeft
<1>6. NotYet' /\ Membership' /\ Departure' /\ CapsOnce' /\ CapsCome'
  BY <1>2, <1>3, ClientsKept
<1>7. Registry!session(k, m) = [id |-> id, client |-> c, kind |-> k]
  BY DEF Registry!session
<1> HIDE DEF c, id, p, q
<1>8. /\ \A l, x : Running(l, x) => Running(l, x)'
      /\ \A l, x : Running(l, x)' => Running(l, x) \/ (l = k /\ x = id)
  BY <1>2, <1>7 DEF Running
<1>9. Starting(q[k], id)
  BY <1>4
<1>10. /\ answers[id] = 0 /\ id <= lastId /\ Routed(k, id)
       /\ \A l \in Registry!Adapters : ~Running(l, id) /\ ~Starting(p[l], id)
  <2>1. answers[id] = 0 /\ id <= lastId /\ Routed(k, id)
    BY <1>1, <1>3, <1>9 DEF AnswersCounted, IdsGiven, StopsArrive, q
  <2>2. ASSUME NEW l \in Registry!Adapters PROVE ~Running(l, id) /\ ~Starting(p[l], id)
    <3>1. Running(l, id) \/ Starting(q[l], id) => k = l
      BY <1>1, <1>3, <1>9 DEF StartedOnce, q
    <3>2. ~Running(k, id)
      BY <1>1, <1>3, <1>9 DEF StartedOnce, q
    <3> QED  BY <1>4, <1>5, <3>1, <3>2
  <2> QED  BY <2>1, <2>2
<1>11. /\ answers' \in [Registry!Ids -> Nat] /\ answers'[id] = IF registered[k][c] # None THEN 1 ELSE 0
       /\ \A x \in Registry!Ids : x # id => answers'[x] = answers[x]
  BY <1>1, <1>2, <1>3, <1>10 DEF RegTypes
<1>12. RegTypes'
  <2>1. sessions' \subseteq [id : Registry!Ids, client : LocationApis, kind : Registry!Adapters]
    BY <1>1, <1>2, <1>3, <1>7 DEF RegTypes
  <2> QED  BY <1>1, <1>2, <1>4, <1>11, <2>1 DEF RegTypes, p
<1>13. IdsGiven'
  <2>1. \A x \in Registry!Ids : x > lastId => x \notin StoppedIds /\ x \notin OwedIds /\ answers'[x] = 0 /\ begun["of"][x] = None
    <3>1. ~(id > lastId)
      BY <1>1, <1>3, <1>10, RegAssumptions DEF RegTypes, Registry!Ids
    <3> QED  BY <1>1, <1>11, <3>1 DEF IdsGiven
  <2>2. \A x \in Registry!Ids : \A l \in Registry!Adapters : Starting(p[l], x) \/ Stopping(p[l], x) => x <= lastId
    BY <1>1, <1>4 DEF IdsGiven, q
  <2>3. \A s \in sessions' : s.id <= lastId /\ s.client = begun["of"][s.id] /\ registered[s.kind][s.client] # None
    BY <1>1, <1>2, <1>5, <1>7, <1>10 DEF IdsGiven
  <2> QED  BY <1>2, <1>4, <2>1, <2>2, <2>3 DEF IdsGiven, p
<1>14. StopsArrive'
  <2> SUFFICES ASSUME NEW l \in Registry!Adapters, NEW x \in Registry!Ids
      PROVE  /\ Running(l, x)' \/ Starting(p[l], x) => Routed(l, x)
             /\ x \in StoppedIds /\ Running(l, x)' => Stopping(p[l], x)
             /\ Stopping(p[l], x) => x \in StoppedIds
    BY <1>4 DEF StopsArrive, Routed, p
  <2>1. CASE l = k /\ x = id
    BY <1>1, <1>3, <1>4, <1>5, <1>10, <2>1 DEF StopsArrive, q
  <2>2. CASE l # k \/ x # id
    BY <1>1, <1>4, <1>8, <2>2 DEF StopsArrive, q
  <2> QED  BY <2>1, <2>2
<1>15. StartedOnce'
  <2> SUFFICES ASSUME NEW l \in Registry!Adapters, NEW x \in Registry!Ids, Running(l, x)' \/ Starting(p[l], x)
      PROVE  /\ \A n \in Registry!Adapters : Running(n, x)' \/ Starting(p[n], x) => l = n
             /\ ~(Running(l, x)' /\ Starting(p[l], x))
    BY DEF StartedOnce, p
  <2>1. CASE x = id
    BY <1>8, <1>10, <2>1
  <2>2. CASE x # id
    BY <1>1, <1>4, <1>8, <2>2 DEF StartedOnce, q
  <2> QED  BY <2>1, <2>2
<1>16. AnswersCounted'
  <2> SUFFICES ASSUME NEW x \in Registry!Ids
      PROVE  /\ answers'[x] <= IF x \in StoppedIds THEN 2 ELSE 1
             /\ x \in OwedIds => answers'[x] > 0 \/ \E l \in Registry!Adapters : Starting(p[l], x)
             /\ \A l \in Registry!Adapters : /\ Running(l, x)' => answers'[x] <= 1
                                             /\ Starting(p[l], x) => answers'[x] = 0
    BY <1>4 DEF AnswersCounted, p
  <2>1. CASE x = id
    <3>1. answers'[x] <= 1 /\ (answers'[x] <= IF x \in StoppedIds THEN 2 ELSE 1) /\ (x \in OwedIds => answers'[x] > 0)
      BY <1>5, <1>11, <2>1
    <3> QED  BY <1>10, <2>1, <3>1
  <2>2. CASE x # id
    BY <1>1, <1>4, <1>8, <1>11, <2>2 DEF AnswersCounted, q
  <2> QED  BY <2>1, <2>2
<1> QED
  BY <1>5, <1>6, <1>12, <1>13, <1>14, <1>15, <1>16 DEF RegInv

\* A stop finds the session in one adapter at most, and only there it is answered.
LEMMA StopHandledKeeps ==
  ASSUME RegInv, NEW k \in Registry!Adapters, NEW m, Taken(k, m), Registry!stopSession(k, m)
  PROVE  RegInv'
<1> DEFINE q == adapterQueues
           p == adapterQueues'
           c == m.client
           id == m.id
           mine == Registry!session(k, m) \in sessions
<1>1. /\ RegTypes /\ IdsGiven /\ StopsArrive /\ StartedOnce /\ AnswersCounted
      /\ \A l \in Registry!Adapters : InOrder(adapterQueues[l], registered[l])
  BY DEF RegInv
<1>2. /\ m.op \in {"stop", "stopBatching"} /\ UNCHANGED <<registered, caps>>
      /\ sessions' = sessions \ {Registry!session(k, m)}
      /\ answers' = answers \/ (mine /\ answers' = [answers EXCEPT ![id] = @ + 1])
  BY DEF Registry!stopSession, Registry!respond
<1>3. c \in LocationApis /\ id \in Registry!Ids /\ m.op \in SessionOps
  BY <1>2, MsgFields DEF Taken, SessionOps
<1>4. /\ p \in [Registry!Adapters -> Seq(RegMsg)]
      /\ \A l \in Registry!Adapters : \A x :
           /\ Starting(p[l], x) <=> Starting(q[l], x)
           /\ Stopping(q[l], x) <=> Stopping(p[l], x) \/ (l = k /\ x = id)
      /\ UNCHANGED <<interface, clientData, lastId, begun, shrunk>> /\ OwedIds' = OwedIds /\ StoppedIds' = StoppedIds
  BY <1>2 DEF Taken
<1>5. (\A l \in Registry!Adapters : InOrder(adapterQueues[l], registered[l])') /\ c = begun["of"][id]
  <2>1. \A x : registered[k][x] # None \/ (m.op = "add" /\ m.client = x) =>
               registered'[k][x] # None \/ ~Mentions(adapterQueues'[k], x)
    BY <1>2
  <2> QED  BY <1>1, <1>2, <1>3, <2>1, OrderLeft
<1>6. NotYet' /\ Membership' /\ Departure' /\ CapsOnce' /\ CapsCome'
  BY <1>2, <1>3, ClientsKept
<1>7. Registry!session(k, m) = [id |-> id, client |-> c, kind |-> k]
  BY DEF Registry!session
<1>8. id \in StoppedIds /\ id <= lastId
  BY <1>1, <1>3, <1>4 DEF StopsArrive, IdsGiven
<1> HIDE DEF c, id, p, q
<1>9. /\ \A l, x : Running(l, x)' => Running(l, x) /\ ~(l = k /\ x = id)
      /\ mine => Running(k, id)
  <2>1. \A s \in sessions : s.kind = k /\ s.id = id => s = Registry!session(k, m)
    BY <1>1, <1>5, <1>7 DEF IdsGiven, RegTypes
  <2>2. \A l, x : Running(l, x)' => Running(l, x) /\ ~(l = k /\ x = id)
    BY <1>2, <2>1 DEF Running
  <2>3. mine => Running(k, id)
    BY <1>7 DEF Running
  <2> QED  BY <2>2, <2>3
<1>10. RegTypes'
  <2>1. answers' \in [Registry!Ids -> Nat]
    BY <1>1, <1>2, <1>3 DEF RegTypes
  <2> QED  BY <1>1, <1>2, <1>4, <2>1 DEF RegTypes, p
<1>11. \A x \in Registry!Ids : x # id => answers'[x] = answers[x]
  BY <1>1, <1>2, <1>3 DEF RegTypes
<1>12. IdsGiven'
  <2>1. \A x \in Registry!Ids : x > lastId => x \notin StoppedIds /\ x \notin OwedIds /\ answers'[x] = 0 /\ begun["of"][x] = None
    <3>1. ~(id > lastId)
      BY <1>1, <1>3, <1>8, RegAssumptions DEF RegTypes, Registry!Ids
    <3> QED  BY <1>1, <1>11, <3>1 DEF IdsGiven
  <2>2. \A x \in Registry!Ids : \A l \in Registry!Adapters : Starting(p[l], x) \/ Stopping(p[l], x) => x <= lastId
    BY <1>1, <1>4 DEF IdsGiven, q
  <2>3. \A s \in sessions' : s.id <= lastId /\ s.client = begun["of"][s.id] /\ registered[s.kind][s.client] # None
    BY <1>1, <1>2 DEF IdsGiven
  <2> QED  BY <1>2, <1>4, <2>1, <2>2, <2>3 DEF IdsGiven, p
<1>13. StopsArrive'
  <2> SUFFICES ASSUME NEW l \in Registry!Adapters, NEW x \in Registry!Ids
      PROVE  /\ Running(l, x)' \/ Starting(p[l], x) => Routed(l, x)
             /\ x \in StoppedIds /\ Running(l, x)' => Stopping(p[l], x)
             /\ Stopping(p[l], x) => x \in StoppedIds
    BY <1>4 DEF StopsArrive, Routed, p
  <2> QED  BY <1>1, <1>4, <1>9 DEF StopsArrive, q
<1>14. StartedOnce'
  <2> SUFFICES ASSUME NEW l \in Registry!Adapters, NEW x \in Registry!Ids, Running(l, x)' \/ Starting(p[l], x)
      PROVE  /\ \A n \in Registry!Adapters : Running(n, x)' \/ Starting(p[n], x) => l = n
             /\ ~(Running(l, x)' /\ Starting(p[l], x))
    BY DEF StartedOnce, p
  <2> QED  BY <1>1, <1>4, <1>9 DEF StartedOnce, q
<1>15. AnswersCounted'
  <2> SUFFICES ASSUME NEW x \in Registry!Ids
      PROVE  /\ answers'[x] <= IF x \in StoppedIds THEN 2 ELSE 1
             /\ x \in OwedIds => answers'[x] > 0 \/ \E l \in Registry!Adapters : Starting(p[l], x)
             /\ \A l \in Registry!Adapters : /\ Running(l, x)' => answers'[x] <= 1
                                             /\ Starting(p[l], x) => answers'[x] = 0
    BY <1>4 DEF AnswersCounted, p
  <2>1. CASE answers'[x] = answers[x]
    BY <1>1, <1>4, <1>9, <2>1 DEF AnswersCounted, q
  <2>2. CASE answers'[x] # answers[x]
    <3>1. x = id /\ mine /\ answers'[x] = answers[x] + 1 /\ answers[x] \in Nat
      BY <1>1, <1>2, <1>3, <1>11, <2>2 DEF RegTypes
    <3>2. Running(k, x) /\ x \in StoppedIds
      BY <1>8, <1>9, <3>1
    <3>3. answers[x] <= 1
      BY <1>1, <3>2 DEF AnswersCounted
    <3>4. \A l \in Registry!Adapters : ~Running(l, x)' /\ ~Starting(p[l], x)
      <4> TAKE l \in Registry!Adapters
      <4>1. (Running(l, x) \/ Starting(q[l], x) => k = l) /\ ~Starting(q[k], x)
        BY <1>1, <3>2 DEF StartedOnce, q
      <4> QED  BY <1>4, <1>9, <3>1, <4>1
    <3>5. answers'[x] > 0 /\ answers'[x] <= 2
      BY <3>1, <3>3
    <3> QED  BY <3>2, <3>4, <3>5
  <2> QED  BY <2>1, <2>2
<1> QED
  BY <1>5, <1>6, <1>10, <1>12, <1>13, <1>14, <1>15 DEF RegInv

LEMMA MessageKeeps == ASSUME RegInv, NEW k \in Registry!Adapters, Registry!handle(k) PROVE RegInv'
<1> DEFINE m == Head(adapterQueues[k])
<1>1. Taken(k, m)
  BY TakenSays DEF RegInv
<1>2. \/ Registry!saveClient(k, m) \/ Registry!requestCapabilities(k, m) \/ Registry!eraseClient(k, m)
      \/ Registry!startSession(k, m) \/ Registry!stopSession(k, m)
  BY DEF Registry!handle
<1> HIDE DEF m
<1> QED
  BY <1>1, <1>2, SaveKeeps, CapabilitiesKeep, EraseKeeps, StartKeeps, StopHandledKeeps

LEMMA RegistryKept == RegInv /\ [Registry!Next]_(Registry!vars) => RegInv'
<1> SUFFICES ASSUME RegInv, [Registry!Next]_(Registry!vars) PROVE RegInv'
  OBVIOUS
<1>1. ASSUME NEW c \in LocationApis, NEW cbs \in ApiCallbacks, Registry!createInstance(c, cbs) PROVE RegInv'
  BY <1>1, CreateKeeps
<1>2. ASSUME NEW c \in LocationApis, NEW cbs \in ApiCallbacks, Registry!updateCallbacks(c, cbs) PROVE RegInv'
  BY <1>2, UpdateKeeps
<1>3. ASSUME NEW c \in LocationApis, Registry!destroy(c) PROVE RegInv'
  BY <1>3, DestroyKeeps
<1>4. ASSUME NEW c \in LocationApis, Registry!startBatching(c) PROVE RegInv'
  BY <1>4, AskKeeps DEF Registry!startBatching
<1>5. ASSUME NEW c \in LocationApis, NEW d \in {0, 1}, Registry!startTracking(c, d) PROVE RegInv'
  <2> DEFINE k == IF interface["flp"] = "loaded" /\ d > 0 THEN "flp"
                  ELSE IF interface["gnss"] = "loaded" /\ Registry!needsGnssTrackingInfo(clientData[c]) THEN "gnss"
                  ELSE IF interface["flp"] = "loaded" THEN "flp" ELSE "gnss"
  <2>1. clientData[c] # None /\ Registry!ask(c, k, "start")
    BY <1>5 DEF Registry!startTracking
  <2>2. k \in {"gnss", "flp"}
    OBVIOUS
  <2> HIDE DEF k
  <2> QED  BY <2>1, <2>2, AskKeeps
<1>6. ASSUME NEW c \in LocationApis, NEW id \in Registry!Ids, Registry!stop(c, id) PROVE RegInv'
  BY <1>6, StopKeeps
<1>7. ASSUME NEW k \in Registry!Adapters, Registry!handle(k) PROVE RegInv'
  BY <1>7, MessageKeeps
<1>8. CASE UNCHANGED Registry!vars
  <2>1. UNCHANGED <<interface, clientData, installed, adapterQueues, registered, sessions, lastId, begun, answers,
                    caps, shrunk>>
    BY <1>8 DEF Registry!vars
  <2>2. RegTypes' /\ NotYet' /\ (Membership /\ Departure)'
    BY <2>1 DEF RegInv, RegTypes, NotYet, Membership, Departure, Alive, Member, Registry!Loaded
  <2>3. CapsOnce' /\ CapsCome'
    BY <2>1 DEF RegInv, CapsOnce, CapsCome, Asking, Alive, Member
  <2>4. OwedIds' = OwedIds /\ StoppedIds' = StoppedIds /\ \A k, id : Running(k, id)' <=> Running(k, id)
    BY <2>1 DEF OwedIds, StoppedIds, Running
  <2>5. \A k \in Registry!Adapters : InOrder(adapterQueues[k], registered[k])'
    BY <2>1, <2>4 DEF RegInv, InOrder
  <2>6. IdsGiven' /\ StopsArrive' /\ StartedOnce' /\ AnswersCounted'
    BY <2>1, <2>4 DEF RegInv, IdsGiven, StopsArrive, StartedOnce, AnswersCounted, Routed
  <2> QED  BY <2>2, <2>3, <2>5, <2>6 DEF RegInv
<1> QED
  BY <1>1, <1>2, <1>3, <1>4, <1>5, <1>6, <1>7, <1>8 DEF Registry!Next

-----------------------------------------------------------------------------
(***************************************************************************)
(* The answers to stops.  A session that a client was owed runs until it   *)
(* is stopped, so that the stop finds it: its start finds the trackingCb   *)
(* of the client registered, whatever the client has updated since.        *)
(***************************************************************************)
\* Before message n of its queue an adapter has the trackingCb of a client.
Added(q, j, c, n) == Says(q[j], "add", c) /\ \A l \in DOMAIN q : j < l /\ l < n => ~Says(q[l], "add", c)
Tracked(q, known, c, n) ==
  \/ \E j \in DOMAIN q : j < n /\ "trackingCb" \in q[j].cbs /\ Added(q, j, c, n)
  \/ known[c] # None /\ "trackingCb" \in known[c] /\ \A l \in DOMAIN q : l < n => ~Says(q[l], "add", c)

\* So it has when it comes to a start that is owed, and behind the last message.
Owing(m, ids) == m.op \in {"start", "startBatching"} /\ m.id \in ids
Ready(q, known, ids) ==
  \A i \in DOMAIN q : Owing(q[i], ids) => q[i].op = "start" /\ Tracked(q, known, q[i].client, i)
TrackedLast(q, known, c) == Tracked(q, known, c, Len(q) + 1)

AllReady == \A k \in Registry!Adapters : Ready(adapterQueues[k], registered[k], OwedIds)
TrackersKnown ==
  \A k \in {"gnss", "flp"}, c \in LocationApis :
    Alive(c) /\ "trackingCb" \in clientData[c] /\ interface[k] = "loaded" =>
      TrackedLast(adapterQueues[k], registered[k], c)

\* A session that is owed starts or runs until it is stopped or its client is gone; a stop is answered.
Open(id) == \E k \in Registry!Adapters : Starting(adapterQueues[k], id) \/ Running(k, id)
OwedOfClients == \A id \in OwedIds : begun["of"][id] \in LocationApis /\ begun["used"][begun["of"][id]]
Settled ==
  \A id \in OwedIds : id \in StoppedIds \/ Alive(begun["of"][id]) => Open(id) \/ (id \in StoppedIds /\ answers[id] = 2)

StopInv == AllReady /\ TrackersKnown /\ OwedOfClients /\ Settled

\* A message more, a message less.
LEMMA TrackedGrows ==
  ASSUME NEW q \in Seq(RegMsg), NEW m \in RegMsg, NEW known, NEW c
  PROVE  /\ \A n \in 1..(Len(q) + 1) : Tracked(q, known, c, n) => Tracked(Append(q, m), known, c, n)
         /\ TrackedLast(q, known, c) /\ ~Says(m, "add", c) => TrackedLast(Append(q, m), known, c)
         /\ Says(m, "add", c) /\ "trackingCb" \in m.cbs => TrackedLast(Append(q, m), known, c)
<1> DEFINE p == Append(q, m)
           z == Len(q) + 1
<1>1. /\ DOMAIN p = DOMAIN q \cup {z} /\ p[z] = m /\ \A i \in DOMAIN q : p[i] = q[i] /\ i < z /\ i \in Nat
      /\ z \in Nat /\ Len(p) + 1 = z + 1 /\ z < z + 1
  OBVIOUS
<1> HIDE DEF p, z
<1>2. ASSUME NEW n \in 1..z, Tracked(q, known, c, n) PROVE Tracked(p, known, c, n)
  <2>1. ~(z < n) /\ n \in Nat
    BY <1>1
  <2>2. ASSUME NEW j \in DOMAIN q, j < n, "trackingCb" \in q[j].cbs, Added(q, j, c, n) PROVE Tracked(p, known, c, n)
    <3>1. Added(p, j, c, n)
      BY <1>1, <2>1, <2>2 DEF Added
    <3> QED  BY <1>1, <2>2, <3>1 DEF Tracked
  <2>3. ASSUME known[c] # None, "trackingCb" \in known[c], \A l \in DOMAIN q : l < n => ~Says(q[l], "add", c)
        PROVE  Tracked(p, known, c, n)
    <3>1. \A l \in DOMAIN p : l < n => ~Says(p[l], "add", c)
      BY <1>1, <2>1, <2>3
    <3> QED  BY <2>3, <3>1 DEF Tracked
  <2> QED  BY <1>2, <2>2, <2>3 DEF Tracked
<1>3. ASSUME Tracked(q, known, c, z), ~Says(m, "add", c) PROVE Tracked(p, known, c, z + 1)
  <2>1. ASSUME NEW j \in DOMAIN q, "trackingCb" \in q[j].cbs, Added(q, j, c, z) PROVE Tracked(p, known, c, z + 1)
    <3>1. Added(p, j, c, z + 1)
      <4>1. \A l \in DOMAIN p : j < l => ~Says(p[l], "add", c)
        BY <1>1, <1>3, <2>1 DEF Added
      <4> QED  BY <1>1, <2>1, <4>1 DEF Added
    <3>2. j < z + 1 /\ j \in DOMAIN p /\ p[j] = q[j]
      BY <1>1
    <3> QED  BY <2>1, <3>1, <3>2 DEF Tracked
  <2>2. ASSUME known[c] # None, "trackingCb" \in known[c], \A l \in DOMAIN q : l < z => ~Says(q[l], "add", c)
        PROVE  Tracked(p, known, c, z + 1)
    <3>1. \A l \in DOMAIN p : ~Says(p[l], "add", c)
      BY <1>1, <1>3, <2>2
    <3> QED  BY <2>2, <3>1 DEF Tracked
  <2> QED  BY <1>3, <2>1, <2>2 DEF Tracked
<1>4. ASSUME Says(m, "add", c), "trackingCb" \in m.cbs PROVE Tracked(p, known, c, z + 1)
  <2>1. \A l \in DOMAIN p : ~(z < l)
    BY <1>1
  <2>2. Added(p, z, c, z + 1)
    BY <1>1, <1>4, <2>1 DEF Added
  <2> QED  BY <1>1, <1>4, <2>2 DEF Tracked
<1> QED
  BY <1>1, <1>2, <1>3, <1>4 DEF p, z, TrackedLast

LEMMA ReadyGrows ==
  ASSUME NEW q \in Seq(RegMsg), NEW m \in RegMsg, NEW known, NEW ids, NEW ids2, Ready(q, known, ids),
         \A id : Starting(q, id) /\ id \in ids2 => id \in ids,
         Owing(m, ids2) => m.op = "start" /\ TrackedLast(q, known, m.client)
  PROVE  Ready(q, known, ids2) /\ Ready(Append(q, m), known, ids2)
<1> DEFINE p == Append(q, m)
           z == Len(q) + 1
<1>1. /\ DOMAIN p = DOMAIN q \cup {z} /\ p[z] = m /\ (\A i \in DOMAIN q : p[i] = q[i] /\ i \in 1..z) /\ z \in 1..z
  OBVIOUS
<1>2. /\ \A c : \A n \in 1..z : Tracked(q, known, c, n) => Tracked(p, known, c, n)
  BY TrackedGrows
<1> HIDE DEF p
<1>3. \A i \in DOMAIN q : Owing(q[i], ids2) => q[i].op = "start" /\ Tracked(q, known, q[i].client, i)
  <2> SUFFICES ASSUME NEW i \in DOMAIN q, Owing(q[i], ids2) PROVE Owing(q[i], ids)
    BY DEF Ready
  <2>1. Starting(q, q[i].id)
    BY DEF Owing, Starting, Starts
  <2> QED  BY <2>1 DEF Owing
<1>4. \A i \in DOMAIN p : Owing(p[i], ids2) => p[i].op = "start" /\ Tracked(p, known, p[i].client, i)
  <2> TAKE i \in DOMAIN p
  <2>1. CASE i \in DOMAIN q
    BY <1>1, <1>2, <1>3, <2>1
  <2>2. CASE i = z
    BY <1>1, <1>2, <2>2 DEF TrackedLast
  <2> QED  BY <1>1, <2>1, <2>2
<1> QED
  BY <1>3, <1>4 DEF Ready, p

LEMMA TrackedShrinks ==
  ASSUME NEW q \in Seq(RegMsg), q # <<>>, NEW known, NEW known2, NEW c, NEW n \in Nat, 1 < n, Tracked(q, known, c, n),
         Says(Head(q), "add", c) => known2[c] = Head(q).cbs /\ Head(q).cbs # None,
         ~Says(Head(q), "add", c) => known2[c] = known[c]
  PROVE  Tracked(Tail(q), known2, c, n - 1)
<1> DEFINE p == Tail(q)
           m == Head(q)
<1>1. /\ 1 \in DOMAIN q /\ q[1] = m
      /\ \A i \in DOMAIN p : i \in Nat /\ i + 1 \in DOMAIN q /\ p[i] = q[i + 1] /\ 1 < i + 1
      /\ \A i \in DOMAIN q : i \in Nat /\ (i = 1 \/ (i > 1 /\ i - 1 \in DOMAIN p /\ p[i - 1] = q[i]))
  OBVIOUS
<1>2. /\ Says(m, "add", c) => known2[c] = m.cbs /\ m.cbs # None
      /\ ~Says(m, "add", c) => known2[c] = known[c]
  OBVIOUS
<1> HIDE DEF p, m
<1>3. \A i \in DOMAIN p : i < n - 1 => i + 1 < n
  BY <1>1
<1>4. ASSUME NEW j \in DOMAIN q, j < n, "trackingCb" \in q[j].cbs, Added(q, j, c, n) PROVE Tracked(p, known2, c, n - 1)
  <2>1. CASE j = 1
    <3>1. \A l \in DOMAIN p : l < n - 1 => ~Says(p[l], "add", c)
      BY <1>1, <1>3, <1>4, <2>1 DEF Added
    <3> QED  BY <1>1, <1>2, <1>4, <2>1, <3>1 DEF Tracked, Added
  <2>2. CASE j # 1
    <3>1. j - 1 \in DOMAIN p /\ p[j - 1] = q[j] /\ j - 1 < n - 1 /\ j \in Nat
      BY <1>1, <1>4, <2>2
    <3>2. \A l \in DOMAIN p : j - 1 < l => j < l + 1
      BY <1>1, <3>1
    <3>3. Added(p, j - 1, c, n - 1)
      BY <1>1, <1>3, <1>4, <3>1, <3>2 DEF Added
    <3> QED  BY <1>4, <3>1, <3>3 DEF Tracked
  <2> QED  BY <2>1, <2>2
<1>5. ASSUME known[c] # None, "trackingCb" \in known[c], \A l \in DOMAIN q : l < n => ~Says(q[l], "add", c)
      PROVE  Tracked(p, known2, c, n - 1)
  <2>1. ~Says(m, "add", c)
    BY <1>1, <1>5
  <2>2. \A l \in DOMAIN p : l < n - 1 => ~Says(p[l], "add", c)
    BY <1>1, <1>3, <1>5
  <2> QED  BY <1>2, <1>5, <2>1, <2>2 DEF Tracked
<1> QED
  BY <1>4, <1>5 DEF Tracked, p

LEMMA ReadyShrinks ==
  ASSUME NEW q \in Seq(RegMsg), q # <<>>, NEW known, NEW known2, NEW ids, Ready(q, known, ids),
         \A c : Mentions(Tail(q), c) =>
           /\ Says(Head(q), "add", c) => known2[c] = Head(q).cbs /\ Head(q).cbs # None
           /\ ~Says(Head(q), "add", c) => known2[c] = known[c]
  PROVE  /\ Ready(Tail(q), known2, ids)
         /\ Owing(Head(q), ids) =>
              Head(q).op = "start" /\ known[Head(q).client] # None /\ "trackingCb" \in known[Head(q).client]
<1> DEFINE p == Tail(q)
           m == Head(q)
<1>1. /\ 1 \in DOMAIN q /\ q[1] = m
      /\ \A i \in DOMAIN p : i + 1 \in Nat /\ i + 1 \in DOMAIN q /\ p[i] = q[i + 1] /\ 1 < i + 1 /\ (i + 1) - 1 = i
      /\ \A i \in DOMAIN q : ~(i < 1)
  OBVIOUS
<1>2. ASSUME NEW i \in DOMAIN p, Owing(p[i], ids) PROVE p[i].op = "start" /\ Tracked(p, known2, p[i].client, i)
  <2> DEFINE n == i + 1
             c == p[i].client
  <2>1. p[i].op = "start" /\ Tracked(q, known, c, n)
    BY <1>1, <1>2 DEF Ready
  <2>2. Mentions(p, c)
    BY DEF Mentions
  <2>3. /\ Says(m, "add", c) => known2[c] = m.cbs /\ m.cbs # None
        /\ ~Says(m, "add", c) => known2[c] = known[c]
    BY <2>2
  <2>4. n \in Nat /\ 1 < n /\ n - 1 = i
    BY <1>1
  <2> HIDE DEF n, c
  <2>5. Tracked(p, known2, c, n - 1)
    BY <2>1, <2>3, <2>4, TrackedShrinks
  <2> QED  BY <2>1, <2>4, <2>5 DEF c
<1>3. ASSUME Owing(m, ids) PROVE m.op = "start" /\ known[m.client] # None /\ "trackingCb" \in known[m.client]
  <2>1. m.op = "start" /\ Tracked(q, known, m.client, 1)
    BY <1>1, <1>3 DEF Ready
  <2> QED  BY <1>1, <2>1 DEF Tracked
<1> QED
  BY <1>2, <1>3 DEF Ready

LEMMA TrackedLastShrinks ==
  ASSUME NEW q \in Seq(RegMsg), q # <<>>, NEW known, NEW known2, NEW c, TrackedLast(q, known, c),
         Says(Head(q), "add", c) => known2[c] = Head(q).cbs /\ Head(q).cbs # None,
         ~Says(Head(q), "add", c) => known2[c] = known[c]
  PROVE  TrackedLast(Tail(q), known2, c)
<1> DEFINE n == Len(q) + 1
<1>1. n \in Nat /\ 1 < n /\ n - 1 = Len(Tail(q)) + 1
  OBVIOUS
<1>2. Tracked(q, known, c, n)
  BY DEF TrackedLast
<1> HIDE DEF n
<1>3. Tracked(Tail(q), known2, c, n - 1)
  BY <1>1, <1>2, TrackedShrinks
<1> QED
  BY <1>1, <1>3 DEF TrackedLast

\* A message more to some of the adapters.
LEMMA ReadySent ==
  ASSUME NEW q \in [Registry!Adapters -> Seq(RegMsg)], NEW K \in SUBSET Registry!Adapters, NEW m \in RegMsg,
         NEW known, NEW ids, NEW ids2, \A k \in Registry!Adapters : Ready(q[k], known[k], ids),
         \A k \in Registry!Adapters : \A id : Starting(q[k], id) /\ id \in ids2 => id \in ids,
         \A k \in K : Owing(m, ids2) => m.op = "start" /\ TrackedLast(q[k], known[k], m.client)
  PROVE  \A k \in Registry!Adapters :
           /\ Ready(Sent(q, K, m)[k], known[k], ids2)
           /\ \A c : TrackedLast(q[k], known[k], c) /\ ~(k \in K /\ Says(m, "add", c)) => TrackedLast(Sent(q, K, m)[k], known[k], c)
           /\ \A c : k \in K /\ Says(m, "add", c) /\ "trackingCb" \in m.cbs => TrackedLast(Sent(q, K, m)[k], known[k], c)
<1> TAKE k \in Registry!Adapters
<1> DEFINE r == q[k]
           u == known[k]
           p == Sent(q, K, m)[k]
<1>1. r \in Seq(RegMsg) /\ p = IF k \in K THEN Append(r, m) ELSE r
  BY DEF Sent
<1>2. /\ Ready(r, u, ids) /\ (\A id : Starting(r, id) /\ id \in ids2 => id \in ids)
      /\ k \in K => (Owing(m, ids2) => m.op = "start" /\ TrackedLast(r, u, m.client))
  OBVIOUS
<1> HIDE DEF r, u, p
<1>3. CASE k \in K
  <2>1. Ready(Append(r, m), u, ids2)
    BY <1>1, <1>2, <1>3, ReadyGrows
  <2>2. \A c : /\ TrackedLast(r, u, c) /\ ~Says(m, "add", c) => TrackedLast(Append(r, m), u, c)
               /\ Says(m, "add", c) /\ "trackingCb" \in m.cbs => TrackedLast(Append(r, m), u, c)
    BY <1>1, TrackedGrows
  <2> QED  BY <1>1, <1>3, <2>1, <2>2 DEF r, u, p
<1>4. CASE k \notin K
  <2>1. Ready(r, u, ids2)
    <3> SUFFICES ASSUME NEW i \in DOMAIN r, Owing(r[i], ids2) PROVE Owing(r[i], ids)
      BY <1>2 DEF Ready
    <3>1. Starting(r, r[i].id)
      BY DEF Owing, Starting, Starts
    <3> QED  BY <1>2, <3>1 DEF Owing
  <2> QED  BY <1>1, <1>4, <2>1 DEF r, u, p
<1> QED
  BY <1>3, <1>4

\* Owed sessions stay settled when nothing but the clients changes, and no client of one comes back.
LEMMA SettledStays ==
  ASSUME Settled, UNCHANGED <<sessions, answers>>, OwedIds' = OwedIds, StoppedIds' = StoppedIds,
         begun'["of"] = begun["of"],
         \A id \in OwedIds : Alive(begun["of"][id])' => Alive(begun["of"][id]),
         \A k \in Registry!Adapters : \A id : Starting(adapterQueues'[k], id) <=> Starting(adapterQueues[k], id)
  PROVE  Settled'
<1>1. \A id \in OwedIds : Open(id)' <=> Open(id)
  BY DEF Open, Running
<1> QED
  BY <1>1 DEF Settled, Alive

LEMMA StopsStart == Registry!Init => StopInv
<1> SUFFICES ASSUME Registry!Init PROVE StopInv
  OBVIOUS
<1>1. /\ \A k \in Registry!Adapters : DOMAIN adapterQueues[k] = {}
      /\ \A c \in LocationApis : clientData[c] = None
      /\ OwedIds = {}
  BY DEF Registry!Init, OwedIds
<1> QED
  BY <1>1 DEF StopInv, AllReady, Ready, TrackersKnown, Alive, OwedOfClients, Settled

\* A client that has a trackingCb needs the two adapters that may be asked to track.
LEMMA TrackersNeeded ==
  ASSUME NEW cbs, "trackingCb" \in cbs, NEW k \in {"gnss", "flp"} PROVE k \in Registry!Adapters /\ k \in Registry!needs(cbs)
  BY DEF Registry!needs, Registry!Adapters

LEMMA UpdateSettles ==
  ASSUME RegInv, StopInv, NEW c \in LocationApis, NEW cbs \in ApiCallbacks, Registry!updateCallbacks(c, cbs)
  PROVE  StopInv'
<1> DEFINE m == [op |-> "add", client |-> c, id |-> 0, cbs |-> cbs]
           K == Registry!Loaded(interface', cbs)
           q == adapterQueues
           p == adapterQueues'
<1>1. RegTypes /\ Membership /\ AllReady /\ TrackersKnown /\ OwedOfClients /\ Settled
  BY DEF RegInv, StopInv
<1>2. /\ clientData[c] # None /\ interface' = Registry!load(cbs)
      /\ Registry!post(Registry!only(K, m))
      /\ clientData' = [clientData EXCEPT ![c] = cbs]
      /\ begun' = [begun EXCEPT !["updates"] = @ + 1]
      /\ UNCHANGED <<registered, sessions, answers>>
  BY DEF Registry!updateCallbacks, Registry!msg
<1>3. m \in RegMsg /\ m.op = "add" /\ m.client = c /\ m.cbs = cbs
  BY DEF RegMsg
<1>4. /\ K \in SUBSET Registry!Adapters
      /\ \A k \in Registry!Adapters : interface[k] # "null" => interface'[k] = interface[k]
      /\ \A k : k \in K <=> k \in Registry!needs(cbs) /\ interface'[k] = "loaded"
  BY <1>1, <1>2, LoadsOnce, LoadedIs
<1> HIDE DEF K, m
<1>5. q \in [Registry!Adapters -> Seq(RegMsg)] /\ p = Sent(q, K, m)
  BY <1>1, <1>2, <1>3, <1>4, Posts DEF RegTypes
<1>6. /\ begun'["used"] = begun["used"] /\ begun'["of"] = begun["of"]
      /\ OwedIds' = OwedIds /\ StoppedIds' = StoppedIds
  <2>1. begun \in BegunTypes
    BY <1>1 DEF RegTypes
  <2>2. begun'.used = begun.used /\ begun'.of = begun.of /\ begun'.stopped = begun.stopped /\ begun'.owed = begun.owed
    BY <1>2, <2>1, BegunUpdated
  <2> QED  BY <2>2 DEF OwedIds, StoppedIds
<1>7. /\ \A x \in LocationApis : x # c => clientData'[x] = clientData[x]
      /\ clientData'[c] = cbs /\ \A x \in LocationApis : Alive(x)' => Alive(x)
  BY <1>1, <1>2 DEF RegTypes, Alive
<1>8. \A k \in Registry!Adapters :
        /\ Ready(p[k], registered[k], OwedIds)
        /\ \A x : TrackedLast(q[k], registered[k], x) /\ ~(k \in K /\ x = c) => TrackedLast(p[k], registered[k], x)
        /\ k \in K /\ "trackingCb" \in cbs => TrackedLast(p[k], registered[k], c)
        /\ \A id : Starting(p[k], id) <=> Starting(q[k], id)
  <2> DEFINE o == OwedIds
  <2>1. ~Owing(m, o) /\ (\A x : Says(m, "add", x) <=> x = c) /\ \A id : ~Starts(m, id)
    BY <1>3 DEF Owing, Says, Starts
  <2>2. \A k \in Registry!Adapters : Ready(q[k], registered[k], o)
    BY <1>1 DEF AllReady
  <2> HIDE DEF o, p, q
  <2>3. \A k \in Registry!Adapters :
          /\ Ready(Sent(q, K, m)[k], registered[k], o)
          /\ \A x : TrackedLast(q[k], registered[k], x) /\ ~(k \in K /\ Says(m, "add", x)) =>
                      TrackedLast(Sent(q, K, m)[k], registered[k], x)
          /\ \A x : k \in K /\ Says(m, "add", x) /\ "trackingCb" \in m.cbs => TrackedLast(Sent(q, K, m)[k], registered[k], x)
    BY ONLY <1>3, <1>4, <1>5, <2>1, <2>2, ReadySent
  <2>4. \A k \in Registry!Adapters : \A id : Starting(Sent(q, K, m)[k], id) <=> Starting(q[k], id) \/ (k \in K /\ Starts(m, id))
    BY ONLY <1>3, <1>4, <1>5, SentSays
  <2> QED  BY <1>3, <1>5, <2>1, <2>3, <2>4 DEF o
<1>9. AllReady'
  BY <1>2, <1>6, <1>8 DEF AllReady
<1>10. TrackersKnown'
  <2> SUFFICES ASSUME NEW k \in {"gnss", "flp"}, NEW x \in LocationApis, Alive(x)', "trackingCb" \in clientData'[x],
                      interface'[k] = "loaded"
      PROVE  TrackedLast(p[k], registered[k], x)
    BY <1>2 DEF TrackersKnown
  <2>1. k \in Registry!Adapters /\ k \in Registry!needs(clientData'[x])
    BY TrackersNeeded
  <2>2. CASE x = c
    BY <1>4, <1>7, <1>8, <2>1, <2>2
  <2>3. CASE x # c
    <3>1. Alive(x) /\ clientData'[x] = clientData[x]
      BY <1>7, <2>3
    <3>2. interface[k] = "loaded"
      BY <1>1, <1>4, <2>1, <3>1 DEF Membership
    <3> QED  BY <1>1, <1>8, <2>1, <2>3, <3>1, <3>2 DEF TrackersKnown
  <2> QED  BY <2>2, <2>3
<1>11. OwedOfClients'
  BY <1>1, <1>6 DEF OwedOfClients
<1>12. Settled'
  <2>1. \A id \in OwedIds : Alive(begun["of"][id])' => Alive(begun["of"][id])
    BY <1>1, <1>6, <1>7 DEF OwedOfClients, Alive
  <2> QED  BY <1>1, <1>2, <1>6, <1>8, <2>1, SettledStays
<1> QED
  BY <1>9, <1>10, <1>11, <1>12 DEF StopInv

LEMMA DestroySettles ==
  ASSUME RegInv, StopInv, NEW c \in LocationApis, Registry!destroy(c) PROVE StopInv'
<1> DEFINE m == [op |-> "remove", client |-> c, id |-> 0, cbs |-> {}]
           K == Registry!Loaded(interface, clientData[c])
           q == adapterQueues
           p == adapterQueues'
<1>1. RegTypes /\ AllReady /\ TrackersKnown /\ OwedOfClients /\ Settled
  BY DEF RegInv, StopInv
<1>2. /\ Registry!post(Registry!only(K, m))
      /\ clientData' = [clientData EXCEPT ![c] = None]
      /\ UNCHANGED <<interface, registered, sessions, begun, answers>>
  BY DEF Registry!destroy, Registry!msg, Registry!removedFrom
<1>3. m \in RegMsg /\ m.op = "remove"
  BY DEF RegMsg
<1>4. K \in SUBSET Registry!Adapters
  BY DEF Registry!Loaded, Registry!needs
<1> HIDE DEF K, m
<1>5. q \in [Registry!Adapters -> Seq(RegMsg)] /\ p = Sent(q, K, m)
  BY <1>1, <1>2, <1>3, <1>4, Posts DEF RegTypes
<1>6. OwedIds' = OwedIds /\ StoppedIds' = StoppedIds
  BY <1>2 DEF OwedIds, StoppedIds
<1>7. \A x \in LocationApis : Alive(x)' => Alive(x) /\ clientData'[x] = clientData[x]
  BY <1>1, <1>2 DEF RegTypes, Alive
<1>8. \A k \in Registry!Adapters :
        /\ Ready(p[k], registered[k], OwedIds)
        /\ \A x : TrackedLast(q[k], registered[k], x) => TrackedLast(p[k], registered[k], x)
        /\ \A id : Starting(p[k], id) <=> Starting(q[k], id)
  <2> DEFINE o == OwedIds
  <2>1. ~Owing(m, o) /\ (\A x : ~Says(m, "add", x)) /\ \A id : ~Starts(m, id)
    BY <1>3 DEF Owing, Says, Starts
  <2>2. \A k \in Registry!Adapters : Ready(q[k], registered[k], o)
    BY <1>1 DEF AllReady
  <2> HIDE DEF o, p, q
  <2>3. \A k \in Registry!Adapters :
          /\ Ready(Sent(q, K, m)[k], registered[k], o)
          /\ \A x : TrackedLast(q[k], registered[k], x) /\ ~(k \in K /\ Says(m, "add", x)) =>
                      TrackedLast(Sent(q, K, m)[k], registered[k], x)
    BY ONLY <1>3, <1>4, <1>5, <2>1, <2>2, ReadySent
  <2>4. \A k \in Registry!Adapters : \A id : Starting(Sent(q, K, m)[k], id) <=> Starting(q[k], id) \/ (k \in K /\ Starts(m, id))
    BY ONLY <1>3, <1>4, <1>5, SentSays
  <2> QED  BY <1>5, <2>1, <2>3, <2>4 DEF o
<1>9. AllReady'
  BY <1>2, <1>6, <1>8 DEF AllReady
<1>10. TrackersKnown'
  <2> SUFFICES ASSUME NEW k \in {"gnss", "flp"}, NEW x \in LocationApis, Alive(x)', "trackingCb" \in clientData'[x],
                      interface[k] = "loaded"
      PROVE  TrackedLast(p[k], registered[k], x)
    BY <1>2 DEF TrackersKnown
  <2>1. k \in Registry!Adapters
    BY TrackersNeeded
  <2> QED  BY <1>1, <1>7, <1>8, <2>1 DEF TrackersKnown
<1>11. OwedOfClients'
  BY <1>1, <1>2, <1>6 DEF OwedOfClients
<1>12. Settled'
  <2>1. \A id \in OwedIds : Alive(begun["of"][id])' => Alive(begun["of"][id])
    BY <1>1, <1>2, <1>7 DEF OwedOfClients, Alive
  <2> QED  BY <1>1, <1>2, <1>6, <1>8, <2>1, SettledStays
<1> QED
  BY <1>9, <1>10, <1>11, <1>12 DEF StopInv

\* No session is owed to a client that is only created now.
LEMMA CreateSettles ==
  ASSUME RegInv, StopInv, NEW c \in LocationApis, NEW cbs \in ApiCallbacks, Registry!createInstance(c, cbs)
  PROVE  StopInv'
<1> DEFINE a == [op |-> "add", client |-> c, id |-> 0, cbs |-> cbs]
           b == [op |-> "capabilities", client |-> c, id |-> 0, cbs |-> {}]
           K == Registry!Loaded(interface', cbs)
           A == Registry!askFirst(K)
           q == adapterQueues
           s == Sent(q, K, a)
           p == adapterQueues'
<1>1. RegTypes /\ Membership /\ AllReady /\ TrackersKnown /\ OwedOfClients /\ Settled
  BY DEF RegInv, StopInv
<1>2. /\ ~begun["used"][c] /\ interface' = Registry!load(cbs)
      /\ Registry!post(Both(K, a, A, b))
      /\ clientData' = [clientData EXCEPT ![c] = cbs]
      /\ begun' = [begun EXCEPT !["used"][c] = TRUE]
      /\ UNCHANGED <<registered, sessions, answers>>
  BY DEF Registry!createInstance, Registry!msg, Both
<1>3. a \in RegMsg /\ a.op = "add" /\ a.client = c /\ a.cbs = cbs /\ b \in RegMsg /\ b.op = "capabilities"
  BY DEF RegMsg
<1>4. /\ K \in SUBSET Registry!Adapters
      /\ \A k \in Registry!Adapters : interface[k] # "null" => interface'[k] = interface[k]
      /\ \A k : k \in K <=> k \in Registry!needs(cbs) /\ interface'[k] = "loaded"
  BY <1>1, <1>2, LoadsOnce, LoadedIs
<1> HIDE DEF K, a, b
<1>5. A \in SUBSET Registry!Adapters
  BY <1>4 DEF Registry!askFirst
<1> HIDE DEF A
<1>6. q \in [Registry!Adapters -> Seq(RegMsg)] /\ p = Sent(s, A, b)
  <2>1. q \in [Registry!Adapters -> Seq(RegMsg)]
    BY <1>1 DEF RegTypes
  <2> HIDE DEF p, q, s
  <2>2. p = Sent(s, A, b)
    BY ONLY <1>2, <2>1, TwoPosts DEF p, q, s
  <2> QED  BY <2>1, <2>2
<1>7. /\ begun'["of"] = begun["of"] /\ OwedIds' = OwedIds /\ StoppedIds' = StoppedIds
      /\ \A x \in LocationApis : begun["used"][x] => begun'["used"][x]
  <2>1. begun \in BegunTypes /\ begun.used \in [LocationApis -> BOOLEAN]
    BY <1>1, BegunParts DEF RegTypes
  <2>2. begun'.of = begun.of /\ begun'.stopped = begun.stopped /\ begun'.owed = begun.owed
        /\ begun'.used = [begun.used EXCEPT ![c] = TRUE]
    BY <1>2, <2>1, BegunUsed
  <2> QED  BY <2>1, <2>2 DEF OwedIds, StoppedIds
<1>8. /\ \A x \in LocationApis : x # c => clientData'[x] = clientData[x] /\ (Alive(x)' <=> Alive(x))
      /\ clientData'[c] = cbs
  BY <1>1, <1>2 DEF RegTypes, Alive
<1>9. \A k \in Registry!Adapters :
        /\ Ready(p[k], registered[k], OwedIds)
        /\ \A x : TrackedLast(q[k], registered[k], x) /\ ~(k \in K /\ x = c) => TrackedLast(p[k], registered[k], x)
        /\ k \in K /\ "trackingCb" \in cbs => TrackedLast(p[k], registered[k], c)
        /\ \A id : Starting(p[k], id) <=> Starting(q[k], id)
  <2> DEFINE o == OwedIds
  <2>1. /\ ~Owing(a, o) /\ (\A x : Says(a, "add", x) <=> x = c) /\ \A id : ~Starts(a, id)
        /\ ~Owing(b, o) /\ (\A x : ~Says(b, "add", x)) /\ \A id : ~Starts(b, id)
    BY <1>3 DEF Owing, Says, Starts
  <2>2. \A k \in Registry!Adapters : Ready(q[k], registered[k], o)
    BY <1>1 DEF AllReady
  <2> HIDE DEF o, p, q
  <2>3. \A k \in Registry!Adapters :
          /\ Ready(s[k], registered[k], o)
          /\ \A x : TrackedLast(q[k], registered[k], x) /\ ~(k \in K /\ Says(a, "add", x)) => TrackedLast(s[k], registered[k], x)
          /\ \A x : k \in K /\ Says(a, "add", x) /\ "trackingCb" \in a.cbs => TrackedLast(s[k], registered[k], x)
    BY ONLY <1>3, <1>4, <1>6, <2>1, <2>2, ReadySent
  <2>4. /\ s \in [Registry!Adapters -> Seq(RegMsg)]
        /\ \A k \in Registry!Adapters : \A id : Starting(s[k], id) <=> Starting(q[k], id) \/ (k \in K /\ Starts(a, id))
    BY ONLY <1>3, <1>4, <1>6, SentSays
  <2> HIDE DEF s
  <2>5. \A k \in Registry!Adapters :
          /\ Ready(Sent(s, A, b)[k], registered[k], o)
          /\ \A x : TrackedLast(s[k], registered[k], x) /\ ~(k \in A /\ Says(b, "add", x)) =>
                      TrackedLast(Sent(s, A, b)[k], registered[k], x)
    BY ONLY <1>3, <1>5, <2>1, <2>3, <2>4, ReadySent
  <2>6. \A k \in Registry!Adapters : \A id : Starting(Sent(s, A, b)[k], id) <=> Starting(s[k], id) \/ (k \in A /\ Starts(b, id))
    BY ONLY <1>3, <1>5, <2>4, SentSays
  <2> QED  BY <1>3, <1>6, <2>1, <2>3, <2>4, <2>5, <2>6 DEF o
<1>10. AllReady'
  BY <1>2, <1>7, <1>9 DEF AllReady
<1>11. TrackersKnown'
  <2> SUFFICES ASSUME NEW k \in {"gnss", "flp"}, NEW x \in LocationApis, Alive(x)', "trackingCb" \in clientData'[x],
                      interface'[k] = "loaded"
      PROVE  TrackedLast(p[k], registered[k], x)
    BY <1>2 DEF TrackersKnown
  <2>1. k \in Registry!Adapters /\ k \in Registry!needs(clientData'[x])
    BY TrackersNeeded
  <2>2. CASE x = c
    BY <1>4, <1>8, <1>9, <2>1, <2>2
  <2>3. CASE x # c
    <3>1. Alive(x) /\ clientData'[x] = clientData[x]
      BY <1>8, <2>3
    <3>2. interface[k] = "loaded"
      BY <1>1, <1>4, <2>1, <3>1 DEF Membership
    <3> QED  BY <1>1, <1>9, <2>1, <2>3, <3>1, <3>2 DEF TrackersKnown
  <2> QED  BY <2>2, <2>3
<1>12. OwedOfClients'
  BY <1>1, <1>7 DEF OwedOfClients
<1>13. Settled'
  <2>1. \A id \in OwedIds : Alive(begun["of"][id])' => Alive(begun["of"][id])
    <3> TAKE id \in OwedIds
    <3>1. begun["of"][id] \in LocationApis /\ begun["of"][id] # c
      BY <1>1, <1>2 DEF OwedOfClients
    <3>2. begun'["of"][id] = begun["of"][id]
      BY <1>7
    <3> QED  BY <1>8, <3>1, <3>2 DEF Alive
  <2> QED  BY <1>1, <1>2, <1>7, <1>9, <2>1, SettledStays
<1> QED
  BY <1>10, <1>11, <1>12, <1>13 DEF StopInv

\* A start that is owed is sent to an adapter that has the trackingCb, or will before the start comes.
LEMMA AskSettles ==
  ASSUME RegInv, StopInv, NEW c \in LocationApis, clientData[c] # None, NEW k \in {"gnss", "flp"},
         NEW op \in {"start", "startBatching"}, Registry!ask(c, k, op)
  PROVE  StopInv'
<1> DEFINE id == lastId + 1
           m == [op |-> op, client |-> c, id |-> id, cbs |-> {}]
           b == (op = "startBatching")
           owes == "trackingCb" \in clientData[c] /\ op = "start"
           q == adapterQueues
           p == adapterQueues'
<1>1. RegTypes /\ NotYet /\ IdsGiven /\ AllReady /\ TrackersKnown /\ OwedOfClients /\ Settled
  BY DEF RegInv, StopInv
<1>2. /\ lastId < MaxId /\ interface[k] = "loaded"
      /\ Registry!post(Registry!only({k}, m))
      /\ begun' = AskedBy(c, id, b, owes)
      /\ UNCHANGED <<interface, clientData, registered, sessions, answers>>
  BY DEF Registry!ask, Registry!msg, Registry!generateSessionId, AskedBy
<1>3. /\ {k} \in SUBSET Registry!Adapters /\ k \in Registry!Adapters
      /\ lastId \in Nat /\ id \in Nat /\ id \in Registry!Ids /\ id > lastId /\ ~(id <= lastId)
  BY <1>1, <1>2, RegAssumptions DEF RegTypes, Registry!Ids, Registry!Adapters
<1>4. m \in RegMsg /\ m.op = op /\ m.client = c /\ m.id = id
  BY <1>3 DEF RegMsg, SessionOps
<1>5. owes \in BOOLEAN /\ b \in BOOLEAN /\ (owes => "trackingCb" \in clientData[c] /\ op = "start")
  OBVIOUS
<1> HIDE DEF id, m, b, owes
<1>6. q \in [Registry!Adapters -> Seq(RegMsg)] /\ p = Sent(q, {k}, m)
  BY <1>1, <1>2, <1>3, <1>4, Posts DEF RegTypes
<1>7. /\ begun'["used"] = begun["used"] /\ begun'["of"][id] = c /\ (id \in OwedIds' <=> owes) /\ StoppedIds' = StoppedIds
      /\ OwedIds' \subseteq Registry!Ids
      /\ \A x \in Registry!Ids : x # id => begun'["of"][x] = begun["of"][x] /\ (x \in OwedIds' <=> x \in OwedIds)
  <2>1. begun \in BegunTypes
    BY <1>1 DEF RegTypes
  <2>2. begun.of \in [Registry!Ids -> LocationApis \cup {None}] /\ begun.owed \in [Registry!Ids -> BOOLEAN]
    BY <2>1, BegunParts
  <2>3. /\ begun' \in BegunTypes /\ begun'.used = begun.used /\ begun'.updates = begun.updates
        /\ begun'.stopped = begun.stopped
        /\ begun'.of = [begun.of EXCEPT ![id] = c] /\ begun'.batching = [begun.batching EXCEPT ![id] = b]
        /\ begun'.owed = [begun.owed EXCEPT ![id] = owes]
    <3>1. begun' = AskedBy(c, id, b, owes)
      BY <1>2
    <3>2. id \in Registry!Ids /\ c \in LocationApis /\ b \in BOOLEAN /\ owes \in BOOLEAN
      BY <1>3, <1>5
    <3> QED  BY ONLY <2>1, <3>1, <3>2, BegunAsked
  <2>4. begun'.of[id] = c /\ begun'.owed[id] = owes
        /\ \A x \in Registry!Ids : x # id => begun'.of[x] = begun.of[x] /\ begun'.owed[x] = begun.owed[x]
    BY <1>3, <2>2, <2>3
  <2> QED  BY <1>3, <2>3, <2>4 DEF OwedIds, StoppedIds
\* The id is new.
<1>8. /\ id \notin StoppedIds /\ id \notin OwedIds
      /\ \A l \in Registry!Adapters : ~Starting(q[l], id)
  BY <1>1, <1>3 DEF IdsGiven
<1>9. \A l \in Registry!Adapters :
        /\ Ready(p[l], registered[l], OwedIds')
        /\ \A x : TrackedLast(q[l], registered[l], x) => TrackedLast(p[l], registered[l], x)
        /\ \A x : Starting(p[l], x) <=> Starting(q[l], x) \/ (l = k /\ x = id)
  <2> DEFINE o == OwedIds
             n == OwedIds'
             u == registered
  <2>1. (\A x : ~Says(m, "add", x)) /\ \A x : Starts(m, x) <=> x = id
    BY <1>4 DEF Says, Starts
  <2>2. \A l \in Registry!Adapters : Ready(q[l], u[l], o)
    BY <1>1 DEF AllReady
  <2>3. \A l \in Registry!Adapters : \A x : Starting(q[l], x) /\ x \in n => x \in o
    BY <1>7, <1>8
  <2>4. Owing(m, n) => m.op = "start" /\ TrackedLast(q[k], u[k], m.client)
    BY <1>1, <1>2, <1>4, <1>5, <1>7 DEF Owing, TrackersKnown, Alive
  <2> HIDE DEF o, n, u, p, q
  <2>5. \A l \in Registry!Adapters :
          /\ Ready(Sent(q, {k}, m)[l], u[l], n)
          /\ \A x : TrackedLast(q[l], u[l], x) /\ ~(l \in {k} /\ Says(m, "add", x)) => TrackedLast(Sent(q, {k}, m)[l], u[l], x)
    <3>1. \A l \in {k} : Owing(m, n) => m.op = "start" /\ TrackedLast(q[l], u[l], m.client)
      BY <2>4
    <3> QED  BY ONLY <1>3, <1>4, <1>6, <2>2, <2>3, <3>1, ReadySent
  <2>6. \A l \in Registry!Adapters : \A x : Starting(Sent(q, {k}, m)[l], x) <=> Starting(q[l], x) \/ (l \in {k} /\ Starts(m, x))
    BY ONLY <1>3, <1>4, <1>6, SentSays
  <2> QED  BY <1>6, <2>1, <2>5, <2>6 DEF n, u
<1>10. AllReady'
  BY <1>2, <1>9 DEF AllReady
<1>11. TrackersKnown'
  <2> SUFFICES ASSUME NEW l \in {"gnss", "flp"}, NEW x \in LocationApis, Alive(x), "trackingCb" \in clientData[x],
                      interface[l] = "loaded"
      PROVE  TrackedLast(p[l], registered[l], x)
    BY <1>2 DEF TrackersKnown, Alive
  <2>1. l \in Registry!Adapters
    BY TrackersNeeded
  <2> QED  BY <1>1, <1>9, <2>1 DEF TrackersKnown
<1>12. OwedOfClients'
  <2> SUFFICES ASSUME NEW x \in OwedIds' PROVE begun'["of"][x] \in LocationApis /\ begun["used"][begun'["of"][x]]
    BY <1>7 DEF OwedOfClients
  <2>1. CASE x = id
    BY <1>1, <1>7, <2>1 DEF NotYet, Alive
  <2>2. CASE x # id
    BY <1>1, <1>7, <2>2 DEF OwedOfClients
  <2> QED  BY <2>1, <2>2
<1>13. Settled'
  <2> SUFFICES ASSUME NEW x \in OwedIds', x \in StoppedIds \/ Alive(begun["of"][x])'
               PROVE  Open(x)' \/ (x \in StoppedIds /\ answers[x] = 2)
    BY <1>2, <1>7 DEF Settled
  <2>1. \A y : Open(y) => Open(y)'
    BY <1>2, <1>9 DEF Open, Running
  <2>2. CASE x = id
    BY <1>3, <1>9, <2>2 DEF Open
  <2>3. CASE x # id
    <3>1. x \in OwedIds /\ (x \in StoppedIds \/ Alive(begun["of"][x]))
      BY <1>2, <1>7, <2>3 DEF Alive
    <3> QED  BY <1>1, <2>1, <3>1 DEF Settled
  <2> QED  BY <2>2, <2>3
<1> QED
  BY <1>10, <1>11, <1>12, <1>13 DEF StopInv

\* The client that stops a session is there, so that the session still starts or runs.
LEMMA StopSettles ==
  ASSUME RegInv, StopInv, NEW c \in LocationApis, NEW id \in Registry!Ids, Registry!stop(c, id) PROVE StopInv'
<1> DEFINE K == IF begun["batching"][id] THEN {"flp"} ELSE Registry!stopBoth(c)
           m == [op |-> IF begun["batching"][id] THEN "stopBatching" ELSE "stop", client |-> c, id |-> id, cbs |-> {}]
           q == adapterQueues
           p == adapterQueues'
<1>1. RegTypes /\ AllReady /\ TrackersKnown /\ OwedOfClients /\ Settled
  BY DEF RegInv, StopInv
<1>2. /\ clientData[c] # None /\ begun["of"][id] = c
      /\ Registry!post(Registry!only(K, m))
      /\ begun' = [begun EXCEPT !["stopped"][id] = TRUE]
      /\ UNCHANGED <<interface, clientData, registered, sessions, answers>>
  BY DEF Registry!stop, Registry!msg
<1>3. m \in RegMsg /\ m.op \in {"stop", "stopBatching"}
  BY DEF RegMsg, SessionOps
<1>4. K \in SUBSET Registry!Adapters
  BY DEF Registry!stopBoth, Registry!Adapters
<1> HIDE DEF K, m
<1>5. q \in [Registry!Adapters -> Seq(RegMsg)] /\ p = Sent(q, K, m)
  BY <1>1, <1>2, <1>3, <1>4, Posts DEF RegTypes
<1>6. /\ begun'["used"] = begun["used"] /\ begun'["of"] = begun["of"]
      /\ OwedIds' = OwedIds /\ StoppedIds' = StoppedIds \cup {id}
  <2>1. begun \in BegunTypes /\ begun.stopped \in [Registry!Ids -> BOOLEAN]
    BY <1>1, BegunParts DEF RegTypes
  <2>2. begun'.used = begun.used /\ begun'.of = begun.of /\ begun'.owed = begun.owed
        /\ begun'.stopped = [begun.stopped EXCEPT ![id] = TRUE]
    BY <1>2, <2>1, BegunStopped
  <2> QED  BY <2>1, <2>2 DEF OwedIds, StoppedIds
<1>7. \A k \in Registry!Adapters :
        /\ Ready(p[k], registered[k], OwedIds)
        /\ \A x : TrackedLast(q[k], registered[k], x) => TrackedLast(p[k], registered[k], x)
        /\ \A x : Starting(p[k], x) <=> Starting(q[k], x)
  <2> DEFINE o == OwedIds
  <2>1. ~Owing(m, o) /\ (\A x : ~Says(m, "add", x)) /\ \A x : ~Starts(m, x)
    BY <1>3 DEF Owing, Says, Starts
  <2>2. \A k \in Registry!Adapters : Ready(q[k], registered[k], o)
    BY <1>1 DEF AllReady
  <2> HIDE DEF o, p, q
  <2>3. \A k \in Registry!Adapters :
          /\ Ready(Sent(q, K, m)[k], registered[k], o)
          /\ \A x : TrackedLast(q[k], registered[k], x) /\ ~(k \in K /\ Says(m, "add", x)) =>
                      TrackedLast(Sent(q, K, m)[k], registered[k], x)
    BY ONLY <1>3, <1>4, <1>5, <2>1, <2>2, ReadySent
  <2>4. \A k \in Registry!Adapters : \A x : Starting(Sent(q, K, m)[k], x) <=> Starting(q[k], x) \/ (k \in K /\ Starts(m, x))
    BY ONLY <1>3, <1>4, <1>5, SentSays
  <2> QED  BY <1>5, <2>1, <2>3, <2>4 DEF o
<1>8. AllReady'
  BY <1>2, <1>6, <1>7 DEF AllReady
<1>9. TrackersKnown'
  <2> SUFFICES ASSUME NEW k \in {"gnss", "flp"}, NEW x \in LocationApis, Alive(x), "trackingCb" \in clientData[x],
                      interface[k] = "loaded"
      PROVE  TrackedLast(p[k], registered[k], x)
    BY <1>2 DEF TrackersKnown, Alive
  <2>1. k \in Registry!Adapters
    BY TrackersNeeded
  <2> QED  BY <1>1, <1>7, <2>1 DEF TrackersKnown
<1>10. OwedOfClients'
  BY <1>1, <1>6 DEF OwedOfClients
<1>11. Settled'
  <2> SUFFICES ASSUME NEW x \in OwedIds, x \in StoppedIds \/ x = id \/ Alive(begun["of"][x])
               PROVE  Open(x)' \/ (x \in StoppedIds' /\ answers[x] = 2)
    BY <1>2, <1>6 DEF Settled, Alive
  <2>1. Open(x) => Open(x)'
    BY <1>2, <1>7 DEF Open, Running
  <2>2. x \in StoppedIds \/ Alive(begun["of"][x])
    BY <1>2 DEF Alive
  <2> QED  BY <1>1, <1>6, <2>1, <2>2 DEF Settled
<1> QED
  BY <1>8, <1>9, <1>10, <1>11 DEF StopInv

\* An adapter that takes a message has, for the messages left, what it had before.
LEMMA ReadyTaken ==
  ASSUME RegTypes, AllReady, TrackersKnown, NEW k \in Registry!Adapters, NEW m, Taken(k, m),
         \A l \in Registry!Adapters : l # k => registered'[l] = registered[l],
         \A c : Mentions(adapterQueues'[k], c) \/ Alive(c) =>
           /\ Says(m, "add", c) => registered'[k][c] = m.cbs /\ m.cbs # None
           /\ ~Says(m, "add", c) => registered'[k][c] = registered[k][c]
  PROVE  /\ AllReady' /\ TrackersKnown'
         /\ Owing(m, OwedIds) =>
              m.op = "start" /\ registered[k][m.client] # None /\ "trackingCb" \in registered[k][m.client]
<1> DEFINE q == adapterQueues[k]
           u == registered[k]
           v == registered'[k]
           o == OwedIds
<1>1. /\ q \in Seq(RegMsg) /\ q # <<>> /\ m = Head(q) /\ adapterQueues'[k] = Tail(q)
      /\ \A l \in Registry!Adapters : l # k => adapterQueues'[l] = adapterQueues[l]
      /\ UNCHANGED <<interface, clientData>> /\ OwedIds' = OwedIds
  BY DEF Taken, RegTypes
<1>2. Ready(q, u, o)
  BY DEF AllReady
<1>3. \A c : Mentions(Tail(q), c) \/ Alive(c) =>
        /\ Says(Head(q), "add", c) => v[c] = Head(q).cbs /\ Head(q).cbs # None
        /\ ~Says(Head(q), "add", c) => v[c] = u[c]
  BY <1>1
<1> HIDE DEF q, u, v, o
<1>4. /\ Ready(Tail(q), v, o)
      /\ Owing(Head(q), o) => Head(q).op = "start" /\ u[Head(q).client] # None /\ "trackingCb" \in u[Head(q).client]
  BY <1>1, <1>2, <1>3, ReadyShrinks
<1>5. AllReady'
  <2> SUFFICES ASSUME NEW l \in Registry!Adapters PROVE Ready(adapterQueues'[l], registered'[l], o)
    BY <1>1 DEF AllReady, o
  <2>1. CASE l = k
    BY <1>1, <1>4, <2>1 DEF v
  <2>2. CASE l # k
    BY <1>1, <2>2 DEF AllReady, o
  <2> QED  BY <2>1, <2>2
<1>6. TrackersKnown'
  <2> SUFFICES ASSUME NEW l \in {"gnss", "flp"}, NEW c \in LocationApis, Alive(c), "trackingCb" \in clientData[c],
                      interface[l] = "loaded"
      PROVE  TrackedLast(adapterQueues'[l], registered'[l], c)
    BY <1>1 DEF TrackersKnown, Alive
  <2>1. l \in Registry!Adapters /\ TrackedLast(adapterQueues[l], registered[l], c)
    BY TrackersNeeded DEF TrackersKnown
  <2>2. CASE l = k
    <3>1. TrackedLast(q, u, c)
      BY <2>1, <2>2 DEF q, u
    <3>2. TrackedLast(Tail(q), v, c)
      BY <1>1, <1>3, <3>1, TrackedLastShrinks
    <3> QED  BY <1>1, <2>2, <3>2 DEF v
  <2>3. CASE l # k
    BY <1>1, <2>1, <2>3
  <2> QED  BY <2>2, <2>3
<1> QED
  BY <1>1, <1>4, <1>5, <1>6 DEF u, o

\* Messages about clients.
LEMMA ClientTaken ==
  ASSUME RegInv, StopInv, NEW k \in Registry!Adapters, NEW m, Taken(k, m), Registry!saveClient(k, m) \/ Registry!requestCapabilities(k, m)
  PROVE  StopInv'
<1>1. RegTypes /\ AllReady /\ TrackersKnown /\ OwedOfClients /\ Settled
  BY DEF RegInv, StopInv
<1>2. /\ \/ m.op = "add" /\ registered' = [registered EXCEPT ![k][m.client] = m.cbs]
         \/ m.op = "capabilities" /\ registered' = registered
      /\ UNCHANGED <<sessions, answers>>
  BY DEF Registry!saveClient, Registry!requestCapabilities
<1>3. m.client \in LocationApis /\ (m.op = "add" => m.cbs # None)
  BY MsgFields, RegAssumptions DEF Taken
<1>4. /\ \A l \in Registry!Adapters : l # k => registered'[l] = registered[l]
      /\ \A c : /\ Says(m, "add", c) => registered'[k][c] = m.cbs /\ m.cbs # None
                /\ ~Says(m, "add", c) => registered'[k][c] = registered[k][c]
  <2>1. registered[k] \in [LocationApis -> ApiCallbacks \cup {None}] /\ registered \in [Registry!Adapters -> [LocationApis -> ApiCallbacks \cup {None}]]
    BY <1>1 DEF RegTypes
  <2>2. CASE m.op = "capabilities"
    BY <1>2, <2>2 DEF Says
  <2>3. CASE m.op = "add"
    <3>1. registered' = [registered EXCEPT ![k][m.client] = m.cbs]
      BY <1>2, <2>3
    <3>2. registered'[k] = [registered[k] EXCEPT ![m.client] = m.cbs]
      BY <2>1, <3>1
    <3>3. \A c : c # m.client => registered'[k][c] = registered[k][c]
      BY <2>1, <3>2
    <3> QED  BY <1>3, <2>1, <2>3, <3>1, <3>2, <3>3 DEF Says
  <2> QED  BY <1>2, <2>2, <2>3
<1>5. AllReady' /\ TrackersKnown'
  BY <1>1, <1>4, ReadyTaken
<1>6. /\ UNCHANGED <<begun, clientData>> /\ OwedIds' = OwedIds /\ StoppedIds' = StoppedIds
      /\ \A l \in Registry!Adapters : \A id : Starting(adapterQueues'[l], id) <=> Starting(adapterQueues[l], id)
  BY <1>2 DEF Taken
<1>7. OwedOfClients'
  BY <1>1, <1>6 DEF OwedOfClients
<1>8. Settled'
  BY <1>1, <1>2, <1>6, SettledStays DEF Alive
<1> QED
  BY <1>5, <1>7, <1>8 DEF StopInv

\* A session that was stopped has its stop coming, so that the client's removal, its last message, does not meet it.
LEMMA EraseSettles ==
  ASSUME RegInv, StopInv, NEW k \in Registry!Adapters, NEW m, Taken(k, m), Registry!eraseClient(k, m)
  PROVE  StopInv'
<1> DEFINE c == m.client
           p == adapterQueues'
           r == adapterQueues[k]
<1>1. /\ RegTypes /\ NotYet /\ IdsGiven /\ StopsArrive /\ AllReady /\ TrackersKnown /\ OwedOfClients /\ Settled
      /\ InOrder(adapterQueues[k], registered[k])
  BY DEF RegInv, StopInv
<1>2. /\ m.op = "remove" /\ registered' = [registered EXCEPT ![k][c] = None]
      /\ sessions' = {s \in sessions : ~(s.kind = k /\ s.client = c)} /\ UNCHANGED answers
  BY DEF Registry!eraseClient
<1>3. /\ c \in LocationApis /\ UNCHANGED <<begun, clientData>> /\ OwedIds' = OwedIds /\ StoppedIds' = StoppedIds
      /\ \A l \in Registry!Adapters : \A id : /\ Starting(p[l], id) <=> Starting(adapterQueues[l], id)
                                              /\ Stopping(p[l], id) <=> Stopping(adapterQueues[l], id)
  BY <1>2, MsgFields DEF Taken
<1>4. r \in Seq(RegMsg) /\ r # <<>> /\ m = Head(r) /\ p[k] = Tail(r) /\ RemovedLast(r) /\ OwnersOnly(r, begun["of"])
  BY <1>1 DEF RegTypes, Taken, InOrder
<1>5. ~Alive(c)
  <2>1. Saying(adapterQueues[k], "remove", c)
    BY <1>2 DEF Taken
  <2> QED  BY <1>1, <1>3, <2>1 DEF NotYet
<1> HIDE DEF c, p, r
<1>6. ~Mentions(p[k], c)
  <2>1. Head(r).op = "remove"
    BY <1>2, <1>4
  <2>2. ~Mentions(Tail(r), Head(r).client)
    BY <1>4, <2>1, NothingAfterRemoval
  <2> QED  BY <1>4, <2>2 DEF c
<1>7. \A id \in Registry!Ids : Stopping(p[k], id) => begun["of"][id] # c
  <2> SUFFICES ASSUME NEW id \in Registry!Ids, Stopping(p[k], id) PROVE Mentions(p[k], begun["of"][id])
    BY <1>6
  <2>1. PICK j \in DOMAIN p[k] : Stops(p[k][j], id)
    BY DEF Stopping
  <2>2. j + 1 \in DOMAIN r /\ p[k][j] = r[j + 1]
    BY <1>4
  <2>3. p[k][j].client = begun["of"][id]
    BY <1>4, <2>1, <2>2 DEF OwnersOnly, Stops, SessionOps
  <2> QED  BY <2>3 DEF Mentions
<1>8. AllReady' /\ TrackersKnown'
  <2>1. \A l \in Registry!Adapters : l # k => registered'[l] = registered[l]
    BY <1>1, <1>2 DEF RegTypes
  <2>2. registered'[k] = [registered[k] EXCEPT ![c] = None] /\ registered[k] \in [LocationApis -> ApiCallbacks \cup {None}]
    BY <1>1, <1>2 DEF RegTypes
  <2>3. \A x : x # c => registered'[k][x] = registered[k][x]
    BY <2>2
  <2>4. \A x : Mentions(adapterQueues'[k], x) \/ Alive(x) =>
          /\ Says(m, "add", x) => registered'[k][x] = m.cbs /\ m.cbs # None
          /\ ~Says(m, "add", x) => registered'[k][x] = registered[k][x]
    BY <1>2, <1>5, <1>6, <2>3 DEF Says, p
  <2> QED  BY <1>1, <2>1, <2>4, ReadyTaken
<1>9. OwedOfClients'
  BY <1>1, <1>3 DEF OwedOfClients
<1>10. Settled'
  <2> SUFFICES ASSUME NEW id \in OwedIds, id \in StoppedIds \/ Alive(begun["of"][id]), Open(id) PROVE Open(id)'
    BY <1>1, <1>2, <1>3 DEF Settled, Alive
  <2>1. PICK l \in Registry!Adapters : Starting(adapterQueues[l], id) \/ Running(l, id)
    BY DEF Open
  <2>2. CASE Starting(adapterQueues[l], id)
    BY <1>3, <2>2 DEF Open, p
  <2>3. CASE Running(l, id)
    <3>1. PICK s \in sessions : s.kind = l /\ s.id = id
      BY <2>3 DEF Running
    <3>2. s.client = begun["of"][id] /\ id \in Registry!Ids
      BY <1>1, <3>1 DEF IdsGiven, OwedIds
    <3>3. ~(s.kind = k /\ s.client = c)
      <4> SUFFICES ASSUME s.kind = k, s.client = c PROVE FALSE
        OBVIOUS
      <4>1. id \in StoppedIds
        BY <1>5, <3>2
      <4>2. Stopping(p[k], id)
        BY <1>1, <1>3, <2>3, <3>1, <3>2, <4>1 DEF StopsArrive
      <4> QED  BY <1>7, <3>2, <4>2
    <3>4. Running(l, id)'
      BY <1>2, <3>1, <3>3 DEF Running
    <3> QED  BY <3>4 DEF Open
  <2> QED  BY <2>1, <2>2, <2>3
<1> QED
  BY <1>8, <1>9, <1>10 DEF StopInv

\* An owed start finds the trackingCb registered, so that its session runs.
LEMMA StartSettles ==
  ASSUME RegInv, StopInv, NEW k \in Registry!Adapters, NEW m, Taken(k, m), Registry!startSession(k, m)
  PROVE  StopInv'
<1> DEFINE id == m.id
           p == adapterQueues'
<1>1. RegTypes /\ AllReady /\ TrackersKnown /\ OwedOfClients /\ Settled
  BY DEF RegInv, StopInv
<1>2. /\ m.op \in {"start", "startBatching"} /\ UNCHANGED registered
      /\ sessions' = IF Registry!hasCallback(k, m) THEN sessions \cup {Registry!session(k, m)} ELSE sessions
      /\ answers' = answers \/ answers' = [answers EXCEPT ![id] = @ + 1]
  BY DEF Registry!startSession, Registry!respond
<1>3. /\ id \in Registry!Ids /\ UNCHANGED <<begun, clientData>> /\ OwedIds' = OwedIds /\ StoppedIds' = StoppedIds
      /\ \A l \in Registry!Adapters : \A x : Starting(adapterQueues[l], x) => Starting(p[l], x) \/ x = id
  BY <1>2, MsgFields DEF Taken, SessionOps
<1>4. AllReady' /\ TrackersKnown' /\ (id \in OwedIds => Registry!hasCallback(k, m))
  <2>1. \A c : ~Says(m, "add", c)
    BY <1>2 DEF Says
  <2>2. /\ AllReady' /\ TrackersKnown'
        /\ Owing(m, OwedIds) => m.op = "start" /\ registered[k][m.client] # None /\ "trackingCb" \in registered[k][m.client]
    BY <1>1, <1>2, <2>1, ReadyTaken
  <2> QED  BY <1>2, <2>2 DEF Owing, Registry!hasCallback
<1>5. Registry!session(k, m) = [id |-> id, client |-> m.client, kind |-> k]
  BY DEF Registry!session
<1> HIDE DEF id, p
<1>6. OwedOfClients'
  BY <1>1, <1>3 DEF OwedOfClients
<1>7. Settled'
  <2> SUFFICES ASSUME NEW x \in OwedIds, x \in StoppedIds \/ Alive(begun["of"][x])
               PROVE  Open(x)' \/ (x \in StoppedIds /\ answers'[x] = 2)
    BY <1>3 DEF Settled, Alive
  <2>1. CASE x = id
    <3>1. Running(k, x)'
      BY <1>2, <1>4, <1>5, <2>1 DEF Running
    <3> QED  BY <3>1 DEF Open
  <2>2. CASE x # id
    <3>1. answers'[x] = answers[x]
      BY <1>1, <1>2, <1>3, <2>2 DEF RegTypes, OwedIds
    <3>2. Open(x) => Open(x)'
      BY <1>2, <1>3, <2>2 DEF Open, Running, p
    <3> QED  BY <1>1, <3>1, <3>2 DEF Settled
  <2> QED  BY <2>1, <2>2
<1> QED
  BY <1>4, <1>6, <1>7 DEF StopInv

\* A stop that finds its session is answered, the second answer to the id.
LEMMA StopTakenSettles ==
  ASSUME RegInv, StopInv, NEW k \in Registry!Adapters, NEW m, Taken(k, m), Registry!stopSession(k, m)
  PROVE  StopInv'
<1> DEFINE id == m.id
           p == adapterQueues'
           mine == Registry!session(k, m) \in sessions
<1>1. /\ RegTypes /\ IdsGiven /\ StopsArrive /\ StartedOnce /\ AnswersCounted
      /\ AllReady /\ TrackersKnown /\ OwedOfClients /\ Settled
      /\ InOrder(adapterQueues[k], registered[k])
  BY DEF RegInv, StopInv
<1>2. /\ m.op \in {"stop", "stopBatching"} /\ UNCHANGED registered
      /\ sessions' = sessions \ {Registry!session(k, m)}
      /\ answers' = IF mine /\ registered[k][m.client] # None THEN [answers EXCEPT ![id] = @ + 1] ELSE answers
  BY DEF Registry!stopSession, Registry!respond
<1>3. /\ id \in Registry!Ids /\ UNCHANGED <<begun, clientData>> /\ OwedIds' = OwedIds /\ StoppedIds' = StoppedIds
      /\ \A l \in Registry!Adapters : \A x : Starting(p[l], x) <=> Starting(adapterQueues[l], x)
      /\ Stopping(adapterQueues[k], id)
  BY <1>2, MsgFields DEF Taken, SessionOps
<1>4. AllReady' /\ TrackersKnown'
  <2>1. \A c : ~Says(m, "add", c)
    BY <1>2 DEF Says
  <2> QED  BY <1>1, <1>2, <2>1, ReadyTaken
<1>5. Registry!session(k, m) = [id |-> id, client |-> m.client, kind |-> k]
  BY DEF Registry!session
<1>6. m.client = begun["of"][id] /\ id \in StoppedIds
  <2>1. adapterQueues[k] \in Seq(RegMsg) /\ adapterQueues[k] # <<>> /\ m = adapterQueues[k][1] /\ 1 \in DOMAIN adapterQueues[k]
    BY <1>1 DEF Taken, RegTypes
  <2> QED  BY <1>1, <1>2, <1>3, <2>1 DEF InOrder, OwnersOnly, SessionOps, StopsArrive
<1>7. answers \in [Registry!Ids -> Nat]
  BY <1>1 DEF RegTypes
<1> HIDE DEF id, p
<1>8. OwedOfClients'
  BY <1>1, <1>3 DEF OwedOfClients
<1>9. mine <=> Running(k, id)
  <2>1. \A s \in sessions : s.kind = k /\ s.id = id => s = Registry!session(k, m)
    BY <1>1, <1>5, <1>6 DEF IdsGiven, RegTypes
  <2> QED  BY <1>5, <2>1 DEF Running
<1>10. \A l, x : Running(l, x) /\ ~(l = k /\ x = id) => Running(l, x)'
  BY <1>2, <1>5 DEF Running
<1>11. mine => registered[k][m.client] # None
  BY <1>1, <1>5 DEF IdsGiven
<1> HIDE DEF mine
<1>12. Settled'
  <2> SUFFICES ASSUME NEW x \in OwedIds, x \in StoppedIds \/ Alive(begun["of"][x])
               PROVE  Open(x)' \/ (x \in StoppedIds /\ answers'[x] = 2)
    BY <1>3 DEF Settled, Alive
  <2>1. Open(x) \/ (x \in StoppedIds /\ answers[x] = 2)
    BY <1>1 DEF Settled
  <2>2. x \in Registry!Ids
    BY DEF OwedIds
  <2>3. CASE x = id /\ mine
    <3>1. Running(k, x)
      BY <1>9, <2>3
    <3>2. answers[x] <= 1 /\ answers[x] \in Nat
      BY <1>1, <1>7, <2>2, <3>1 DEF AnswersCounted
    <3>3. \A l \in Registry!Adapters : ~Starting(adapterQueues[l], x)
      BY <1>1, <2>2, <3>1 DEF StartedOnce
    <3>4. answers[x] > 0
      BY <1>1, <2>2, <3>3 DEF AnswersCounted
    <3>5. answers'[x] = answers[x] + 1
      BY <1>2, <1>7, <1>11, <2>2, <2>3
    <3> QED  BY <1>6, <2>3, <3>2, <3>4, <3>5
  <2>4. CASE ~(x = id /\ mine)
    <3>1. answers'[x] = answers[x]
      BY <1>2, <1>7, <2>2, <2>4
    <3>2. \A l : Running(l, x) => Running(l, x)'
      BY <1>9, <1>10, <2>4
    <3>3. Open(x) => Open(x)'
      BY <1>3, <3>2 DEF Open, p
    <3> QED  BY <2>1, <3>1, <3>3
  <2> QED  BY <2>3, <2>4
<1> QED
  BY <1>4, <1>8, <1>12 DEF StopInv

LEMMA MessageSettles == ASSUME RegInv, StopInv, NEW k \in Registry!Adapters, Registry!handle(k) PROVE StopInv'
<1> DEFINE m == Head(adapterQueues[k])
<1>1. Taken(k, m)
  BY TakenSays DEF RegInv
<1>2. \/ Registry!saveClient(k, m) \/ Registry!requestCapabilities(k, m) \/ Registry!eraseClient(k, m)
      \/ Registry!startSession(k, m) \/ Registry!stopSession(k, m)
  BY DEF Registry!handle
<1> HIDE DEF m
<1> QED
  BY <1>1, <1>2, ClientTaken, EraseSettles, StartSettles, StopTakenSettles

LEMMA StopsKept == RegInv /\ StopInv /\ [Registry!Next]_(Registry!vars) => StopInv'
<1> SUFFICES ASSUME RegInv, StopInv, [Registry!Next]_(Registry!vars) PROVE StopInv'
  OBVIOUS
<1>1. ASSUME NEW c \in LocationApis, NEW cbs \in ApiCallbacks, Registry!createInstance(c, cbs) PROVE StopInv'
  BY <1>1, CreateSettles
<1>2. ASSUME NEW c \in LocationApis, NEW cbs \in ApiCallbacks, Registry!updateCallbacks(c, cbs) PROVE StopInv'
  BY <1>2, UpdateSettles
<1>3. ASSUME NEW c \in LocationApis, Registry!destroy(c) PROVE StopInv'
  BY <1>3, DestroySettles
<1>4. ASSUME NEW c \in LocationApis, Registry!startBatching(c) PROVE StopInv'
  BY <1>4, AskSettles DEF Registry!startBatching
<1>5. ASSUME NEW c \in LocationApis, NEW d \in {0, 1}, Registry!startTracking(c, d) PROVE StopInv'
  <2> DEFINE k == IF interface["flp"] = "loaded" /\ d > 0 THEN "flp"
                  ELSE IF interface["gnss"] = "loaded" /\ Registry!needsGnssTrackingInfo(clientData[c]) THEN "gnss"
                  ELSE IF interface["flp"] = "loaded" THEN "flp" ELSE "gnss"
  <2>1. clientData[c] # None /\ Registry!ask(c, k, "start")
    BY <1>5 DEF Registry!startTracking
  <2>2. k \in {"gnss", "flp"}
    OBVIOUS
  <2> HIDE DEF k
  <2> QED  BY <2>1, <2>2, AskSettles
<1>6. ASSUME NEW c \in LocationApis, NEW id \in Registry!Ids, Registry!stop(c, id) PROVE StopInv'
  BY <1>6, StopSettles
<1>7. ASSUME NEW k \in Registry!Adapters, Registry!handle(k) PROVE StopInv'
  BY <1>7, MessageSettles
<1>8. CASE UNCHANGED Registry!vars
  <2>1. UNCHANGED <<interface, clientData, adapterQueues, registered, sessions, begun, answers>>
    BY <1>8 DEF Registry!vars
  <2>2. OwedIds' = OwedIds /\ StoppedIds' = StoppedIds
    BY <2>1 DEF OwedIds, StoppedIds
  <2>3. AllReady' /\ TrackersKnown' /\ OwedOfClients'
    BY <2>1, <2>2 DEF StopInv, AllReady, TrackersKnown, Alive, OwedOfClients
  <2>4. Settled'
    BY <2>1, <2>2, SettledStays DEF StopInv, Alive
  <2> QED  BY <2>3, <2>4 DEF StopInv
<1> QED
  BY <1>1, <1>2, <1>3, <1>4, <1>5, <1>6, <1>7, <1>8 DEF Registry!Next

\* What the invariant says once the adapters have caught up.
LEMMA RegistrySays == RegInv /\ StopInv => Registry!RequestsAnswered /\ Registry!NothingLeftBehind
<1> SUFFICES ASSUME RegInv, StopInv PROVE Registry!RequestsAnswered /\ Registry!NothingLeftBehind
  OBVIOUS
<1>1. /\ RegTypes /\ Membership /\ Departure /\ CapsOnce /\ CapsCome /\ IdsGiven /\ StopsArrive /\ AnswersCounted
  BY DEF RegInv
<1>2. ASSUME Registry!Idle, NEW k \in Registry!Adapters
      PROVE  \A x : /\ ~Saying(adapterQueues[k], "remove", x) /\ ~Asking(k, x)
                    /\ ~Starting(adapterQueues[k], x) /\ ~Stopping(adapterQueues[k], x)
  <2>1. DOMAIN adapterQueues[k] = {}
    BY <1>2 DEF Registry!Idle
  <2> QED  BY <2>1 DEF Saying, Asking, Starting, Stopping
<1>3. Registry!AnsweredOnce
  BY <1>1 DEF AnswersCounted, StoppedIds, Registry!AnsweredOnce
<1>4. Registry!StartAnswered
  BY <1>1, <1>2 DEF AnswersCounted, OwedIds, Registry!StartAnswered
<1>5. Registry!ToldCapabilitiesOnce
  <2> SUFFICES ASSUME NEW c \in LocationApis
      PROVE  /\ caps[c] <= 1
             /\ Registry!Idle /\ clientData[c] # None /\ begun["updates"] = 0
                  /\ (\E k \in Registry!Adapters : registered[k][c] # None) => caps[c] = 1
    BY DEF Registry!ToldCapabilitiesOnce
  <2> QED  BY <1>1, <1>2 DEF CapsOnce, CapsCome, Alive, Member
<1>6. Registry!NoStoppedSession
  <2> SUFFICES ASSUME Registry!Idle, NEW s \in sessions, begun["stopped"][s.id] PROVE FALSE
    BY DEF Registry!NoStoppedSession
  <2>1. s.kind \in Registry!Adapters /\ s.id \in Registry!Ids /\ Running(s.kind, s.id) /\ s.id \in StoppedIds
    BY <1>1 DEF RegTypes, Running, StoppedIds
  <2> QED  BY <1>1, <1>2, <2>1 DEF StopsArrive
<1>7. Registry!NoGhostClient
  <2> SUFFICES ASSUME Registry!Idle, NEW c \in LocationApis \ shrunk, clientData[c] = None
               PROVE  /\ \A k \in Registry!Adapters : registered[k][c] = None
                      /\ \A s \in sessions : s.client # c
    BY DEF Registry!NoGhostClient
  <2>1. \A k \in Registry!Adapters : registered[k][c] = None
    BY <1>1, <1>2 DEF Departure, Alive, Member
  <2> QED  BY <1>1, <2>1 DEF IdsGiven, RegTypes
\* A session that was stopped and owed does not run, since no stop is left; so the stop was answered.
<1>8. Registry!StopAnswered
  <2> SUFFICES ASSUME Registry!Idle, NEW id \in Registry!Ids, begun["owed"][id], begun["stopped"][id] PROVE answers[id] = 2
    BY DEF Registry!StopAnswered
  <2>1. id \in OwedIds /\ id \in StoppedIds
    BY DEF OwedIds, StoppedIds
  <2>2. ~Open(id)
    BY <1>1, <1>2, <2>1 DEF Open, StopsArrive
  <2> QED  BY <2>1, <2>2 DEF StopInv, Settled
<1> QED
  BY <1>3, <1>4, <1>5, <1>6, <1>7, <1>8 DEF Registry!RequestsAnswered, Registry!NothingLeftBehind

LEMMA RegistryStays == ClientsSpec => [](part = "registry" => RegInv /\ StopInv)
<1> DEFINE I == part = "registry" => RegInv /\ StopInv
<1>1. ClientsInit => I
  BY RegStarts, StopsStart DEF ClientsInit
<1>2. I /\ [ClientsNext]_allVars => I'
  <2> SUFFICES ASSUME I, [ClientsNext]_allVars, part' = "registry" PROVE RegInv' /\ StopInv'
    OBVIOUS
  <2>1. CASE part = "registry"
    <3>1. [Registry!Next]_(Registry!vars)
      BY <2>1 DEF ClientsNext, allVars, registryVars, Registry!vars
    <3> QED  BY <2>1, <3>1, RegistryKept, StopsKept
  <2>2. CASE part # "registry"
    BY <2>2 DEF ClientsNext, allVars
  <2> QED  BY <2>1, <2>2
<1> QED
  BY <1>1, <1>2, PTL DEF ClientsSpec

\* Every start that is owed an answer is answered, and its stop is, no call twice, and a new client is told
\* the capabilities once, for any clients, callbacks and libraries and any number of sessions and messages (LocationAPI.cpp,
\* location_gnss.cpp): the property that the run clients checks, proved for every value of its constants.
THEOREM RequestsStayAnswered == ClientsSpec => []RequestsAnswered
<1>1. (part = "registry" => RegInv /\ StopInv) => RequestsAnswered
  BY RegistrySays DEF RequestsAnswered
<1> QED
  BY <1>1, RegistryStays, PTL

\* No adapter runs a session that was stopped or knows a client that was destroyed, once it has caught
\* up, for any clients, callbacks and libraries (stopTracking asks both adapters; ~LocationAPI).
THEOREM NothingStaysBehind == ClientsSpec => []NothingLeftBehind
<1>1. (part = "registry" => RegInv /\ StopInv) => NothingLeftBehind
  BY RegistrySays DEF NothingLeftBehind
<1> QED
  BY <1>1, RegistryStays, PTL

-----------------------------------------------------------------------------
(***************************************************************************)
(* Configuration and power of the engine.                                  *)
(***************************************************************************)
Servers == {"SERVER", "PDE"}
Items == DOMAIN Control!Code \cup Servers
Right(i, v) == v \in IF i \in Control!Masks THEN SUBSET DOMAIN Control!Code[i] ELSE DOMAIN Control!Code[i]
Setting(c) == /\ c = [i \in DOMAIN c |-> c[i]]
              /\ DOMAIN c \subseteq Items
              /\ \A i \in DOMAIN c \ Servers : Right(i, c[i])
SettingValues == {""} \cup UNION {{c[i] : i \in DOMAIN c} : c \in Settings}
Configs == {c \in UNION {[D -> SettingValues] : D \in SUBSET Items} : Setting(c)}
ControlKinds == {"readConfig", "setConfig", "updateConfig", "enable", "disable", "deleteAidingData",
                 "requestCapabilities", "setUlpProxy"}
ControlMsg == [kind : ControlKinds, id : Nat, config : Configs]
ControlRecord(e) == e = [up |-> e.up, has |-> e.has, failed |-> e.failed] /\ e.up \in BOOLEAN
ControlQueues(q) ==
  /\ q = [t \in Control!QueueTypes |-> q[t]]
  /\ \A t \in Control!QueueTypes : q[t] = [session |-> q[t].session, requests |-> q[t].requests]

ControlTypes ==
  /\ mApi \in BOOLEAN /\ mEnabled \in BOOLEAN /\ power \in BOOLEAN
  /\ mPendingConfig \in Configs /\ mConfig \in Configs
  /\ settings \in Seq(ControlMsg)
  /\ generated \in Nat /\ mPowerVoteId \in Nat
  /\ ControlQueues(controlQueues)
  /\ ControlRecord(configured)
  /\ DOMAIN Control!Defaults \subseteq DOMAIN mGps_conf
  /\ DOMAIN told = {"client", "ulp"}
  /\ \A i \in DOMAIN asked \ Servers : i \in Items /\ Right(i, asked[i])

Sets(q) == \E j \in DOMAIN q : q[j].kind = "setConfig"

\* The configuration is read before anything else, and nothing depends on it until then.
ReadFirst ==
  \A j \in DOMAIN settings : settings[j].kind = "readConfig" =>
    /\ j = 1 /\ Sets(settings) /\ DOMAIN configured.has = {}
    /\ \A c \in {"client", "ulp"} : ~told[c].known

Restarted(conf) == Control!Technologies \cup (IF conf.AGPS_CONFIG_INJECT THEN Control!Injected ELSE {})
Agrees(e, conf) ==
  \A i \in Restarted(conf) : i \in DOMAIN e.has /\ e.has[i] = Control!revert(i, conf[i])

\* An engine that is up has what mGps_conf says, or a setConfig is on its way.
EngineHas == configured.up => Agrees(configured, mGps_conf) \/ Sets(settings)

LockHeld(e, conf, vote) ==
  "GPS_LOCK" \in DOMAIN e.has /\ "GPS_LOCK" \notin e.failed =>
    e.has["GPS_LOCK"] = IF vote > 0 THEN "NONE" ELSE Control!revert("GPS_LOCK", conf.GPS_LOCK)

ServerHeld(e, url) ==
  "SERVER" \notin e.failed /\ url # ":" => "SERVER" \in DOMAIN e.has /\ e.has["SERVER"] = url

CapsHeld ==
  \A c \in {"client", "ulp"} : told[c].known => told[c].caps = Control!getCarrierCapabilities(mGps_conf)

EngineInv ==
  /\ ReadFirst /\ EngineHas /\ CapsHeld
  /\ LockHeld(configured, mGps_conf, mPowerVoteId) /\ ServerHeld(configured, mServerUrl)
  /\ \A j \in DOMAIN settings : settings[j].kind = "enable" => settings[j].id > 0

(***************************************************************************)
(* The power vote: the vote in force is at 0, those under way are where    *)
(* their messages are.                                                     *)
(***************************************************************************)
Votes(q, vote) == {j \in 0..Len(q) : IF j = 0 THEN vote > 0 ELSE q[j].kind = "enable"}
VoteId(q, vote, j) == IF j = 0 THEN vote ELSE q[j].id
Withdrawn(q) == {j \in 1..Len(q) : q[j].kind = "disable"}

\* Every vote has an id of its own, and is withdrawn before the next one, once, unless it is the last.
VotesInTurn(q, vote, last) ==
  /\ \A j \in Votes(q, vote) : VoteId(q, vote, j) \in 1..last
  /\ \A j, k \in Votes(q, vote) : j < k =>
       /\ VoteId(q, vote, j) # VoteId(q, vote, k)
       /\ \E w \in Withdrawn(q) : j < w /\ w < k /\ q[w].id = VoteId(q, vote, j)
  /\ \A w \in Withdrawn(q) : \E j \in Votes(q, vote) : j < w /\ VoteId(q, vote, j) = q[w].id
  /\ \A v, w \in Withdrawn(q) : q[v].id = q[w].id => v = w

WithdrawnAfter(q, vote, j) == \E w \in Withdrawn(q) : j < w /\ q[w].id = VoteId(q, vote, j)

\* The vote that is not withdrawn is the one the control client knows, if it has one.
VoteOpen(q, vote, session) ==
  /\ \E j \in Votes(q, vote) : VoteId(q, vote, j) = session
  /\ \A w \in Withdrawn(q) : q[w].id # session
  /\ \A j \in Votes(q, vote) : VoteId(q, vote, j) = session \/ WithdrawnAfter(q, vote, j)
VotesClosed(q, vote) == \A j \in Votes(q, vote) : WithdrawnAfter(q, vote, j)

VoteInv ==
  /\ VotesInTurn(settings, mPowerVoteId, generated)
  /\ mEnabled => VoteOpen(settings, mPowerVoteId, controlQueues["CONTROL"].session)
  /\ ~mEnabled => VotesClosed(settings, mPowerVoteId)
  /\ power <=> mEnabled

(***************************************************************************)
(* What the framework asked for: it waits for the API object, or the last  *)
(* update about it says it, or mGps_conf has it.                           *)
(***************************************************************************)
Updates(q, i) == {j \in DOMAIN q : q[j].kind = "updateConfig" /\ i \in DOMAIN q[j].config}
InForce(conf, i, v) == (i \in Control!Injected => conf.AGPS_CONFIG_INJECT) => conf[i] = Control!convert(i, v)
Arrive(q, conf, a) ==
  \A i \in DOMAIN a \ Servers :
    /\ \A j \in Updates(q, i) : (\A k \in Updates(q, i) : k <= j) => q[j].config[i] = a[i]
    /\ Updates(q, i) = {} => InForce(conf, i, a[i]) /\ \A j \in DOMAIN q : q[j].kind # "readConfig"
Repeats(c) == \A i \in DOMAIN c \ Servers : i \in DOMAIN asked /\ c[i] = asked[i]
AskedInv ==
  /\ mApi => Arrive(settings, mGps_conf, asked) /\ Repeats(mConfig)
  /\ ~mApi => mConfig = Control!Empty /\ Repeats(mPendingConfig) /\ DOMAIN asked \subseteq DOMAIN mPendingConfig

ControlInv == ControlTypes /\ EngineInv /\ VoteInv /\ AskedInv

-----------------------------------------------------------------------------
LEMMA ControlAssumptions == \A c \in Settings : Setting(c) /\ c \in Configs
<1> SUFFICES ASSUME NEW c \in Settings PROVE Setting(c) /\ c \in Configs
  OBVIOUS
<1>1. /\ c = [i \in DOMAIN c |-> c[i]] /\ DOMAIN c \subseteq Items
      /\ \A i \in DOMAIN c \ Servers : Right(i, c[i])
  BY ClientsAssumption DEF Control!SettingsAssumption, Items, Servers, Right
<1>2. \A i \in DOMAIN c : c[i] \in SettingValues
  <2> DEFINE values(d) == {d[i] : i \in DOMAIN d}
  <2>1. values(c) \in {values(d) : d \in Settings} /\ \A i \in DOMAIN c : c[i] \in values(c)
    OBVIOUS
  <2>2. SettingValues = {""} \cup UNION {values(d) : d \in Settings}
    BY DEF SettingValues
  <2> HIDE DEF values
  <2> QED  BY <2>1, <2>2
<1>3. c \in [DOMAIN c -> SettingValues]
  BY <1>1, <1>2
<1> QED
  BY <1>1, <1>3 DEF Configs, Setting

LEMMA EmptySetting == Control!Empty \in Configs /\ Setting(Control!Empty) /\ DOMAIN Control!Empty = {}
<1>1. DOMAIN Control!Empty = {} /\ Control!Empty = [i \in DOMAIN Control!Empty |-> Control!Empty[i]]
  BY DEF Control!Empty
<1>2. Control!Empty \in [{} -> SettingValues]
  BY <1>1 DEF Control!Empty
<1>3. Setting(Control!Empty)
  BY <1>1 DEF Setting
<1> QED
  BY <1>1, <1>2, <1>3 DEF Configs

LEMMA NothingPending == ASSUME NEW c \in Configs, DOMAIN c = {} PROVE c = Control!Empty
  BY DEF Configs, Setting, Control!Empty

\* What over gives, and that it gives a setting for settings.
IsOver(o, new, old) ==
  /\ DOMAIN o = DOMAIN new \cup DOMAIN old
  /\ \A i \in DOMAIN new : o[i] = new[i]
  /\ \A i \in DOMAIN old \ DOMAIN new : o[i] = old[i]

LEMMA OverSays == ASSUME NEW new, NEW old PROVE IsOver(Control!over(new, old), new, old)
  BY DEF Control!over, IsOver

LEMMA OverSetting ==
  ASSUME NEW c \in Configs, NEW d \in Configs
  PROVE  Control!over(c, d) \in Configs
<1> DEFINE o == Control!over(c, d)
<1>1. /\ o = [i \in DOMAIN c \cup DOMAIN d |-> o[i]]
      /\ DOMAIN o = DOMAIN c \cup DOMAIN d
      /\ \A i \in DOMAIN c : o[i] = c[i]
      /\ \A i \in DOMAIN d \ DOMAIN c : o[i] = d[i]
  BY OverSays DEF Control!over, IsOver
<1> HIDE DEF o
<1>2. Setting(c) /\ Setting(d) /\ DOMAIN o \subseteq Items
  BY <1>1 DEF Configs, Setting
<1>3. \A i \in DOMAIN o : o[i] \in SettingValues
  BY <1>1 DEF Configs
<1>4. Setting(o)
  BY <1>1, <1>2 DEF Setting
<1>5. o \in [DOMAIN o -> SettingValues]
  BY <1>1, <1>3
<1> QED
  BY <1>2, <1>4, <1>5 DEF Configs, o

\* A value survives its conversion, there and back.
LEMMA MaskBack ==
  ASSUME NEW i \in Control!Masks, NEW v \in SUBSET DOMAIN Control!Code[i]
  PROVE  Control!revert(i, Control!convert(i, v)) = v
  BY DEF Control!revert, Control!convert, Control!Masks, Control!Code

LEMMA CodeDiffers ==
  ASSUME NEW i \in DOMAIN Control!Code \ Control!Masks, NEW v \in DOMAIN Control!Code[i],
         NEW w \in DOMAIN Control!Code[i], Control!Code[i][v] = Control!Code[i][w]
  PROVE  v = w
  BY DEF Control!Masks, Control!Code

LEMMA ConvertBack ==
  ASSUME NEW i \in DOMAIN Control!Code, NEW v, Right(i, v)
  PROVE  Control!revert(i, Control!convert(i, v)) = v
<1>1. CASE i \in Control!Masks
  BY <1>1, MaskBack DEF Right
<1>2. CASE i \notin Control!Masks
  <2> DEFINE known == {w \in DOMAIN Control!Code[i] : Control!Code[i][w] = Control!convert(i, v)}
  <2>1. v \in DOMAIN Control!Code[i] /\ Control!convert(i, v) = Control!Code[i][v]
    BY <1>2 DEF Right, Control!convert
  <2>2. known = {v}
    BY <1>2, <2>1, CodeDiffers
  <2>3. (CHOOSE w \in known : TRUE) = v
    BY <2>2
  <2> QED
    BY <1>2, <2>2, <2>3 DEF Control!revert
<1> QED  BY <1>1, <1>2

LEMMA OneMore == ASSUME NEW S, IsFiniteSet(S), NEW x PROVE IsFiniteSet(S \cup {x})
  BY FS_AddElement

LEMMA ItemsFinite == IsFiniteSet(Items)
<1> DEFINE A == {"GPS_LOCK", "SUPL_VER", "LPP_PROFILE"}
           B == A \cup {"LPPE_CP_TECHNOLOGY"} \cup {"LPPE_UP_TECHNOLOGY"} \cup {"A_GLONASS_POS_PROTOCOL_SELECT"}
           C == B \cup {"USE_EMERGENCY_PDN"} \cup {"SUPL_ES"} \cup {"SUPL_MODE"}
<1>1. A = {} \cup {"GPS_LOCK"} \cup {"SUPL_VER"} \cup {"LPP_PROFILE"}
  OBVIOUS
<1>2. IsFiniteSet({} \cup {"GPS_LOCK"} \cup {"SUPL_VER"} \cup {"LPP_PROFILE"})
  <2>1. IsFiniteSet({} \cup {"GPS_LOCK"})
    BY FS_EmptySet, OneMore
  <2>2. IsFiniteSet({} \cup {"GPS_LOCK"} \cup {"SUPL_VER"})
    BY <2>1, OneMore
  <2> QED  BY <2>2, OneMore
<1>3. IsFiniteSet(A)
  BY <1>1, <1>2
<1> HIDE DEF A
<1>4. IsFiniteSet(B)
  BY <1>3, OneMore
<1>5. B \cup {"USE_EMERGENCY_PDN"} \cup {"SUPL_ES"} \cup {"SUPL_MODE"} = C
  OBVIOUS
<1> HIDE DEF B
<1>6. IsFiniteSet(C)
  BY <1>4, <1>5, OneMore
<1>7. Items = C \cup {"SERVER"} \cup {"PDE"}
  BY DEF Items, Servers, Control!Code, C, B, A
<1> HIDE DEF C
<1> QED
  BY <1>6, <1>7, OneMore

LEMMA CountItems == ASSUME NEW c \in Configs PROVE Cardinality(DOMAIN c) \in Nat
  BY ItemsFinite, FS_Subset, FS_CardinalityType DEF Configs, Setting

LEMMA RecordMade ==
  ASSUME NEW e, NEW u \in BOOLEAN, NEW h, NEW f, e = [up |-> u, has |-> h, failed |-> f]
  PROVE  ControlRecord(e) /\ e.up = u /\ e.has = h /\ e.failed = f
  BY DEF ControlRecord

\* What giveAll and give do to the record of the engine.
LEMMA GiveSays ==
  ASSUME NEW e, ControlRecord(e), NEW values
  PROVE  /\ ControlRecord(Control!giveAll(e, values))
         /\ Control!giveAll(e, values).up = e.up
         /\ e.up => /\ DOMAIN Control!giveAll(e, values).has = DOMAIN values \cup DOMAIN e.has
                    /\ \A i \in DOMAIN values : Control!giveAll(e, values).has[i] = values[i]
                    /\ \A i \in DOMAIN e.has \ DOMAIN values : Control!giveAll(e, values).has[i] = e.has[i]
                    /\ Control!giveAll(e, values).failed = e.failed \ DOMAIN values
         /\ ~e.up => /\ Control!giveAll(e, values).has = e.has
                     /\ Control!giveAll(e, values).failed = e.failed \cup DOMAIN values
<1> DEFINE g == Control!giveAll(e, values)
<1>1. CASE e.up
  <2>1. g = [up |-> e.up, has |-> Control!over(values, e.has), failed |-> e.failed \ DOMAIN values]
    BY <1>1 DEF Control!giveAll, ControlRecord
  <2> HIDE DEF g
  <2>2. ControlRecord(g) /\ g.up = e.up /\ g.has = Control!over(values, e.has) /\ g.failed = e.failed \ DOMAIN values
    BY <2>1, RecordMade DEF ControlRecord
  <2>3. /\ DOMAIN g.has = DOMAIN values \cup DOMAIN e.has
        /\ \A i \in DOMAIN values : g.has[i] = values[i]
        /\ \A i \in DOMAIN e.has \ DOMAIN values : g.has[i] = e.has[i]
    <3>1. IsOver(g.has, values, e.has)
      BY <2>2, OverSays
    <3> QED  BY <3>1 DEF IsOver
  <2> QED  BY <1>1, <2>2, <2>3 DEF g
<1>2. CASE ~e.up
  <2>1. g = [up |-> e.up, has |-> e.has, failed |-> e.failed \cup DOMAIN values]
    BY <1>2 DEF Control!giveAll, ControlRecord
  <2> HIDE DEF g
  <2>2. ControlRecord(g) /\ g.up = e.up /\ g.has = e.has /\ g.failed = e.failed \cup DOMAIN values
    BY <2>1, RecordMade DEF ControlRecord
  <2> QED  BY <1>2, <2>2 DEF g
<1> QED  BY <1>1, <1>2

LEMMA OneGiven ==
  ASSUME NEW e, ControlRecord(e), NEW i, NEW v
  PROVE  /\ ControlRecord(Control!give(e, i, v))
         /\ Control!give(e, i, v).up = e.up
         /\ e.up => /\ DOMAIN Control!give(e, i, v).has = {i} \cup DOMAIN e.has
                    /\ Control!give(e, i, v).has[i] = v
                    /\ \A j \in DOMAIN e.has \ {i} : Control!give(e, i, v).has[j] = e.has[j]
                    /\ Control!give(e, i, v).failed = e.failed \ {i}
         /\ ~e.up => /\ Control!give(e, i, v).has = e.has
                     /\ Control!give(e, i, v).failed = e.failed \cup {i}
<1> DEFINE one == [j \in {i} |-> v]
<1>1. DOMAIN one = {i} /\ one[i] = v /\ Control!give(e, i, v) = Control!giveAll(e, one)
  BY DEF Control!give
<1> HIDE DEF one
<1> QED
  BY <1>1, GiveSays

\* What two engines have of an item, and an engine that has been given one.
Same(e, f, i) ==
  /\ i \in DOMAIN f.has <=> i \in DOMAIN e.has
  /\ i \in DOMAIN e.has => f.has[i] = e.has[i]
  /\ i \in f.failed <=> i \in e.failed
Took(e, i, v) == IF e.up THEN i \in DOMAIN e.has /\ e.has[i] = v /\ i \notin e.failed ELSE i \in e.failed

LEMMA AllGiven ==
  ASSUME NEW e, ControlRecord(e), NEW values
  PROVE  /\ ControlRecord(Control!giveAll(e, values)) /\ Control!giveAll(e, values).up = e.up
         /\ \A i \in DOMAIN values : Took(Control!giveAll(e, values), i, values[i])
         /\ \A i : i \notin DOMAIN values => Same(e, Control!giveAll(e, values), i)
<1> DEFINE g == Control!giveAll(e, values)
<1>1. /\ ControlRecord(g) /\ g.up = e.up
      /\ e.up => /\ DOMAIN g.has = DOMAIN values \cup DOMAIN e.has
                 /\ \A i \in DOMAIN values : g.has[i] = values[i]
                 /\ \A i \in DOMAIN e.has \ DOMAIN values : g.has[i] = e.has[i]
                 /\ g.failed = e.failed \ DOMAIN values
      /\ ~e.up => g.has = e.has /\ g.failed = e.failed \cup DOMAIN values
  BY GiveSays
<1> HIDE DEF g
<1> SUFFICES /\ ControlRecord(g) /\ g.up = e.up
             /\ \A i \in DOMAIN values : Took(g, i, values[i])
             /\ \A i : i \notin DOMAIN values => Same(e, g, i)
  BY DEF g
<1> QED
  BY <1>1 DEF Took, Same

LEMMA ItemGiven ==
  ASSUME NEW e, ControlRecord(e), NEW i, NEW v
  PROVE  /\ ControlRecord(Control!give(e, i, v)) /\ Control!give(e, i, v).up = e.up
         /\ Took(Control!give(e, i, v), i, v)
         /\ \A j : j # i => Same(e, Control!give(e, i, v), j)
<1> DEFINE one == [j \in {i} |-> v]
<1>1. DOMAIN one = {i} /\ one[i] = v /\ Control!give(e, i, v) = Control!giveAll(e, one)
  BY DEF Control!give
<1> HIDE DEF one
<1>2. /\ ControlRecord(Control!giveAll(e, one)) /\ Control!giveAll(e, one).up = e.up
      /\ \A j \in DOMAIN one : Took(Control!giveAll(e, one), j, one[j])
      /\ \A j : j \notin DOMAIN one => Same(e, Control!giveAll(e, one), j)
  BY AllGiven
<1> QED
  BY <1>1, <1>2

LEMMA AgreesStays ==
  ASSUME NEW e, NEW f, NEW conf, Agrees(e, conf), \A i \in Restarted(conf) : Same(e, f, i)
  PROVE  Agrees(f, conf)
  BY DEF Agrees, Same

LEMMA RestartedItems ==
  ASSUME NEW conf
  PROVE  /\ Restarted(conf) \subseteq DOMAIN Control!Code
         /\ "GPS_LOCK" \notin Restarted(conf) /\ "SERVER" \notin Restarted(conf) /\ "PDE" \notin Restarted(conf)
  BY DEF Restarted, Control!Technologies, Control!Injected, Control!Code

LEMMA LockTaken ==
  ASSUME NEW f, NEW conf, NEW vote, NEW v, Took(f, "GPS_LOCK", v), f.up \in BOOLEAN,
         v = IF vote > 0 THEN "NONE" ELSE Control!revert("GPS_LOCK", conf.GPS_LOCK)
  PROVE  LockHeld(f, conf, vote)
  BY DEF Took, LockHeld

LEMMA LockStays ==
  ASSUME NEW e, NEW f, NEW conf, NEW vote, LockHeld(e, conf, vote), Same(e, f, "GPS_LOCK")
  PROVE  LockHeld(f, conf, vote)
  BY DEF Same, LockHeld

LEMMA ServerTaken ==
  ASSUME NEW f, NEW url, Took(f, "SERVER", url), f.up \in BOOLEAN
  PROVE  ServerHeld(f, url)
  BY DEF Took, ServerHeld

LEMMA ServerStays ==
  ASSUME NEW e, NEW f, NEW url, ServerHeld(e, url), Same(e, f, "SERVER")
  PROVE  ServerHeld(f, url)
  BY DEF Same, ServerHeld

LEMMA TailOf ==
  ASSUME NEW q \in Seq(ControlMsg), q # <<>>
  PROVE  /\ Tail(q) \in Seq(ControlMsg) /\ Head(q) = q[1] /\ 1 \in DOMAIN q /\ Head(q) \in ControlMsg
         /\ Len(q) \in Nat \ {0} /\ Len(Tail(q)) = Len(q) - 1
         /\ DOMAIN q = 1..Len(q) /\ DOMAIN Tail(q) = 1..(Len(q) - 1)
         /\ \A j \in 1..(Len(q) - 1) : Tail(q)[j] = q[j + 1]
  OBVIOUS

LEMMA SetsLeft ==
  ASSUME NEW q \in Seq(ControlMsg), q # <<>>, Sets(q), Head(q).kind # "setConfig"
  PROVE  Sets(Tail(q))
<1>1. PICK j \in DOMAIN q : q[j].kind = "setConfig"
  BY DEF Sets
<1>2. j \in 2..Len(q)
  BY <1>1, TailOf
<1>3. j - 1 \in DOMAIN Tail(q) /\ Tail(q)[j - 1] = q[j]
  BY <1>2, TailOf
<1> QED
  BY <1>1, <1>3 DEF Sets

\* A message that was handled leaves the engine as it is, or as the new configuration wants it.
LEMMA EngineAfter ==
  ASSUME ControlTypes, EngineInv, settings # <<>>, settings' = Tail(settings),
         configured'.up => Agrees(configured', mGps_conf') \/ Sets(Tail(settings)),
         CapsHeld', LockHeld(configured', mGps_conf', mPowerVoteId'), ServerHeld(configured', mServerUrl')
  PROVE  EngineInv'
<1>1. settings \in Seq(ControlMsg)
  BY DEF ControlTypes
<1>2. ReadFirst'
  <2>1. \A j \in DOMAIN settings' : settings'[j].kind # "readConfig"
    BY <1>1, TailOf DEF EngineInv, ReadFirst
  <2> QED  BY <2>1 DEF ReadFirst
<1>3. EngineHas'
  BY DEF EngineHas
<1>4. \A j \in DOMAIN settings' : settings'[j].kind = "enable" => settings'[j].id > 0
  BY <1>1, TailOf DEF EngineInv
<1> QED
  BY <1>2, <1>3, <1>4 DEF EngineInv

LEMMA EngineKept ==
  ASSUME ControlTypes, EngineInv, settings # <<>>, Head(settings).kind # "setConfig", configured'.up = configured.up,
         \A i \in Restarted(mGps_conf) : Same(configured, configured', i), mGps_conf' = mGps_conf
  PROVE  configured'.up => Agrees(configured', mGps_conf') \/ Sets(Tail(settings))
<1> SUFFICES ASSUME configured.up, ~Sets(Tail(settings)) PROVE Agrees(configured', mGps_conf)
  OBVIOUS
<1>1. settings \in Seq(ControlMsg)
  BY DEF ControlTypes
<1>2. Agrees(configured, mGps_conf)
  BY <1>1, SetsLeft DEF EngineInv, EngineHas
<1> QED
  BY <1>2, AgreesStays

LEMMA ReadConfigKeeps ==
  ASSUME ControlTypes, EngineInv, settings # <<>>, settings' = Tail(settings),
         Head(settings).kind = "readConfig", Control!readConfig
  PROVE  EngineInv'
<1>1. settings \in Seq(ControlMsg)
  BY DEF ControlTypes
<1>2. /\ Sets(settings) /\ DOMAIN configured.has = {} /\ \A c \in {"client", "ulp"} : ~told[c].known
  BY <1>1, TailOf DEF EngineInv, ReadFirst
<1>3. Sets(Tail(settings))
  BY <1>1, <1>2, SetsLeft
<1>4. UNCHANGED <<mPowerVoteId, mServerUrl, configured, told>>
  BY DEF Control!readConfig
<1>5. CapsHeld'
  BY <1>2, <1>4 DEF CapsHeld
<1>6. LockHeld(configured', mGps_conf', mPowerVoteId')
  BY <1>2, <1>4 DEF LockHeld
<1>7. ServerHeld(configured', mServerUrl')
  BY <1>4 DEF EngineInv
<1> QED
  BY <1>3, <1>5, <1>6, <1>7, EngineAfter

LEMMA SetConfigKeeps ==
  ASSUME ControlTypes, EngineInv, settings # <<>>, settings' = Tail(settings), Control!setConfig
  PROVE  EngineInv' /\ ControlRecord(configured')
<1> DEFINE host == mGps_conf.SUPL_HOST
           values == Control!restartValues(mGps_conf)
           g == Control!giveAll(configured, values)
<1>1. ControlRecord(configured) /\ configured.up \in BOOLEAN
  BY DEF ControlTypes, ControlRecord
<1>2. /\ DOMAIN values = Restarted(mGps_conf)
      /\ \A i \in Restarted(mGps_conf) : values[i] = Control!revert(i, mGps_conf[i])
  BY DEF Control!restartValues, Restarted
<1>3. /\ configured' = IF Control!Gives(host) THEN Control!give(g, "SERVER", host) ELSE g
      /\ mServerUrl' = IF Control!Gives(host) THEN host ELSE mServerUrl
      /\ UNCHANGED <<mGps_conf, mPowerVoteId, told>>
  BY DEF Control!setConfig, Control!rememberServer
<1> HIDE DEF values, host
<1>4. /\ ControlRecord(g) /\ g.up = configured.up
      /\ \A i \in DOMAIN values : Took(g, i, values[i])
      /\ \A i : i \notin DOMAIN values => Same(configured, g, i)
  BY <1>1, AllGiven
<1> HIDE DEF g
<1>5. /\ ControlRecord(configured') /\ configured'.up = g.up
      /\ \A i : i # "SERVER" => Same(g, configured', i)
      /\ IF Control!Gives(host) THEN Took(configured', "SERVER", host) ELSE configured' = g
  <2>1. CASE Control!Gives(host)
    BY <1>3, <1>4, <2>1, ItemGiven
  <2>2. CASE ~Control!Gives(host)
    BY <1>3, <1>4, <2>2 DEF Same
  <2> QED  BY <2>1, <2>2
<1>6. ASSUME configured'.up PROVE Agrees(configured', mGps_conf')
  <2>1. Agrees(g, mGps_conf)
    BY <1>2, <1>4, <1>5, <1>6 DEF Agrees, Took
  <2> QED  BY <1>3, <1>5, <2>1, AgreesStays, RestartedItems
<1>7. LockHeld(configured', mGps_conf', mPowerVoteId')
  <2>1. LockHeld(g, mGps_conf, mPowerVoteId)
    BY <1>2, <1>4, LockStays, RestartedItems DEF EngineInv
  <2> QED  BY <1>3, <1>5, <2>1, LockStays
<1>8. ServerHeld(configured', mServerUrl')
  <2>1. ServerHeld(g, mServerUrl)
    BY <1>2, <1>4, ServerStays, RestartedItems DEF EngineInv
  <2>2. CASE Control!Gives(host)
    BY <1>1, <1>3, <1>4, <1>5, <2>2, ServerTaken
  <2>3. CASE ~Control!Gives(host)
    BY <1>3, <1>5, <2>1, <2>3
  <2> QED  BY <2>2, <2>3
<1>9. CapsHeld'
  BY <1>3 DEF EngineInv, CapsHeld
<1> QED
  BY <1>5, <1>6, <1>7, <1>8, <1>9, EngineAfter

\* A vote changes the lock and nothing else.
LEMMA LockKeeps ==
  ASSUME ControlTypes, EngineInv, settings # <<>>, settings' = Tail(settings), Head(settings).kind # "setConfig",
         NEW v, configured' = Control!give(configured, "GPS_LOCK", v), UNCHANGED <<mGps_conf, mServerUrl, told>>,
         v = IF mPowerVoteId' > 0 THEN "NONE" ELSE Control!revert("GPS_LOCK", mGps_conf.GPS_LOCK)
  PROVE  EngineInv' /\ ControlRecord(configured')
<1>1. ControlRecord(configured) /\ configured.up \in BOOLEAN
  BY DEF ControlTypes, ControlRecord
<1>2. /\ ControlRecord(configured') /\ configured'.up = configured.up
      /\ Took(configured', "GPS_LOCK", v)
      /\ \A j : j # "GPS_LOCK" => Same(configured, configured', j)
  BY <1>1, ItemGiven
<1>3. configured'.up => Agrees(configured', mGps_conf') \/ Sets(Tail(settings))
  BY <1>2, EngineKept, RestartedItems
<1>4. LockHeld(configured', mGps_conf', mPowerVoteId')
  BY <1>1, <1>2, LockTaken
<1>5. ServerHeld(configured', mServerUrl')
  BY <1>2, ServerStays DEF EngineInv
<1>6. CapsHeld'
  BY DEF EngineInv, CapsHeld
<1> QED
  BY <1>2, <1>3, <1>4, <1>5, <1>6, EngineAfter

LEMMA NothingTouched ==
  ASSUME ControlTypes, EngineInv, settings # <<>>, settings' = Tail(settings), Head(settings).kind # "setConfig",
         UNCHANGED <<configured, mGps_conf, mServerUrl, mPowerVoteId>>, CapsHeld'
  PROVE  EngineInv' /\ ControlRecord(configured')
<1>1. \A i \in Restarted(mGps_conf) : Same(configured, configured', i)
  BY DEF Same
<1>2. configured'.up => Agrees(configured', mGps_conf') \/ Sets(Tail(settings))
  BY <1>1, EngineKept
<1>3. LockHeld(configured', mGps_conf', mPowerVoteId') /\ ServerHeld(configured', mServerUrl')
  BY DEF EngineInv
<1> QED
  BY <1>2, <1>3, EngineAfter DEF ControlTypes

LEMMA EnableKeeps ==
  ASSUME ControlTypes, EngineInv, settings # <<>>, settings' = Tail(settings), Head(settings).kind = "enable",
         NEW id \in Nat \ {0}, Control!enable(id)
  PROVE  EngineInv' /\ ControlRecord(configured')
<1>1. CASE mPowerVoteId > 0
  <2>1. UNCHANGED <<configured, mGps_conf, mServerUrl, mPowerVoteId, told>>
    BY <1>1 DEF Control!enable
  <2>2. CapsHeld'
    BY <2>1 DEF EngineInv, CapsHeld
  <2> QED  BY <2>1, <2>2, NothingTouched
<1>2. CASE ~(mPowerVoteId > 0)
  <2>1. /\ configured' = Control!give(configured, "GPS_LOCK", "NONE") /\ mPowerVoteId' > 0
        /\ UNCHANGED <<mGps_conf, mServerUrl, told>>
    BY <1>2 DEF Control!enable
  <2> QED  BY <2>1, LockKeeps
<1> QED  BY <1>1, <1>2

LEMMA DisableKeeps ==
  ASSUME ControlTypes, EngineInv, settings # <<>>, settings' = Tail(settings), Head(settings).kind = "disable",
         NEW id, Control!disable(id)
  PROVE  EngineInv' /\ ControlRecord(configured')
<1>1. CASE mPowerVoteId # id
  <2>1. UNCHANGED <<configured, mGps_conf, mServerUrl, mPowerVoteId, told>>
    BY <1>1 DEF Control!disable
  <2>2. CapsHeld'
    BY <2>1 DEF EngineInv, CapsHeld
  <2> QED  BY <2>1, <2>2, NothingTouched
<1>2. CASE mPowerVoteId = id
  <2>1. /\ configured' = Control!give(configured, "GPS_LOCK", Control!revert("GPS_LOCK", mGps_conf.GPS_LOCK))
        /\ mPowerVoteId' = 0 /\ UNCHANGED <<mGps_conf, mServerUrl, told>>
    BY <1>2 DEF Control!disable
  <2> QED  BY <2>1, LockKeeps
<1> QED  BY <1>1, <1>2

LEMMA TellKeeps ==
  ASSUME ControlTypes, EngineInv, settings # <<>>, settings' = Tail(settings), Head(settings).kind # "setConfig",
         NEW who \in {"client", "ulp"}, Control!tellCapabilities(who)
  PROVE  EngineInv' /\ ControlRecord(configured')
<1>1. /\ UNCHANGED <<configured, mGps_conf, mServerUrl, mPowerVoteId>>
      /\ told' = [told EXCEPT ![who] = [known |-> TRUE, caps |-> Control!getCarrierCapabilities(mGps_conf)]]
  BY DEF Control!tellCapabilities, Control!adapter
<1>2. ASSUME NEW c \in {"client", "ulp"}, told'[c].known
      PROVE  told'[c].caps = Control!getCarrierCapabilities(mGps_conf)
  <2>1. DOMAIN told = {"client", "ulp"}
    BY DEF ControlTypes
  <2>2. CASE c = who
    BY <1>1, <2>1, <2>2
  <2>3. CASE c # who
    BY <1>1, <1>2, <2>1, <2>3 DEF EngineInv, CapsHeld
  <2> QED  BY <2>2, <2>3
<1>3. CapsHeld'
  BY <1>1, <1>2 DEF CapsHeld
<1> QED
  BY <1>1, <1>3, NothingTouched

\* What an update does to mGps_conf.
LEMMA ConfAfter ==
  ASSUME ControlTypes, NEW config \in Configs, Control!updateConfig(config)
  PROVE  /\ DOMAIN Control!Defaults \subseteq DOMAIN mGps_conf'
         /\ mGps_conf'.AGPS_CONFIG_INJECT = mGps_conf.AGPS_CONFIG_INJECT
         /\ mGps_conf'.CAPABILITIES = mGps_conf.CAPABILITIES
         /\ \A i \in DOMAIN Control!Code :
              mGps_conf'[i] = IF i \in Control!Stored(config) THEN Control!convert(i, config[i]) ELSE mGps_conf[i]
<1> DEFINE new == [i \in Control!Stored(config) |-> Control!convert(i, config[i])]
<1>1. mGps_conf' = Control!over(new, mGps_conf)
  BY DEF Control!updateConfig
<1>2. /\ DOMAIN new = Control!Stored(config)
      /\ \A i \in Control!Stored(config) : new[i] = Control!convert(i, config[i])
  OBVIOUS
<1> HIDE DEF new
<1>3. Control!Stored(config) \subseteq DOMAIN Control!Code
  BY DEF Control!Stored, Configs, Setting, Items, Servers
<1>4. /\ DOMAIN Control!Code \subseteq DOMAIN Control!Defaults
      /\ "AGPS_CONFIG_INJECT" \in DOMAIN Control!Defaults \ DOMAIN Control!Code
      /\ "CAPABILITIES" \in DOMAIN Control!Defaults \ DOMAIN Control!Code
  BY DEF Control!Code, Control!Defaults
<1>5. DOMAIN Control!Defaults \subseteq DOMAIN mGps_conf
  BY DEF ControlTypes
<1>6. /\ DOMAIN mGps_conf' = DOMAIN new \cup DOMAIN mGps_conf
      /\ \A i \in DOMAIN new : mGps_conf'[i] = new[i]
      /\ \A i \in DOMAIN mGps_conf \ DOMAIN new : mGps_conf'[i] = mGps_conf[i]
  <2>1. IsOver(mGps_conf', new, mGps_conf)
    BY <1>1, OverSays
  <2> QED  BY <2>1 DEF IsOver
<1> QED
  BY <1>2, <1>3, <1>4, <1>5, <1>6

LEMMA ServerGivenSays ==
  ASSUME NEW e, ControlRecord(e), NEW config
  PROVE  /\ ControlRecord(Control!serverGiven(e, config)) /\ Control!serverGiven(e, config).up = e.up
         /\ \A i : i \notin Servers => Same(e, Control!serverGiven(e, config), i)
         /\ IF "SERVER" \in DOMAIN config /\ Control!Gives(config["SERVER"])
            THEN Took(Control!serverGiven(e, config), "SERVER", config["SERVER"])
            ELSE Same(e, Control!serverGiven(e, config), "SERVER")
<1> DEFINE g == Control!serverGiven(e, config)
<1>1. CASE "SERVER" \in DOMAIN config /\ Control!Gives(config["SERVER"])
  <2>1. g = Control!give(e, "SERVER", config["SERVER"])
    BY <1>1 DEF Control!serverGiven
  <2> HIDE DEF g
  <2>2. ControlRecord(g) /\ g.up = e.up /\ Took(g, "SERVER", config["SERVER"]) /\ \A j : j # "SERVER" => Same(e, g, j)
    BY <2>1, ItemGiven
  <2> QED  BY <1>1, <2>2 DEF g, Servers
<1>2. CASE ~("SERVER" \in DOMAIN config /\ Control!Gives(config["SERVER"]))
  <2>1. CASE "PDE" \in DOMAIN config /\ mGps_conf.AGPS_CONFIG_INJECT /\ config["PDE"] # "bad"
    <3>1. g = Control!give(e, "PDE", config["PDE"])
      BY <1>2, <2>1 DEF Control!serverGiven
    <3> HIDE DEF g
    <3>2. ControlRecord(g) /\ g.up = e.up /\ \A j : j # "PDE" => Same(e, g, j)
      BY <3>1, ItemGiven
    <3> QED  BY <1>2, <3>2 DEF g, Servers
  <2>2. CASE ~("PDE" \in DOMAIN config /\ mGps_conf.AGPS_CONFIG_INJECT /\ config["PDE"] # "bad")
    <3>1. g = e
      BY <1>2, <2>2 DEF Control!serverGiven
    <3> HIDE DEF g
    <3> QED  BY <1>2, <3>1 DEF g, Same
  <2> QED  BY <2>1, <2>2
<1> QED  BY <1>1, <1>2

LEMMA UpdateConfigKeeps ==
  ASSUME ControlTypes, EngineInv, settings # <<>>, settings' = Tail(settings), Head(settings).kind # "setConfig",
         NEW config \in Configs, Control!updateConfig(config)
  PROVE  EngineInv' /\ ControlRecord(configured')
<1> DEFINE values == [i \in Control!Given(config) |-> config[i]]
           g == Control!giveAll(configured, values)
<1>1. ControlRecord(configured) /\ configured.up \in BOOLEAN /\ mPowerVoteId \in Nat
  BY DEF ControlTypes, ControlRecord
<1>2. DOMAIN values = Control!Given(config) /\ \A i \in Control!Given(config) : values[i] = config[i]
  OBVIOUS
<1>3. /\ configured' = Control!serverGiven(g, config)
      /\ mServerUrl' = IF "SERVER" \in DOMAIN config /\ Control!Gives(config["SERVER"]) THEN config["SERVER"] ELSE mServerUrl
      /\ mPowerVoteId' = mPowerVoteId
      /\ told' = Control!broadcast(mGps_conf')
  BY DEF Control!updateConfig, Control!rememberServer
<1> HIDE DEF values
<1>4. /\ ControlRecord(g) /\ g.up = configured.up
      /\ \A i \in DOMAIN values : Took(g, i, values[i])
      /\ \A i : i \notin DOMAIN values => Same(configured, g, i)
  BY <1>1, AllGiven
<1> HIDE DEF g
<1>5. /\ ControlRecord(configured') /\ configured'.up = g.up
      /\ \A i : i \notin Servers => Same(g, configured', i)
      /\ IF "SERVER" \in DOMAIN config /\ Control!Gives(config["SERVER"])
         THEN Took(configured', "SERVER", config["SERVER"]) ELSE Same(g, configured', "SERVER")
  BY <1>3, <1>4, ServerGivenSays
<1>6. /\ DOMAIN Control!Defaults \subseteq DOMAIN mGps_conf'
      /\ mGps_conf'.AGPS_CONFIG_INJECT = mGps_conf.AGPS_CONFIG_INJECT
      /\ mGps_conf'.CAPABILITIES = mGps_conf.CAPABILITIES
      /\ \A i \in DOMAIN Control!Code :
           mGps_conf'[i] = IF i \in Control!Stored(config) THEN Control!convert(i, config[i]) ELSE mGps_conf[i]
  BY ConfAfter
<1>7. /\ Restarted(mGps_conf') = Restarted(mGps_conf) /\ Restarted(mGps_conf) \subseteq DOMAIN Control!Code
      /\ \A i \in Restarted(mGps_conf) : i \notin Servers
  BY <1>6, RestartedItems DEF Restarted, Servers
<1>8. \A i \in Control!Given(config) \cap DOMAIN Control!Code :
        i \in Control!Stored(config) => values[i] = Control!revert(i, mGps_conf'[i])
  <2> SUFFICES ASSUME NEW i \in Control!Given(config) \cap DOMAIN Control!Code, i \in Control!Stored(config)
               PROVE  config[i] = Control!revert(i, Control!convert(i, config[i]))
    BY <1>2, <1>6
  <2>1. Right(i, config[i])
    BY DEF Control!Stored, Configs, Setting, Servers
  <2> QED  BY <2>1, ConvertBack
<1>9. ASSUME NEW i \in Restarted(mGps_conf)
      PROVE  \/ i \in Control!Given(config) /\ i \in Control!Stored(config)
             \/ i \notin Control!Given(config) /\ mGps_conf'[i] = mGps_conf[i]
  BY <1>6, <1>7 DEF Control!Given, Control!Stored, Restarted, Servers, Control!Injected, Control!Technologies
<1>10. configured'.up => Agrees(configured', mGps_conf') \/ Sets(Tail(settings))
  <2> SUFFICES ASSUME configured.up, ~Sets(Tail(settings)) PROVE Agrees(configured', mGps_conf')
    BY <1>4, <1>5
  <2>1. Agrees(configured, mGps_conf)
    <3>1. settings \in Seq(ControlMsg)
      BY DEF ControlTypes
    <3> QED  BY <3>1, SetsLeft DEF EngineInv, EngineHas
  <2>2. ASSUME NEW i \in Restarted(mGps_conf)
        PROVE  i \in DOMAIN g.has /\ g.has[i] = Control!revert(i, mGps_conf'[i])
    <3>1. CASE i \in Control!Given(config) /\ i \in Control!Stored(config)
      BY <1>2, <1>4, <1>7, <1>8, <3>1 DEF Took
    <3>2. CASE i \notin Control!Given(config) /\ mGps_conf'[i] = mGps_conf[i]
      BY <1>2, <1>4, <2>1, <3>2 DEF Agrees, Same
    <3> QED  BY <1>9, <3>1, <3>2
  <2>3. Agrees(g, mGps_conf')
    BY <1>7, <2>2 DEF Agrees
  <2> QED  BY <1>5, <1>7, <2>3, AgreesStays
<1>11. LockHeld(configured', mGps_conf', mPowerVoteId')
  <2>1. "GPS_LOCK" \in DOMAIN Control!Code /\ "GPS_LOCK" \notin Servers
    BY DEF Control!Code, Servers
  <2>2. LockHeld(g, mGps_conf', mPowerVoteId)
    <3>1. CASE "GPS_LOCK" \in Control!Given(config)
      <4>1. ~(mPowerVoteId > 0) /\ "GPS_LOCK" \in Control!Stored(config)
        BY <1>1, <3>1 DEF Control!Given, Control!Stored, Control!lockFree, Control!Injected, Control!Technologies
      <4>2. Took(g, "GPS_LOCK", Control!revert("GPS_LOCK", mGps_conf'["GPS_LOCK"]))
        BY <1>2, <1>4, <1>8, <2>1, <3>1, <4>1
      <4> QED  BY <1>1, <1>4, <4>1, <4>2, LockTaken
    <3>2. CASE "GPS_LOCK" \notin Control!Given(config)
      <4>1. mPowerVoteId > 0 \/ "GPS_LOCK" \notin Control!Stored(config)
        BY <1>1, <3>2 DEF Control!Given, Control!Stored, Control!lockFree
      <4>2. Same(configured, g, "GPS_LOCK")
        BY <1>2, <1>4, <3>2
      <4>3. LockHeld(configured, mGps_conf', mPowerVoteId)
        BY <1>6, <2>1, <4>1 DEF EngineInv, LockHeld
      <4> QED  BY <4>2, <4>3, LockStays
    <3> QED  BY <3>1, <3>2
  <2> QED  BY <1>3, <1>5, <2>1, <2>2, LockStays
<1>12. ServerHeld(configured', mServerUrl')
  <2>1. "SERVER" \notin Control!Given(config)
    BY DEF Control!Given, Control!Injected, Control!Technologies
  <2>2. ServerHeld(g, mServerUrl)
    BY <1>2, <1>4, <2>1, ServerStays DEF EngineInv
  <2>3. CASE "SERVER" \in DOMAIN config /\ Control!Gives(config["SERVER"])
    BY <1>1, <1>3, <1>4, <1>5, <2>3, ServerTaken
  <2>4. CASE ~("SERVER" \in DOMAIN config /\ Control!Gives(config["SERVER"]))
    BY <1>3, <1>5, <2>2, <2>4, ServerStays
  <2> QED  BY <2>3, <2>4
<1>13. CapsHeld'
  <2>1. DOMAIN told = {"client", "ulp"}
    BY DEF ControlTypes
  <2>2. CASE mGps_conf'.SUPL_MODE = mGps_conf.SUPL_MODE
    <3>1. Control!getCarrierCapabilities(mGps_conf') = Control!getCarrierCapabilities(mGps_conf)
      BY <1>6, <2>2 DEF Control!getCarrierCapabilities
    <3>2. told' = told
      BY <1>3, <2>2 DEF Control!broadcast
    <3> QED  BY <3>1, <3>2 DEF EngineInv, CapsHeld
  <2>3. CASE mGps_conf'.SUPL_MODE # mGps_conf.SUPL_MODE
    <3>1. told' = [c \in DOMAIN told |-> IF told[c].known
                     THEN [known |-> TRUE, caps |-> Control!getCarrierCapabilities(mGps_conf')] ELSE told[c]]
      BY <1>3, <2>3 DEF Control!broadcast
    <3>2. \A c \in {"client", "ulp"} : told'[c].known => told'[c].caps = Control!getCarrierCapabilities(mGps_conf')
      BY <2>1, <3>1
    <3> QED  BY <3>2 DEF CapsHeld
  <2> QED  BY <2>2, <2>3
<1> QED
  BY <1>5, <1>10, <1>11, <1>12, <1>13, EngineAfter

LEMMA Appended ==
  ASSUME NEW q \in Seq(ControlMsg), NEW m \in ControlMsg
  PROVE  /\ Append(q, m) \in Seq(ControlMsg) /\ Len(Append(q, m)) = Len(q) + 1 /\ Len(q) \in Nat
         /\ DOMAIN q = 1..Len(q) /\ DOMAIN Append(q, m) = 1..(Len(q) + 1)
         /\ \A j \in 1..Len(q) : Append(q, m)[j] = q[j]
         /\ Append(q, m)[Len(q) + 1] = m
  OBVIOUS

\* A message that is no vote changes nothing about the votes.
LEMMA VotesAppended ==
  ASSUME NEW q \in Seq(ControlMsg), NEW m \in ControlMsg, NEW vote \in Nat
  PROVE  /\ m.kind = "enable" => Votes(Append(q, m), vote) = Votes(q, vote) \cup {Len(q) + 1}
         /\ m.kind # "enable" => Votes(Append(q, m), vote) = Votes(q, vote)
         /\ m.kind = "disable" => Withdrawn(Append(q, m)) = Withdrawn(q) \cup {Len(q) + 1}
         /\ m.kind # "disable" => Withdrawn(Append(q, m)) = Withdrawn(q)
         /\ \A j \in Votes(q, vote) : VoteId(Append(q, m), vote, j) = VoteId(q, vote, j) /\ j \in 0..Len(q)
         /\ \A w \in Withdrawn(q) : Append(q, m)[w] = q[w] /\ w \in 1..Len(q)
         /\ VoteId(Append(q, m), vote, Len(q) + 1) = m.id /\ Append(q, m)[Len(q) + 1] = m /\ Len(q) \in Nat
<1> DEFINE r == Append(q, m)
           n == Len(q) + 1
<1>1. /\ Len(r) = n /\ Len(q) \in Nat /\ r[n] = m
      /\ \A j \in 1..Len(q) : r[j] = q[j]
  BY Appended
<1> HIDE DEF r
<1>2. \A j \in 1..n : j = n \/ j \in 1..Len(q)
  BY <1>1
<1>3. /\ 0..n = {0} \cup 1..n /\ n # 0 /\ n \notin 0..Len(q) /\ n \in 1..n
      /\ 0..Len(q) = {0} \cup 1..Len(q) /\ 0 \notin 1..n /\ 1..Len(q) \subseteq 1..n
  BY <1>1
<1> HIDE DEF n
<1>4. /\ m.kind = "enable" => Votes(r, vote) = Votes(q, vote) \cup {n}
      /\ m.kind # "enable" => Votes(r, vote) = Votes(q, vote)
  BY <1>1, <1>2, <1>3 DEF Votes
<1>5. /\ m.kind = "disable" => Withdrawn(r) = Withdrawn(q) \cup {n}
      /\ m.kind # "disable" => Withdrawn(r) = Withdrawn(q)
  BY <1>1, <1>2, <1>3 DEF Withdrawn
<1>6. \A j \in Votes(q, vote) : VoteId(r, vote, j) = VoteId(q, vote, j) /\ j \in 0..Len(q)
  BY <1>1, <1>3 DEF Votes, VoteId
<1>7. \A w \in Withdrawn(q) : r[w] = q[w] /\ w \in 1..Len(q)
  BY <1>1 DEF Withdrawn
<1>8. VoteId(r, vote, n) = m.id
  BY <1>1, <1>3 DEF VoteId
<1> QED
  BY <1>1, <1>4, <1>5, <1>6, <1>7, <1>8 DEF r, n

LEMMA OtherAppended ==
  ASSUME NEW q \in Seq(ControlMsg), NEW m \in ControlMsg, NEW vote \in Nat, m.kind \notin {"enable", "disable"},
         NEW last \in Nat, NEW newest \in Nat, last <= newest
  PROVE  /\ VotesInTurn(q, vote, last) => VotesInTurn(Append(q, m), vote, newest)
         /\ \A s : VoteOpen(q, vote, s) => VoteOpen(Append(q, m), vote, s)
         /\ VotesClosed(q, vote) => VotesClosed(Append(q, m), vote)
<1> DEFINE r == Append(q, m)
<1>1. /\ Votes(r, vote) = Votes(q, vote) /\ Withdrawn(r) = Withdrawn(q)
      /\ \A j \in Votes(q, vote) : VoteId(r, vote, j) = VoteId(q, vote, j) /\ j \in 0..Len(q)
      /\ \A w \in Withdrawn(q) : r[w] = q[w] /\ w \in 1..Len(q)
  BY VotesAppended
<1> HIDE DEF r
<1>2. VotesInTurn(q, vote, last) => VotesInTurn(r, vote, newest)
  <2> SUFFICES ASSUME VotesInTurn(q, vote, last) PROVE VotesInTurn(r, vote, newest)
    OBVIOUS
  <2>1. \A j \in Votes(r, vote) : VoteId(r, vote, j) \in 1..newest
    BY <1>1 DEF VotesInTurn
  <2>2. \A j, k \in Votes(r, vote) : j < k =>
          /\ VoteId(r, vote, j) # VoteId(r, vote, k)
          /\ \E w \in Withdrawn(r) : j < w /\ w < k /\ r[w].id = VoteId(r, vote, j)
    BY <1>1 DEF VotesInTurn
  <2>3. \A w \in Withdrawn(r) : \E j \in Votes(r, vote) : j < w /\ VoteId(r, vote, j) = r[w].id
    BY <1>1 DEF VotesInTurn
  <2>4. \A v, w \in Withdrawn(r) : r[v].id = r[w].id => v = w
    BY <1>1 DEF VotesInTurn
  <2> QED  BY <2>1, <2>2, <2>3, <2>4 DEF VotesInTurn
<1>3. \A j \in Votes(q, vote) : WithdrawnAfter(q, vote, j) => WithdrawnAfter(r, vote, j)
  BY <1>1 DEF WithdrawnAfter
<1>4. \A s : VoteOpen(q, vote, s) => VoteOpen(r, vote, s)
  BY <1>1, <1>3 DEF VoteOpen
<1>5. VotesClosed(q, vote) => VotesClosed(r, vote)
  BY <1>1, <1>3 DEF VotesClosed
<1> QED
  BY <1>2, <1>4, <1>5 DEF r

LEMMA VoteAppended ==
  ASSUME NEW q \in Seq(ControlMsg), NEW m \in ControlMsg, NEW vote \in Nat, m.kind = "enable",
         NEW last \in Nat, m.id > last, VotesInTurn(q, vote, last), VotesClosed(q, vote)
  PROVE  VotesInTurn(Append(q, m), vote, m.id) /\ VoteOpen(Append(q, m), vote, m.id)
<1> DEFINE r == Append(q, m)
           n == Len(q) + 1
<1>1. /\ Votes(r, vote) = Votes(q, vote) \cup {n} /\ Withdrawn(r) = Withdrawn(q)
      /\ \A j \in Votes(q, vote) : VoteId(r, vote, j) = VoteId(q, vote, j) /\ j \in 0..Len(q)
      /\ \A w \in Withdrawn(q) : r[w] = q[w] /\ w \in 1..Len(q)
      /\ VoteId(r, vote, n) = m.id /\ r[n] = m /\ Len(q) \in Nat
  BY VotesAppended
<1>2. m.id \in Nat
  BY DEF ControlMsg
<1> HIDE DEF r
<1>3. \A j \in Votes(q, vote) : VoteId(q, vote, j) \in 1..last /\ VoteId(q, vote, j) # m.id
  BY <1>2 DEF VotesInTurn
<1>4. \A w \in Withdrawn(q) : w < n
  BY <1>1
<1>5. /\ \A j \in Votes(r, vote) : VoteId(r, vote, j) \in 1..m.id
      /\ \A w \in Withdrawn(r) : \E j \in Votes(r, vote) : j < w /\ VoteId(r, vote, j) = r[w].id
      /\ \A v, w \in Withdrawn(r) : r[v].id = r[w].id => v = w
  <2>1. \A j \in Votes(r, vote) : VoteId(r, vote, j) \in 1..m.id
    BY <1>1, <1>2, <1>3
  <2>2. \A w \in Withdrawn(r) : \E j \in Votes(r, vote) : j < w /\ VoteId(r, vote, j) = r[w].id
    BY <1>1 DEF VotesInTurn
  <2>3. \A v, w \in Withdrawn(r) : r[v].id = r[w].id => v = w
    BY <1>1 DEF VotesInTurn
  <2> QED  BY <2>1, <2>2, <2>3
<1>6. ASSUME NEW j \in Votes(r, vote), NEW k \in Votes(r, vote), j < k
      PROVE  /\ VoteId(r, vote, j) # VoteId(r, vote, k)
             /\ \E w \in Withdrawn(r) : j < w /\ w < k /\ r[w].id = VoteId(r, vote, j)
  <2>1. j \in Votes(q, vote)
    BY <1>1, <1>6
  <2>2. CASE k = n
    BY <1>1, <1>3, <1>4, <2>1, <2>2 DEF VotesClosed, WithdrawnAfter
  <2>3. CASE k # n
    BY <1>1, <1>6, <2>1, <2>3 DEF VotesInTurn
  <2> QED  BY <2>2, <2>3
<1>7. VotesInTurn(r, vote, m.id)
  BY <1>5, <1>6 DEF VotesInTurn
<1>8. VoteOpen(r, vote, m.id)
  <2>1. \A w \in Withdrawn(q) : q[w].id # m.id
    BY <1>3 DEF VotesInTurn
  <2>2. \A j \in Votes(q, vote) : WithdrawnAfter(r, vote, j)
    BY <1>1 DEF VotesClosed, WithdrawnAfter
  <2> QED  BY <1>1, <2>1, <2>2 DEF VoteOpen
<1> QED
  BY <1>7, <1>8 DEF r

LEMMA WithdrawalAppended ==
  ASSUME NEW q \in Seq(ControlMsg), NEW m \in ControlMsg, NEW vote \in Nat, m.kind = "disable",
         NEW last \in Nat, VotesInTurn(q, vote, last), VoteOpen(q, vote, m.id)
  PROVE  VotesInTurn(Append(q, m), vote, last) /\ VotesClosed(Append(q, m), vote)
<1> DEFINE r == Append(q, m)
           n == Len(q) + 1
<1>1. /\ Votes(r, vote) = Votes(q, vote) /\ Withdrawn(r) = Withdrawn(q) \cup {n}
      /\ \A j \in Votes(q, vote) : VoteId(r, vote, j) = VoteId(q, vote, j) /\ j \in 0..Len(q)
      /\ \A w \in Withdrawn(q) : r[w] = q[w] /\ w \in 1..Len(q)
      /\ r[n] = m /\ Len(q) \in Nat
  BY VotesAppended
<1> HIDE DEF r
<1>2. \A j \in Votes(q, vote) : j < n
  BY <1>1
<1>3. /\ \A j \in Votes(r, vote) : VoteId(r, vote, j) \in 1..last
      /\ \A j, k \in Votes(r, vote) : j < k =>
           /\ VoteId(r, vote, j) # VoteId(r, vote, k)
           /\ \E w \in Withdrawn(r) : j < w /\ w < k /\ r[w].id = VoteId(r, vote, j)
  <2>1. \A j \in Votes(r, vote) : VoteId(r, vote, j) \in 1..last
    BY <1>1 DEF VotesInTurn
  <2>2. ASSUME NEW j \in Votes(r, vote), NEW k \in Votes(r, vote), j < k
        PROVE  /\ VoteId(r, vote, j) # VoteId(r, vote, k)
               /\ \E w \in Withdrawn(r) : j < w /\ w < k /\ r[w].id = VoteId(r, vote, j)
    <3>1. /\ VoteId(q, vote, j) # VoteId(q, vote, k)
          /\ \E w \in Withdrawn(q) : j < w /\ w < k /\ q[w].id = VoteId(q, vote, j)
      BY <1>1, <2>2 DEF VotesInTurn
    <3> QED  BY <1>1, <3>1
  <2> QED  BY <2>1, <2>2
<1>4. \A w \in Withdrawn(r) : \E j \in Votes(r, vote) : j < w /\ VoteId(r, vote, j) = r[w].id
  BY <1>1, <1>2 DEF VotesInTurn, VoteOpen
<1>5. \A v, w \in Withdrawn(r) : r[v].id = r[w].id => v = w
  BY <1>1 DEF VotesInTurn, VoteOpen
<1>6. VotesInTurn(r, vote, last)
  BY <1>3, <1>4, <1>5 DEF VotesInTurn
<1>7. VotesClosed(r, vote)
  BY <1>1, <1>2 DEF VotesClosed, VoteOpen, WithdrawnAfter
<1> QED
  BY <1>6, <1>7 DEF r

\* Where a vote was before the first message was taken, if the vote in force was at b.
Before(b, j) == IF j = 0 THEN b ELSE j + 1

LEMMA WithdrawnTaken ==
  ASSUME NEW q \in Seq(ControlMsg), q # <<>>
  PROVE  /\ \A w \in Withdrawn(Tail(q)) : w \in Nat \ {0} /\ w + 1 \in Withdrawn(q) /\ Tail(q)[w] = q[w + 1]
         /\ \A w \in Withdrawn(q) : w = 1 \/ (w \in Nat /\ w > 1 /\ w - 1 \in Withdrawn(Tail(q)) /\ Tail(q)[w - 1] = q[w])
<1> DEFINE r == Tail(q)
<1>1. /\ Len(q) \in Nat \ {0} /\ Len(r) = Len(q) - 1
      /\ \A j \in 1..(Len(q) - 1) : r[j] = q[j + 1]
  BY TailOf
<1> HIDE DEF r
<1>2. \A w \in Withdrawn(r) : w \in Nat \ {0} /\ w + 1 \in Withdrawn(q) /\ r[w] = q[w + 1]
  BY <1>1 DEF Withdrawn
<1>3. ASSUME NEW w \in Withdrawn(q), w # 1
      PROVE  w \in Nat /\ w > 1 /\ w - 1 \in Withdrawn(r) /\ r[w - 1] = q[w]
  <2>1. w \in Nat /\ w > 1 /\ w - 1 \in 1..(Len(q) - 1) /\ (w - 1) + 1 = w /\ q[w].kind = "disable"
    BY <1>1, <1>3 DEF Withdrawn
  <2>2. r[w - 1] = q[w]
    BY <1>1, <2>1
  <2> QED  BY <1>1, <2>1, <2>2 DEF Withdrawn
<1> QED
  BY <1>2, <1>3 DEF r

\* Votes keep their order when the first message is no withdrawal.
LEMMA VotesShift ==
  ASSUME NEW q \in Seq(ControlMsg), q # <<>>, Head(q).kind # "disable", NEW vote \in Nat, NEW voted \in Nat,
         NEW b \in {0, 1}, NEW last,
         \A j \in Votes(Tail(q), voted) :
           j \in Nat /\ Before(b, j) \in Votes(q, vote) /\ VoteId(Tail(q), voted, j) = VoteId(q, vote, Before(b, j)),
         \A k \in Votes(q, vote) : \E j \in Votes(Tail(q), voted) : Before(b, j) = k
  PROVE  /\ VotesInTurn(q, vote, last) => VotesInTurn(Tail(q), voted, last)
         /\ \A s : VoteOpen(q, vote, s) => VoteOpen(Tail(q), voted, s)
         /\ VotesClosed(q, vote) => VotesClosed(Tail(q), voted)
<1> DEFINE r == Tail(q)
<1>1. /\ \A w \in Withdrawn(r) : w \in Nat \ {0} /\ w + 1 \in Withdrawn(q) /\ r[w] = q[w + 1]
      /\ \A w \in Withdrawn(q) : w = 1 \/ (w \in Nat /\ w > 1 /\ w - 1 \in Withdrawn(r) /\ r[w - 1] = q[w])
  BY WithdrawnTaken
<1>2. 1 \notin Withdrawn(q)
  BY TailOf DEF Withdrawn
<1> HIDE DEF r
<1>3. \A j \in Votes(r, voted) : j \in Nat /\ Before(b, j) \in Votes(q, vote) /\ VoteId(r, voted, j) = VoteId(q, vote, Before(b, j))
  BY DEF r
<1>4. \A k \in Votes(q, vote) : \E j \in Votes(r, voted) : Before(b, j) = k
  BY DEF r
<1>5. \A j, k \in Nat : (j < k <=> Before(b, j) < Before(b, k)) /\ Before(b, j) \in Nat
  BY DEF Before
<1>6. \A j \in Nat, w \in Nat \ {0} : j < w <=> Before(b, j) < w + 1
  BY DEF Before
<1>7. ASSUME NEW j \in Votes(r, voted), WithdrawnAfter(q, vote, Before(b, j)) PROVE WithdrawnAfter(r, voted, j)
  <2>1. PICK w \in Withdrawn(q) : Before(b, j) < w /\ q[w].id = VoteId(q, vote, Before(b, j))
    BY <1>7 DEF WithdrawnAfter
  <2>2. w - 1 \in Withdrawn(r) /\ r[w - 1] = q[w] /\ w \in Nat /\ w > 1
    BY <1>1, <1>2
  <2>3. j < w - 1
    BY <1>3, <2>1, <2>2 DEF Before
  <2> QED  BY <1>3, <2>1, <2>2, <2>3 DEF WithdrawnAfter
<1>8. VotesInTurn(q, vote, last) => VotesInTurn(r, voted, last)
  <2> SUFFICES ASSUME VotesInTurn(q, vote, last) PROVE VotesInTurn(r, voted, last)
    OBVIOUS
  <2>1. \A j \in Votes(r, voted) : VoteId(r, voted, j) \in 1..last
    BY <1>3 DEF VotesInTurn
  <2>2. ASSUME NEW j \in Votes(r, voted), NEW k \in Votes(r, voted), j < k
        PROVE  /\ VoteId(r, voted, j) # VoteId(r, voted, k)
               /\ \E w \in Withdrawn(r) : j < w /\ w < k /\ r[w].id = VoteId(r, voted, j)
    <3>1. Before(b, j) < Before(b, k)
      BY <1>3, <1>5, <2>2
    <3>2. PICK w \in Withdrawn(q) : Before(b, j) < w /\ w < Before(b, k) /\ q[w].id = VoteId(q, vote, Before(b, j))
      BY <1>3, <3>1 DEF VotesInTurn
    <3>3. w - 1 \in Withdrawn(r) /\ r[w - 1] = q[w] /\ w \in Nat /\ w > 1
      BY <1>1, <1>2
    <3>4. j < w - 1 /\ w - 1 < k
      BY <1>3, <3>2, <3>3 DEF Before
    <3>5. VoteId(r, voted, j) # VoteId(r, voted, k)
      BY <1>3, <3>1 DEF VotesInTurn
    <3> QED  BY <1>3, <3>2, <3>3, <3>4, <3>5
  <2>3. ASSUME NEW w \in Withdrawn(r) PROVE \E j \in Votes(r, voted) : j < w /\ VoteId(r, voted, j) = r[w].id
    <3>1. PICK k \in Votes(q, vote) : k < w + 1 /\ VoteId(q, vote, k) = q[w + 1].id
      BY <1>1 DEF VotesInTurn
    <3>2. PICK j \in Votes(r, voted) : Before(b, j) = k
      BY <1>4
    <3> QED  BY <1>1, <1>3, <1>6, <3>1, <3>2
  <2>4. ASSUME NEW v \in Withdrawn(r), NEW w \in Withdrawn(r), r[v].id = r[w].id PROVE v = w
    <3>1. v + 1 \in Withdrawn(q) /\ w + 1 \in Withdrawn(q) /\ q[v + 1].id = q[w + 1].id
      BY <1>1, <2>4
    <3>2. v + 1 = w + 1
      BY <3>1 DEF VotesInTurn
    <3> QED  BY <1>1, <3>2
  <2> QED  BY <2>1, <2>2, <2>3, <2>4 DEF VotesInTurn
<1>9. ASSUME NEW s, VoteOpen(q, vote, s) PROVE VoteOpen(r, voted, s)
  <2>1. PICK k \in Votes(q, vote) : VoteId(q, vote, k) = s
    BY <1>9 DEF VoteOpen
  <2>2. PICK j \in Votes(r, voted) : Before(b, j) = k
    BY <1>4
  <2>3. \A w \in Withdrawn(r) : r[w].id # s
    BY <1>1, <1>9 DEF VoteOpen
  <2>4. \A i \in Votes(r, voted) : VoteId(r, voted, i) = s \/ WithdrawnAfter(r, voted, i)
    BY <1>3, <1>7, <1>9 DEF VoteOpen
  <2> QED  BY <1>3, <2>1, <2>2, <2>3, <2>4 DEF VoteOpen
<1>10. VotesClosed(q, vote) => VotesClosed(r, voted)
  BY <1>3, <1>7 DEF VotesClosed
<1> QED
  BY <1>8, <1>9, <1>10 DEF r

LEMMA OtherTaken ==
  ASSUME NEW q \in Seq(ControlMsg), q # <<>>, Head(q).kind \notin {"enable", "disable"}, NEW vote \in Nat, NEW last
  PROVE  /\ VotesInTurn(q, vote, last) => VotesInTurn(Tail(q), vote, last)
         /\ \A s : VoteOpen(q, vote, s) => VoteOpen(Tail(q), vote, s)
         /\ VotesClosed(q, vote) => VotesClosed(Tail(q), vote)
<1> DEFINE r == Tail(q)
<1>1. /\ Len(q) \in Nat \ {0} /\ Len(r) = Len(q) - 1 /\ Head(q) = q[1]
      /\ \A j \in 1..(Len(q) - 1) : r[j] = q[j + 1]
  BY TailOf
<1> HIDE DEF r
<1>2. ASSUME NEW j \in Votes(r, vote)
      PROVE  j \in Nat /\ Before(0, j) \in Votes(q, vote) /\ VoteId(r, vote, j) = VoteId(q, vote, Before(0, j))
  BY <1>1 DEF Votes, VoteId, Before
<1>3. ASSUME NEW k \in Votes(q, vote) PROVE \E j \in Votes(r, vote) : Before(0, j) = k
  <2>1. CASE k = 0
    <3>1. 0 \in Votes(r, vote)
      BY <1>1, <2>1 DEF Votes
    <3> QED  BY <2>1, <3>1 DEF Before
  <2>2. CASE k # 0
    <3>1. k \in 2..Len(q) /\ q[k].kind = "enable"
      BY <1>1, <2>2 DEF Votes
    <3>2. k - 1 \in 1..(Len(q) - 1) /\ r[k - 1] = q[k]
      BY <1>1, <3>1
    <3>3. k - 1 \in Votes(r, vote) /\ Before(0, k - 1) = k
      BY <1>1, <3>1, <3>2 DEF Votes, Before
    <3> QED  BY <3>3
  <2> QED  BY <2>1, <2>2
<1> QED
  BY <1>2, <1>3, VotesShift DEF r

LEMMA VoteTaken ==
  ASSUME NEW q \in Seq(ControlMsg), q # <<>>, Head(q).kind = "enable", NEW vote \in Nat, NEW last,
         VotesInTurn(q, vote, last)
  PROVE  /\ vote = 0 /\ Head(q).id \in Nat \ {0}
         /\ VotesInTurn(Tail(q), Head(q).id, last)
         /\ \A s : VoteOpen(q, vote, s) => VoteOpen(Tail(q), Head(q).id, s)
         /\ VotesClosed(q, vote) => VotesClosed(Tail(q), Head(q).id)
<1> DEFINE r == Tail(q)
           id == Head(q).id
<1>1. /\ Len(q) \in Nat \ {0} /\ Len(r) = Len(q) - 1 /\ Head(q) = q[1] /\ Head(q) \in ControlMsg
      /\ \A j \in 1..(Len(q) - 1) : r[j] = q[j + 1]
  BY TailOf
<1>2. q[1].kind = "enable" /\ id = q[1].id
  BY <1>1
<1>3. id \in Nat
  BY <1>1 DEF ControlMsg
<1> HIDE DEF r, id
<1>4. 1 \in Votes(q, vote) /\ VoteId(q, vote, 1) = id
  BY <1>1, <1>2 DEF Votes, VoteId
<1>5. id > 0
  BY <1>3, <1>4 DEF VotesInTurn
<1>6. 0 \notin Votes(q, vote)
  <2> SUFFICES ASSUME 0 \in Votes(q, vote) PROVE FALSE
    OBVIOUS
  <2>1. PICK w \in Withdrawn(q) : 0 < w /\ w < 1
    BY <1>4 DEF VotesInTurn
  <2> QED  BY <1>1, <2>1 DEF Withdrawn
<1>7. vote = 0
  BY <1>1, <1>6 DEF Votes
<1>8. ASSUME NEW j \in Votes(r, id)
      PROVE  j \in Nat /\ Before(1, j) \in Votes(q, vote) /\ VoteId(r, id, j) = VoteId(q, vote, Before(1, j))
  BY <1>1, <1>2, <1>4, <1>8 DEF Votes, VoteId, Before
<1>9. ASSUME NEW k \in Votes(q, vote) PROVE \E j \in Votes(r, id) : Before(1, j) = k
  <2>1. CASE k = 1
    <3>1. 0 \in Votes(r, id)
      BY <1>1, <1>5 DEF Votes
    <3> QED  BY <2>1, <3>1 DEF Before
  <2>2. CASE k # 1
    <3>1. k \in 2..Len(q) /\ q[k].kind = "enable"
      BY <1>1, <1>6, <2>2 DEF Votes
    <3>2. k - 1 \in 1..(Len(q) - 1) /\ r[k - 1] = q[k]
      BY <1>1, <3>1
    <3>3. k - 1 \in Votes(r, id) /\ Before(1, k - 1) = k
      BY <1>1, <3>1, <3>2 DEF Votes, Before
    <3> QED  BY <3>3
  <2> QED  BY <2>1, <2>2
<1>10. /\ VotesInTurn(q, vote, last) => VotesInTurn(r, id, last)
       /\ \A s : VoteOpen(q, vote, s) => VoteOpen(r, id, s)
       /\ VotesClosed(q, vote) => VotesClosed(r, id)
  BY <1>3, <1>8, <1>9, VotesShift DEF r
<1> QED
  BY <1>3, <1>5, <1>7, <1>10 DEF r, id

LEMMA WithdrawalTaken ==
  ASSUME NEW q \in Seq(ControlMsg), q # <<>>, Head(q).kind = "disable", NEW vote \in Nat, NEW last,
         VotesInTurn(q, vote, last)
  PROVE  /\ vote = Head(q).id
         /\ VotesInTurn(Tail(q), 0, last)
         /\ \A s : VoteOpen(q, vote, s) => VoteOpen(Tail(q), 0, s)
         /\ VotesClosed(q, vote) => VotesClosed(Tail(q), 0)
<1> DEFINE r == Tail(q)
<1>1. /\ Len(q) \in Nat \ {0} /\ Len(r) = Len(q) - 1 /\ Head(q) = q[1]
      /\ \A j \in 1..(Len(q) - 1) : r[j] = q[j + 1]
  BY TailOf
<1>2. /\ \A w \in Withdrawn(r) : w \in Nat \ {0} /\ w + 1 \in Withdrawn(q) /\ r[w] = q[w + 1]
      /\ \A w \in Withdrawn(q) : w = 1 \/ (w \in Nat /\ w > 1 /\ w - 1 \in Withdrawn(r) /\ r[w - 1] = q[w])
  BY WithdrawnTaken
<1> HIDE DEF r
<1>3. 1 \in Withdrawn(q)
  BY <1>1 DEF Withdrawn
<1>4. 0 \in Votes(q, vote) /\ vote = q[1].id
  <2>1. PICK j \in Votes(q, vote) : j < 1 /\ VoteId(q, vote, j) = q[1].id
    BY <1>3 DEF VotesInTurn
  <2>2. j = 0
    BY <1>1, <2>1 DEF Votes
  <2> QED  BY <2>1, <2>2 DEF VoteId
<1>5. ASSUME NEW j \in Votes(r, 0)
      PROVE  j \in Nat \ {0} /\ j + 1 \in Votes(q, vote) /\ VoteId(r, 0, j) = VoteId(q, vote, j + 1)
  BY <1>1 DEF Votes, VoteId
<1>6. ASSUME NEW k \in Votes(q, vote), k # 0
      PROVE  k \in Nat /\ k > 1 /\ k - 1 \in Votes(r, 0) /\ VoteId(r, 0, k - 1) = VoteId(q, vote, k)
  <2>1. k \in 2..Len(q) /\ q[k].kind = "enable"
    BY <1>1, <1>6 DEF Votes
  <2>2. k - 1 \in 1..(Len(q) - 1) /\ r[k - 1] = q[k]
    BY <1>1, <2>1
  <2> QED  BY <1>1, <2>1, <2>2 DEF Votes, VoteId
<1>7. \A w \in Withdrawn(q) : w # 1 => q[w].id # vote
  BY <1>3, <1>4 DEF VotesInTurn
<1>8. VoteId(q, vote, 0) = vote
  BY DEF VoteId
<1>9. ASSUME NEW j \in Votes(r, 0), WithdrawnAfter(q, vote, j + 1) PROVE WithdrawnAfter(r, 0, j)
  <2>1. PICK w \in Withdrawn(q) : j + 1 < w /\ q[w].id = VoteId(q, vote, j + 1)
    BY <1>9 DEF WithdrawnAfter
  <2>2. w - 1 \in Withdrawn(r) /\ r[w - 1] = q[w] /\ w \in Nat /\ j < w - 1
    BY <1>2, <1>5, <2>1
  <2> QED  BY <1>5, <2>1, <2>2 DEF WithdrawnAfter
<1>10. VotesInTurn(r, 0, last)
  <2>1. \A j \in Votes(r, 0) : VoteId(r, 0, j) \in 1..last
    BY <1>5 DEF VotesInTurn
  <2>2. ASSUME NEW j \in Votes(r, 0), NEW k \in Votes(r, 0), j < k
        PROVE  /\ VoteId(r, 0, j) # VoteId(r, 0, k)
               /\ \E w \in Withdrawn(r) : j < w /\ w < k /\ r[w].id = VoteId(r, 0, j)
    <3>1. j + 1 < k + 1
      BY <1>5, <2>2
    <3>2. /\ VoteId(q, vote, j + 1) # VoteId(q, vote, k + 1)
          /\ \E w \in Withdrawn(q) : j + 1 < w /\ w < k + 1 /\ q[w].id = VoteId(q, vote, j + 1)
      BY <1>5, <3>1 DEF VotesInTurn
    <3>3. PICK w \in Withdrawn(q) : j + 1 < w /\ w < k + 1 /\ q[w].id = VoteId(q, vote, j + 1)
      BY <3>2
    <3>4. w - 1 \in Withdrawn(r) /\ r[w - 1] = q[w] /\ j < w - 1 /\ w - 1 < k
      BY <1>2, <1>5, <3>3
    <3> QED  BY <1>5, <3>2, <3>3, <3>4
  <2>3. ASSUME NEW w \in Withdrawn(r) PROVE \E j \in Votes(r, 0) : j < w /\ VoteId(r, 0, j) = r[w].id
    <3>1. PICK k \in Votes(q, vote) : k < w + 1 /\ VoteId(q, vote, k) = q[w + 1].id
      BY <1>2 DEF VotesInTurn
    <3>2. k # 0
      BY <1>2, <1>7, <1>8, <3>1
    <3> QED  BY <1>2, <1>6, <3>1, <3>2
  <2>4. ASSUME NEW v \in Withdrawn(r), NEW w \in Withdrawn(r), r[v].id = r[w].id PROVE v = w
    <3>1. v + 1 \in Withdrawn(q) /\ w + 1 \in Withdrawn(q) /\ q[v + 1].id = q[w + 1].id
      BY <1>2, <2>4
    <3>2. v + 1 = w + 1
      BY <3>1 DEF VotesInTurn
    <3> QED  BY <1>2, <3>2
  <2> QED  BY <2>1, <2>2, <2>3, <2>4 DEF VotesInTurn
<1>11. ASSUME NEW s, VoteOpen(q, vote, s) PROVE VoteOpen(r, 0, s)
  <2>1. PICK k \in Votes(q, vote) : VoteId(q, vote, k) = s
    BY <1>11 DEF VoteOpen
  <2>2. k # 0
    BY <1>3, <1>4, <1>8, <1>11, <2>1 DEF VoteOpen
  <2>3. k - 1 \in Votes(r, 0) /\ VoteId(r, 0, k - 1) = s
    BY <1>6, <2>1, <2>2
  <2>4. \A w \in Withdrawn(r) : r[w].id # s
    BY <1>2, <1>11 DEF VoteOpen
  <2>5. \A j \in Votes(r, 0) : VoteId(r, 0, j) = s \/ WithdrawnAfter(r, 0, j)
    BY <1>5, <1>9, <1>11 DEF VoteOpen
  <2> QED  BY <2>3, <2>4, <2>5 DEF VoteOpen
<1>12. VotesClosed(q, vote) => VotesClosed(r, 0)
  BY <1>5, <1>9 DEF VotesClosed
<1> QED
  BY <1>1, <1>4, <1>10, <1>11, <1>12 DEF r

LEMMA UpdatesAppended ==
  ASSUME NEW q \in Seq(ControlMsg), NEW m \in ControlMsg, NEW i
  PROVE  /\ m.kind = "updateConfig" /\ i \in DOMAIN m.config => Updates(Append(q, m), i) = Updates(q, i) \cup {Len(q) + 1}
         /\ ~(m.kind = "updateConfig" /\ i \in DOMAIN m.config) => Updates(Append(q, m), i) = Updates(q, i)
         /\ \A j \in Updates(q, i) : j \in 1..Len(q)
<1> DEFINE r == Append(q, m)
           n == Len(q) + 1
<1>1. /\ DOMAIN r = 1..n /\ DOMAIN q = 1..Len(q) /\ Len(q) \in Nat /\ r[n] = m
      /\ \A j \in 1..Len(q) : r[j] = q[j]
  BY Appended
<1>2. 1..n = 1..Len(q) \cup {n}
  BY <1>1
<1> HIDE DEF r, n
<1> QED
  BY <1>1, <1>2 DEF Updates, r, n

\* What was asked for still arrives when more is asked for.
LEMMA AskedAppended ==
  ASSUME NEW q \in Seq(ControlMsg), NEW m \in ControlMsg, NEW conf, NEW a, NEW b, m.kind # "readConfig",
         Arrive(q, conf, a),
         \A i \in DOMAIN b \ Servers :
           \/ m.kind = "updateConfig" /\ i \in DOMAIN m.config /\ b[i] = m.config[i]
           \/ ~(m.kind = "updateConfig" /\ i \in DOMAIN m.config) /\ i \in DOMAIN a /\ b[i] = a[i]
  PROVE  Arrive(Append(q, m), conf, b)
<1> DEFINE r == Append(q, m)
           n == Len(q) + 1
<1>1. /\ DOMAIN r = 1..n /\ DOMAIN q = 1..Len(q) /\ Len(q) \in Nat /\ r[n] = m
      /\ \A j \in 1..Len(q) : r[j] = q[j]
  BY Appended
<1>2. ASSUME NEW i \in DOMAIN b \ Servers, m.kind = "updateConfig", i \in DOMAIN m.config, b[i] = m.config[i]
      PROVE  /\ \A j \in Updates(r, i) : (\A k \in Updates(r, i) : k <= j) => r[j].config[i] = b[i]
             /\ Updates(r, i) # {}
  <2>1. Updates(r, i) = Updates(q, i) \cup {n} /\ \A j \in Updates(q, i) : j \in 1..Len(q)
    BY <1>2, UpdatesAppended
  <2> HIDE DEF r
  <2>2. ASSUME NEW j \in Updates(r, i), \A k \in Updates(r, i) : k <= j PROVE j = n
    BY <1>1, <2>1, <2>2
  <2> QED  BY <1>1, <1>2, <2>1, <2>2
<1>3. ASSUME NEW i \in DOMAIN b \ Servers, ~(m.kind = "updateConfig" /\ i \in DOMAIN m.config),
             i \in DOMAIN a, b[i] = a[i]
      PROVE  /\ \A j \in Updates(r, i) : (\A k \in Updates(r, i) : k <= j) => r[j].config[i] = b[i]
             /\ Updates(r, i) = {} => InForce(conf, i, b[i]) /\ \A j \in DOMAIN r : r[j].kind # "readConfig"
  <2>1. Updates(r, i) = Updates(q, i) /\ \A j \in Updates(q, i) : j \in 1..Len(q)
    BY <1>3, UpdatesAppended
  <2> HIDE DEF r
  <2>2. /\ \A j \in Updates(q, i) : (\A k \in Updates(q, i) : k <= j) => q[j].config[i] = a[i]
        /\ Updates(q, i) = {} => InForce(conf, i, a[i]) /\ \A j \in DOMAIN q : q[j].kind # "readConfig"
    BY <1>3 DEF Arrive
  <2>3. \A j \in DOMAIN r : j \in DOMAIN q \/ j = n
    BY <1>1
  <2> QED  BY <1>1, <1>3, <2>1, <2>2, <2>3
<1> HIDE DEF r, n
<1> QED
  BY <1>2, <1>3 DEF Arrive, r

LEMMA AskedAgain ==
  ASSUME NEW q, NEW conf, NEW a, NEW b, Arrive(q, conf, a),
         \A i \in DOMAIN b \ Servers : i \in DOMAIN a /\ b[i] = a[i]
  PROVE  Arrive(q, conf, b)
  BY DEF Arrive

LEMMA NothingAsked == ASSUME NEW q, NEW conf PROVE Arrive(q, conf, Control!Empty)
  BY EmptySetting DEF Arrive

\* A message that is handled: what it says of an item is in force, and the rest is as it was.
LEMMA AskedTaken ==
  ASSUME NEW q \in Seq(ControlMsg), q # <<>>, NEW conf, NEW new, NEW a, Arrive(q, conf, a),
         \A j \in DOMAIN q : q[j].kind = "readConfig" => j = 1,
         \A i \in DOMAIN a \ Servers :
           /\ Head(q).kind = "updateConfig" /\ i \in DOMAIN Head(q).config =>
                (Head(q).config[i] = a[i] => InForce(new, i, a[i]))
           /\ Head(q).kind # "readConfig" /\ ~(Head(q).kind = "updateConfig" /\ i \in DOMAIN Head(q).config) =>
                (InForce(conf, i, a[i]) => InForce(new, i, a[i]))
  PROVE  Arrive(Tail(q), new, a)
<1> DEFINE r == Tail(q)
<1>1. /\ Len(q) \in Nat \ {0} /\ DOMAIN q = 1..Len(q) /\ DOMAIN r = 1..(Len(q) - 1) /\ Head(q) = q[1]
      /\ \A j \in 1..(Len(q) - 1) : r[j] = q[j + 1]
  BY TailOf
<1> HIDE DEF r
<1>2. \A j \in DOMAIN r : r[j].kind # "readConfig"
  BY <1>1
<1> SUFFICES ASSUME NEW i \in DOMAIN a \ Servers
             PROVE  /\ \A j \in Updates(r, i) : (\A k \in Updates(r, i) : k <= j) => r[j].config[i] = a[i]
                    /\ Updates(r, i) = {} => InForce(new, i, a[i])
  BY <1>2 DEF Arrive, r
<1>3. /\ \A j \in Updates(r, i) : j \in Nat /\ j + 1 \in Updates(q, i) /\ r[j] = q[j + 1]
      /\ \A k \in Updates(q, i) : k = 1 \/ (k \in Nat /\ k > 1 /\ k - 1 \in Updates(r, i))
  <2>1. \A j \in Updates(r, i) : j \in Nat /\ j + 1 \in Updates(q, i) /\ r[j] = q[j + 1]
    BY <1>1 DEF Updates
  <2>2. ASSUME NEW k \in Updates(q, i), k # 1 PROVE k \in Nat /\ k > 1 /\ k - 1 \in Updates(r, i)
    <3>1. k \in 2..Len(q) /\ k - 1 \in 1..(Len(q) - 1) /\ (k - 1) + 1 = k
      BY <1>1, <2>2 DEF Updates
    <3>2. r[k - 1] = q[k]
      BY <1>1, <3>1
    <3> QED  BY <1>1, <3>1, <3>2 DEF Updates
  <2> QED  BY <2>1, <2>2
<1>4. /\ \A j \in Updates(q, i) : (\A k \in Updates(q, i) : k <= j) => q[j].config[i] = a[i]
      /\ Updates(q, i) = {} => InForce(conf, i, a[i]) /\ \A j \in DOMAIN q : q[j].kind # "readConfig"
  BY DEF Arrive
<1>5. ASSUME NEW j \in Updates(r, i), \A k \in Updates(r, i) : k <= j PROVE r[j].config[i] = a[i]
  <2>1. j + 1 \in Updates(q, i) /\ j \in Nat /\ r[j] = q[j + 1]
    BY <1>3
  <2>2. ASSUME NEW k \in Updates(q, i) PROVE k <= j + 1
    <3>1. CASE k = 1
      BY <2>1, <3>1
    <3>2. CASE k # 1
      <4>1. k - 1 <= j /\ k \in Nat
        BY <1>3, <1>5, <3>2
      <4> QED  BY <2>1, <4>1
    <3> QED  BY <3>1, <3>2
  <2> QED  BY <1>4, <2>1, <2>2
<1>6. ASSUME Updates(r, i) = {} PROVE InForce(new, i, a[i])
  <2>1. \A k \in Updates(q, i) : k = 1
    BY <1>3, <1>6
  <2>2. CASE Updates(q, i) = {}
    <3>1. Head(q).kind # "readConfig" /\ ~(Head(q).kind = "updateConfig" /\ i \in DOMAIN Head(q).config)
      BY <1>1, <1>4, <2>2 DEF Updates
    <3> QED  BY <1>4, <2>2, <3>1
  <2>3. CASE Updates(q, i) # {}
    <3>1. 1 \in Updates(q, i) /\ \A k \in Updates(q, i) : k <= 1
      BY <2>1, <2>3
    <3>2. Head(q).kind = "updateConfig" /\ i \in DOMAIN Head(q).config /\ Head(q).config[i] = a[i]
      BY <1>1, <1>4, <3>1 DEF Updates
    <3> QED  BY <3>2
  <2> QED  BY <2>2, <2>3
<1> QED
  BY <1>5, <1>6

-----------------------------------------------------------------------------
LEMMA QueueMade ==
  ASSUME NEW q, ControlQueues(q), NEW t \in Control!QueueTypes, NEW r, NEW s
  PROVE  /\ ControlQueues(Control!pushRequest(q, t, r)) /\ ControlQueues(Control!reset(q, t, s))
         /\ \A u \in Control!QueueTypes : Control!pushRequest(q, t, r)[u].session = q[u].session
         /\ Control!reset(q, t, s)[t].session = s
         /\ \A u \in Control!QueueTypes \ {t} : Control!reset(q, t, s)[u] = q[u]
<1> DEFINE f == Append(q[t].requests, r)
           p == Control!pushRequest(q, t, r)
           z == Control!reset(q, t, s)
<1>1. DOMAIN q = Control!QueueTypes /\ \A u \in Control!QueueTypes : q[u] = [session |-> q[u].session, requests |-> q[u].requests]
  BY DEF ControlQueues
<1>2. p = [q EXCEPT ![t].requests = f]
  BY DEF Control!pushRequest
<1>3. z = [q EXCEPT ![t] = [session |-> s, requests |-> <<>>]]
  BY DEF Control!reset
<1> HIDE DEF f, p, z
<1>4. p = [u \in Control!QueueTypes |-> IF u = t THEN [q[t] EXCEPT !.requests = f] ELSE q[u]]
  BY <1>1, <1>2
<1>5. [q[t] EXCEPT !.requests = f] = [session |-> q[t].session, requests |-> f]
  BY <1>1
<1>6. p = [u \in Control!QueueTypes |-> p[u]]
  BY <1>4
<1>7. \A u \in Control!QueueTypes : p[u] = [session |-> p[u].session, requests |-> p[u].requests] /\ p[u].session = q[u].session
  BY <1>1, <1>4, <1>5
<1>8. z = [u \in Control!QueueTypes |-> IF u = t THEN [session |-> s, requests |-> <<>>] ELSE q[u]]
  BY <1>1, <1>3
<1>9. z = [u \in Control!QueueTypes |-> z[u]] /\ z[t].session = s /\ \A u \in Control!QueueTypes \ {t} : z[u] = q[u]
  BY <1>8
<1>10. \A u \in Control!QueueTypes : z[u] = [session |-> z[u].session, requests |-> z[u].requests]
  BY <1>1, <1>8
<1> QED
  BY <1>6, <1>7, <1>9, <1>10 DEF ControlQueues, p, z

LEMMA QueueAnswered ==
  ASSUME ControlQueues(controlQueues), NEW m, Control!answered(m)
  PROVE  /\ ControlQueues(controlQueues')
         /\ \A t \in Control!QueueTypes : controlQueues'[t].session = controlQueues[t].session
<1>1. ASSUME NEW types
      PROVE  /\ ControlQueues(Control!popped(types))
             /\ \A t \in Control!QueueTypes : Control!popped(types)[t].session = controlQueues[t].session
  <2> DEFINE p == Control!popped(types)
             f(t) == Tail(controlQueues[t].requests)
  <2>1. p = [t \in Control!QueueTypes |-> IF t \in types /\ controlQueues[t].requests # <<>>
                                          THEN [controlQueues[t] EXCEPT !.requests = f(t)] ELSE controlQueues[t]]
    BY DEF Control!popped
  <2> HIDE DEF p, f
  <2>2. \A t \in Control!QueueTypes :
          [controlQueues[t] EXCEPT !.requests = f(t)] = [session |-> controlQueues[t].session, requests |-> f(t)]
    BY DEF ControlQueues
  <2>3. p = [t \in Control!QueueTypes |-> p[t]]
    BY <2>1
  <2>4. \A t \in Control!QueueTypes : p[t] = controlQueues[t] \/ p[t] = [session |-> controlQueues[t].session, requests |-> f(t)]
    BY <2>1, <2>2
  <2>5. \A t \in Control!QueueTypes :
          p[t] = [session |-> p[t].session, requests |-> p[t].requests] /\ p[t].session = controlQueues[t].session
    <3> SUFFICES ASSUME NEW t \in Control!QueueTypes
                 PROVE  p[t] = [session |-> p[t].session, requests |-> p[t].requests] /\ p[t].session = controlQueues[t].session
      OBVIOUS
    <3>1. CASE p[t] = controlQueues[t]
      BY <3>1 DEF ControlQueues
    <3>2. CASE p[t] = [session |-> controlQueues[t].session, requests |-> f(t)]
      BY <3>2
    <3> QED  BY <2>4, <3>1, <3>2
  <2> QED  BY <2>3, <2>5 DEF ControlQueues, p
<1>2. CASE m.kind = "updateConfig"
  BY <1>1, <1>2 DEF Control!answered
<1>3. CASE m.kind \in {"enable", "disable", "deleteAidingData"}
  BY <1>1, <1>3 DEF Control!answered
<1>4. CASE m.kind # "updateConfig" /\ m.kind \notin {"enable", "disable", "deleteAidingData"}
  <2>1. controlQueues' = controlQueues
    BY <1>4 DEF Control!answered
  <2> QED  BY <2>1
<1> QED
  BY <1>2, <1>3, <1>4

\* What a message is, and which handler it meets.
LEMMA ControlHandled ==
  ASSUME ControlInv, Control!Handle
  PROVE  /\ settings \in Seq(ControlMsg) /\ settings # <<>> /\ settings' = Tail(settings)
         /\ Head(settings) \in ControlMsg /\ Head(settings).id \in Nat /\ Head(settings).config \in Configs
         /\ Head(settings).kind \in ControlKinds
         /\ UNCHANGED <<mApi, mPendingConfig, mConfig, mEnabled, generated, power, asked>>
         /\ ControlQueues(controlQueues')
         /\ controlQueues'["CONTROL"].session = controlQueues["CONTROL"].session
<1>1. /\ settings # <<>> /\ settings' = Tail(settings) /\ Control!answered(Head(settings))
      /\ UNCHANGED <<mApi, mPendingConfig, mConfig, mEnabled, generated, power, asked>>
  BY DEF Control!Handle
<1>2. settings \in Seq(ControlMsg)
  BY DEF ControlInv, ControlTypes
<1>3. Head(settings) \in ControlMsg
  BY <1>1, <1>2, TailOf
<1>4. ControlQueues(controlQueues') /\ controlQueues'["CONTROL"].session = controlQueues["CONTROL"].session
  BY <1>1, QueueAnswered DEF ControlInv, ControlTypes, Control!QueueTypes
<1> QED
  BY <1>1, <1>2, <1>3, <1>4 DEF ControlMsg


\* The invariant after a message, given what it did.
LEMMA ControlAfter ==
  ASSUME ControlInv, Control!Handle, EngineInv', ControlRecord(configured'), mPowerVoteId' \in Nat,
         DOMAIN Control!Defaults \subseteq DOMAIN mGps_conf', DOMAIN told' = {"client", "ulp"},
         /\ VotesInTurn(settings', mPowerVoteId', generated)
         /\ \A s : VoteOpen(settings, mPowerVoteId, s) => VoteOpen(settings', mPowerVoteId', s)
         /\ VotesClosed(settings, mPowerVoteId) => VotesClosed(settings', mPowerVoteId'),
         \A i \in DOMAIN asked \ Servers :
           /\ Head(settings).kind = "updateConfig" /\ i \in DOMAIN Head(settings).config =>
                (Head(settings).config[i] = asked[i] => InForce(mGps_conf', i, asked[i]))
           /\ Head(settings).kind # "readConfig"
                /\ ~(Head(settings).kind = "updateConfig" /\ i \in DOMAIN Head(settings).config) =>
                (InForce(mGps_conf, i, asked[i]) => InForce(mGps_conf', i, asked[i]))
  PROVE  ControlInv'
<1>1. /\ settings \in Seq(ControlMsg) /\ settings # <<>> /\ settings' = Tail(settings)
      /\ UNCHANGED <<mApi, mPendingConfig, mConfig, mEnabled, generated, power, asked>>
      /\ ControlQueues(controlQueues')
      /\ controlQueues'["CONTROL"].session = controlQueues["CONTROL"].session
  BY ControlHandled
<1>2. ControlTypes'
  BY <1>1, TailOf DEF ControlInv, ControlTypes
<1>3. VoteInv'
  BY <1>1 DEF ControlInv, VoteInv
<1>4. AskedInv'
  <2>1. CASE mApi
    <3>1. Arrive(settings, mGps_conf, asked)
      BY <2>1 DEF ControlInv, AskedInv
    <3>2. \A j \in DOMAIN settings : settings[j].kind = "readConfig" => j = 1
      BY DEF ControlInv, EngineInv, ReadFirst
    <3>3. Arrive(Tail(settings), mGps_conf', asked)
      BY <1>1, <3>1, <3>2, AskedTaken
    <3>4. Repeats(mConfig)'
      BY <1>1, <2>1 DEF ControlInv, AskedInv, Repeats
    <3> QED  BY <1>1, <2>1, <3>3, <3>4 DEF AskedInv
  <2>2. CASE ~mApi
    BY <1>1, <2>2 DEF ControlInv, AskedInv, Repeats
  <2> QED  BY <2>1, <2>2
<1> QED
  BY <1>2, <1>3, <1>4 DEF ControlInv

\* A message that leaves the configuration alone.
LEMMA ConfStays ==
  ASSUME ControlInv, mGps_conf' = mGps_conf, Head(settings).kind # "updateConfig"
  PROVE  /\ DOMAIN Control!Defaults \subseteq DOMAIN mGps_conf'
         /\ \A i \in DOMAIN asked \ Servers :
              /\ Head(settings).kind = "updateConfig" /\ i \in DOMAIN Head(settings).config =>
                   (Head(settings).config[i] = asked[i] => InForce(mGps_conf', i, asked[i]))
              /\ Head(settings).kind # "readConfig"
                   /\ ~(Head(settings).kind = "updateConfig" /\ i \in DOMAIN Head(settings).config) =>
                   (InForce(mGps_conf, i, asked[i]) => InForce(mGps_conf', i, asked[i]))
  BY DEF ControlInv, ControlTypes

LEMMA VotesSay ==
  ASSUME ControlInv
  PROVE  VotesInTurn(settings, mPowerVoteId, generated) /\ mPowerVoteId \in Nat /\ generated \in Nat
  BY DEF ControlInv, VoteInv, ControlTypes

LEMMA ReadMessageKeeps ==
  ASSUME ControlInv, Control!Handle, Head(settings).kind = "readConfig", Control!readConfig
  PROVE  ControlInv'
<1>1. settings \in Seq(ControlMsg) /\ settings # <<>> /\ settings' = Tail(settings)
  BY ControlHandled
<1>2. EngineInv'
  BY <1>1, ReadConfigKeeps DEF ControlInv
<1>3. UNCHANGED <<mPowerVoteId, configured, told>> /\ mGps_conf' = Control!over(File, Control!Defaults)
  BY DEF Control!readConfig
<1>4. DOMAIN Control!Defaults \subseteq DOMAIN mGps_conf'
  BY <1>3 DEF Control!over
<1>5. ControlRecord(configured') /\ DOMAIN told' = {"client", "ulp"} /\ mPowerVoteId' \in Nat
  BY <1>3 DEF ControlInv, ControlTypes
<1>6. /\ VotesInTurn(settings', mPowerVoteId', generated)
      /\ \A s : VoteOpen(settings, mPowerVoteId, s) => VoteOpen(settings', mPowerVoteId', s)
      /\ VotesClosed(settings, mPowerVoteId) => VotesClosed(settings', mPowerVoteId')
  BY <1>1, <1>3, VotesSay, OtherTaken
<1> QED
  BY <1>2, <1>4, <1>5, <1>6, ControlAfter

LEMMA SetMessageKeeps ==
  ASSUME ControlInv, Control!Handle, Head(settings).kind = "setConfig", Control!setConfig
  PROVE  ControlInv'
<1>1. settings \in Seq(ControlMsg) /\ settings # <<>> /\ settings' = Tail(settings)
  BY ControlHandled
<1>2. EngineInv' /\ ControlRecord(configured')
  BY <1>1, SetConfigKeeps DEF ControlInv
<1>3. UNCHANGED <<mPowerVoteId, mGps_conf, told>>
  BY DEF Control!setConfig
<1>4. DOMAIN told' = {"client", "ulp"} /\ mPowerVoteId' \in Nat
  BY <1>3 DEF ControlInv, ControlTypes
<1>5. /\ VotesInTurn(settings', mPowerVoteId', generated)
      /\ \A s : VoteOpen(settings, mPowerVoteId, s) => VoteOpen(settings', mPowerVoteId', s)
      /\ VotesClosed(settings, mPowerVoteId) => VotesClosed(settings', mPowerVoteId')
  BY <1>1, <1>3, VotesSay, OtherTaken
<1> QED
  BY <1>2, <1>3, <1>4, <1>5, ConfStays, ControlAfter

LEMMA UpdateMessageKeeps ==
  ASSUME ControlInv, Control!Handle, Head(settings).kind = "updateConfig", Control!updateConfig(Head(settings).config)
  PROVE  ControlInv'
<1> DEFINE config == Head(settings).config
<1>1. settings \in Seq(ControlMsg) /\ settings # <<>> /\ settings' = Tail(settings) /\ config \in Configs
  BY ControlHandled
<1>2. ControlTypes /\ EngineInv
  BY DEF ControlInv
<1>3. EngineInv' /\ ControlRecord(configured')
  BY <1>1, <1>2, UpdateConfigKeeps
<1>4. /\ DOMAIN Control!Defaults \subseteq DOMAIN mGps_conf'
      /\ mGps_conf'.AGPS_CONFIG_INJECT = mGps_conf.AGPS_CONFIG_INJECT
      /\ \A i \in DOMAIN Control!Code :
           mGps_conf'[i] = IF i \in Control!Stored(config) THEN Control!convert(i, config[i]) ELSE mGps_conf[i]
  BY <1>1, <1>2, ConfAfter
<1>5. mPowerVoteId' = mPowerVoteId /\ told' = Control!broadcast(mGps_conf')
  BY DEF Control!updateConfig
<1>6. DOMAIN told' = {"client", "ulp"} /\ mPowerVoteId' \in Nat
  BY <1>2, <1>5 DEF ControlTypes, Control!broadcast
<1>7. /\ VotesInTurn(settings', mPowerVoteId', generated)
      /\ \A s : VoteOpen(settings, mPowerVoteId, s) => VoteOpen(settings', mPowerVoteId', s)
      /\ VotesClosed(settings, mPowerVoteId) => VotesClosed(settings', mPowerVoteId')
  BY <1>1, <1>5, VotesSay, OtherTaken
<1>8. ASSUME NEW i \in DOMAIN asked \ Servers
      PROVE  /\ i \in DOMAIN config => (config[i] = asked[i] => InForce(mGps_conf', i, asked[i]))
             /\ i \notin DOMAIN config => (InForce(mGps_conf, i, asked[i]) => InForce(mGps_conf', i, asked[i]))
  <2>1. i \in DOMAIN Control!Code
    BY <1>2 DEF ControlTypes, Items
  <2> HIDE DEF config
  <2>2. i \in DOMAIN config => (i \in Control!Stored(config) <=> (i \in Control!Injected => mGps_conf.AGPS_CONFIG_INJECT))
    BY DEF Control!Stored, Servers
  <2>3. i \notin DOMAIN config => i \notin Control!Stored(config)
    BY DEF Control!Stored
  <2> QED  BY <1>4, <2>1, <2>2, <2>3 DEF InForce
<1> QED
  BY <1>3, <1>4, <1>6, <1>7, <1>8, ControlAfter

LEMMA EnableMessageKeeps ==
  ASSUME ControlInv, Control!Handle, Head(settings).kind = "enable", Control!enable(Head(settings).id)
  PROVE  ControlInv'
<1>1. settings \in Seq(ControlMsg) /\ settings # <<>> /\ settings' = Tail(settings)
  BY ControlHandled
<1> DEFINE id == Head(settings).id
<1>2. /\ mPowerVoteId = 0 /\ id \in Nat \ {0}
      /\ VotesInTurn(Tail(settings), id, generated)
      /\ \A s : VoteOpen(settings, mPowerVoteId, s) => VoteOpen(Tail(settings), id, s)
      /\ VotesClosed(settings, mPowerVoteId) => VotesClosed(Tail(settings), id)
  BY <1>1, VotesSay, VoteTaken
<1>3. EngineInv' /\ ControlRecord(configured')
  BY <1>1, <1>2, EnableKeeps DEF ControlInv
<1>4. mPowerVoteId' = id /\ UNCHANGED <<mGps_conf, told>>
  BY <1>2 DEF Control!enable
<1>5. DOMAIN told' = {"client", "ulp"}
  BY <1>4 DEF ControlInv, ControlTypes
<1> QED
  BY <1>1, <1>2, <1>3, <1>4, <1>5, ConfStays, ControlAfter

LEMMA DisableMessageKeeps ==
  ASSUME ControlInv, Control!Handle, Head(settings).kind = "disable", Control!disable(Head(settings).id)
  PROVE  ControlInv'
<1>1. settings \in Seq(ControlMsg) /\ settings # <<>> /\ settings' = Tail(settings)
  BY ControlHandled
<1>2. /\ mPowerVoteId = Head(settings).id
      /\ VotesInTurn(Tail(settings), 0, generated)
      /\ \A s : VoteOpen(settings, mPowerVoteId, s) => VoteOpen(Tail(settings), 0, s)
      /\ VotesClosed(settings, mPowerVoteId) => VotesClosed(Tail(settings), 0)
  BY <1>1, VotesSay, WithdrawalTaken
<1>3. EngineInv' /\ ControlRecord(configured')
  BY <1>1, DisableKeeps DEF ControlInv
<1>4. mPowerVoteId' = 0 /\ UNCHANGED <<mGps_conf, told>>
  BY <1>2 DEF Control!disable
<1>5. DOMAIN told' = {"client", "ulp"}
  BY <1>4 DEF ControlInv, ControlTypes
<1> QED
  BY <1>1, <1>2, <1>3, <1>4, <1>5, ConfStays, ControlAfter

LEMMA TellMessageKeeps ==
  ASSUME ControlInv, Control!Handle, Head(settings).kind \in {"requestCapabilities", "setUlpProxy"},
         NEW who \in {"client", "ulp"}, Control!tellCapabilities(who)
  PROVE  ControlInv'
<1>1. settings \in Seq(ControlMsg) /\ settings # <<>> /\ settings' = Tail(settings)
  BY ControlHandled
<1>2. EngineInv' /\ ControlRecord(configured')
  BY <1>1, TellKeeps DEF ControlInv
<1>3. /\ UNCHANGED <<mPowerVoteId, mGps_conf>>
      /\ told' = [told EXCEPT ![who] = [known |-> TRUE, caps |-> Control!getCarrierCapabilities(mGps_conf)]]
  BY DEF Control!tellCapabilities, Control!adapter
<1>4. DOMAIN told' = {"client", "ulp"} /\ mPowerVoteId' \in Nat
  BY <1>3 DEF ControlInv, ControlTypes
<1>5. /\ VotesInTurn(settings', mPowerVoteId', generated)
      /\ \A s : VoteOpen(settings, mPowerVoteId, s) => VoteOpen(settings', mPowerVoteId', s)
      /\ VotesClosed(settings, mPowerVoteId) => VotesClosed(settings', mPowerVoteId')
  BY <1>1, <1>3, VotesSay, OtherTaken
<1> QED
  BY <1>2, <1>3, <1>4, <1>5, ConfStays, ControlAfter

LEMMA DeleteMessageKeeps ==
  ASSUME ControlInv, Control!Handle, Head(settings).kind = "deleteAidingData",
         UNCHANGED <<Control!adapter, configured, told>>
  PROVE  ControlInv'
<1>1. settings \in Seq(ControlMsg) /\ settings # <<>> /\ settings' = Tail(settings)
  BY ControlHandled
<1>2. UNCHANGED <<configured, mGps_conf, mServerUrl, mPowerVoteId, told>>
  BY DEF Control!adapter
<1>3. CapsHeld'
  BY <1>2 DEF ControlInv, EngineInv, CapsHeld
<1>4. EngineInv' /\ ControlRecord(configured')
  BY <1>1, <1>2, <1>3, NothingTouched DEF ControlInv
<1>5. DOMAIN told' = {"client", "ulp"} /\ mPowerVoteId' \in Nat
  BY <1>2 DEF ControlInv, ControlTypes
<1>6. /\ VotesInTurn(settings', mPowerVoteId', generated)
      /\ \A s : VoteOpen(settings, mPowerVoteId, s) => VoteOpen(settings', mPowerVoteId', s)
      /\ VotesClosed(settings, mPowerVoteId) => VotesClosed(settings', mPowerVoteId')
  BY <1>1, <1>2, VotesSay, OtherTaken
<1> QED
  BY <1>2, <1>4, <1>5, <1>6, ConfStays, ControlAfter

LEMMA ControlHandleKeeps == ASSUME ControlInv, Control!Handle PROVE ControlInv'
<1> DEFINE m == Head(settings)
<1>1. \/ m.kind = "readConfig" /\ Control!readConfig
      \/ m.kind = "setConfig" /\ Control!setConfig
      \/ m.kind = "updateConfig" /\ Control!updateConfig(m.config)
      \/ m.kind = "enable" /\ Control!enable(m.id)
      \/ m.kind = "disable" /\ Control!disable(m.id)
      \/ m.kind = "deleteAidingData" /\ UNCHANGED <<Control!adapter, configured, told>>
      \/ m.kind = "requestCapabilities" /\ Control!tellCapabilities("client")
      \/ m.kind = "setUlpProxy" /\ Control!tellCapabilities("ulp")
  BY DEF Control!Handle
<1>2. CASE m.kind = "readConfig" /\ Control!readConfig
  BY <1>2, ReadMessageKeeps
<1>3. CASE m.kind = "setConfig" /\ Control!setConfig
  BY <1>3, SetMessageKeeps
<1>4. CASE m.kind = "updateConfig" /\ Control!updateConfig(m.config)
  BY <1>4, UpdateMessageKeeps
<1>5. CASE m.kind = "enable" /\ Control!enable(m.id)
  BY <1>5, EnableMessageKeeps
<1>6. CASE m.kind = "disable" /\ Control!disable(m.id)
  BY <1>6, DisableMessageKeeps
<1>7. CASE m.kind = "deleteAidingData" /\ UNCHANGED <<Control!adapter, configured, told>>
  BY <1>7, DeleteMessageKeeps
<1>8. CASE m.kind \in {"requestCapabilities", "setUlpProxy"} /\ \E who \in {"client", "ulp"} : Control!tellCapabilities(who)
  BY <1>8, TellMessageKeeps
<1> QED
  BY <1>1, <1>2, <1>3, <1>4, <1>5, <1>6, <1>7, <1>8

-----------------------------------------------------------------------------
\* The queue r is q and more messages, none of which reads the configuration.
Grown(q, r) ==
  /\ Len(q) <= Len(r)
  /\ \A j \in 1..Len(q) : r[j] = q[j]
  /\ \A j \in 1..Len(r) : j <= Len(q) \/ (r[j].kind # "readConfig" /\ (r[j].kind = "enable" => r[j].id > 0))

LEMMA GrownByNone == ASSUME NEW q \in Seq(ControlMsg) PROVE Grown(q, q)
  BY DEF Grown

LEMMA GrownByOne ==
  ASSUME NEW q \in Seq(ControlMsg), NEW r \in Seq(ControlMsg), Grown(q, r), NEW m \in ControlMsg,
         m.kind # "readConfig", m.kind = "enable" => m.id > 0
  PROVE  Grown(q, Append(r, m)) /\ Append(r, m) \in Seq(ControlMsg)
<1> DEFINE s == Append(r, m)
<1>1. /\ s \in Seq(ControlMsg) /\ Len(s) = Len(r) + 1 /\ Len(r) \in Nat /\ s[Len(r) + 1] = m
      /\ \A j \in 1..Len(r) : s[j] = r[j]
  BY Appended
<1>2. Len(q) \in Nat
  OBVIOUS
<1> HIDE DEF s
<1> QED
  BY <1>1, <1>2 DEF Grown, s

LEMMA EngineGrows ==
  ASSUME ControlTypes, EngineInv, settings' \in Seq(ControlMsg), Grown(settings, settings'),
         UNCHANGED <<configured, mGps_conf, mPowerVoteId, mServerUrl, told>>
  PROVE  EngineInv'
<1>1. /\ DOMAIN settings = 1..Len(settings) /\ Len(settings) \in Nat
      /\ DOMAIN settings' = 1..Len(settings') /\ Len(settings') \in Nat
  BY DEF ControlTypes
<1>2. \A j \in DOMAIN settings' : j \in DOMAIN settings \/ (settings'[j].kind # "readConfig" /\ (settings'[j].kind = "enable" => settings'[j].id > 0))
  BY <1>1 DEF Grown
<1>3. \A j \in DOMAIN settings : j \in DOMAIN settings' /\ settings'[j] = settings[j]
  BY <1>1 DEF Grown
<1>4. Sets(settings) => Sets(settings')
  BY <1>3 DEF Sets
<1>5. ReadFirst'
  BY <1>2, <1>3, <1>4 DEF EngineInv, ReadFirst
<1>6. EngineHas'
  BY <1>4 DEF EngineInv, EngineHas
<1>7. CapsHeld' /\ LockHeld(configured', mGps_conf', mPowerVoteId') /\ ServerHeld(configured', mServerUrl')
  BY DEF EngineInv, CapsHeld
<1>8. \A j \in DOMAIN settings' : settings'[j].kind = "enable" => settings'[j].id > 0
  BY <1>2, <1>3 DEF EngineInv
<1> QED
  BY <1>5, <1>6, <1>7, <1>8 DEF EngineInv

LEMMA MsgMade ==
  ASSUME NEW kind \in ControlKinds, NEW id \in Nat, NEW config \in Configs
  PROVE  /\ Control!msg(kind, id, config) \in ControlMsg /\ Control!msg(kind, id, config).kind = kind
         /\ Control!msg(kind, id, config).id = id /\ Control!msg(kind, id, config).config = config
  BY DEF Control!msg, ControlMsg

\* What locAPIGnssUpdateConfig passes on.
LEMMA PassOnSays ==
  ASSUME NEW q, ControlQueues(q), NEW m \in Seq(ControlMsg), NEW config \in Configs, generated \in Nat
  PROVE  /\ ControlQueues(Control!passOn(q, m, config).queues)
         /\ Control!passOn(q, m, config).queues["CONTROL"].session = q["CONTROL"].session
         /\ Control!passOn(q, m, config).sessions \in Nat /\ generated <= Control!passOn(q, m, config).sessions
         /\ config = mConfig => Control!passOn(q, m, config).msgs = m
         /\ config # mConfig => Control!passOn(q, m, config).msgs = Append(m, Control!msg("updateConfig", 0, config))
<1> DEFINE z == Control!reset(q, "CONFIG", Control!CONFIG_SESSION_ID)
           f == IF q["CONFIG"].session = Control!CONFIG_SESSION_ID THEN q ELSE z
           p == Control!pushRequest(f, "CONFIG", "GnssUpdateConfig")
           n == Cardinality(DOMAIN config)
<1>1. "CONFIG" \in Control!QueueTypes /\ "CONTROL" \in Control!QueueTypes \ {"CONFIG"}
  BY DEF Control!QueueTypes
<1>2. ControlQueues(z) /\ z["CONTROL"] = q["CONTROL"]
  BY <1>1, QueueMade
<1>3. n \in Nat
  BY CountItems
<1>4. /\ config = mConfig => Control!passOn(q, m, config) = [queues |-> q, msgs |-> m, sessions |-> generated]
      /\ config # mConfig => Control!passOn(q, m, config) =
           [queues |-> p, msgs |-> Append(m, Control!msg("updateConfig", 0, config)), sessions |-> generated + n]
  <2>1. Control!Cardinality(DOMAIN config) = n
    BY DEF Control!Cardinality, Cardinality
  <2> QED  BY <2>1 DEF Control!passOn
<1> HIDE DEF z, n
<1>5. ControlQueues(f) /\ f["CONTROL"] = q["CONTROL"]
  BY <1>2
<1> HIDE DEF f
<1>6. ControlQueues(p) /\ p["CONTROL"].session = q["CONTROL"].session
  BY <1>1, <1>5, QueueMade
<1> HIDE DEF p
<1> QED
  BY <1>3, <1>4, <1>6

LEMMA ControlStarts == Control!Init => ControlInv
<1> SUFFICES ASSUME Control!Init PROVE ControlInv
  OBVIOUS
<1> DEFINE one == Control!msg("readConfig", 0, Control!Empty)
           two == Control!msg("setConfig", 0, Control!Empty)
<1>1. /\ one \in ControlMsg /\ one.kind = "readConfig" /\ two \in ControlMsg /\ two.kind = "setConfig"
  BY EmptySetting, MsgMade DEF ControlKinds
<1>2. settings = <<one, two>>
  BY DEF Control!Init
<1> HIDE DEF one, two
<1>3. settings \in Seq(ControlMsg) /\ Len(settings) = 2 /\ DOMAIN settings = 1..2 /\ settings[1] = one /\ settings[2] = two
  BY <1>1, <1>2
<1>4. ControlTypes
  <2>1. /\ mApi \in BOOLEAN /\ mEnabled \in BOOLEAN /\ power \in BOOLEAN
        /\ mPendingConfig \in Configs /\ mConfig \in Configs /\ generated \in Nat /\ mPowerVoteId \in Nat
        /\ DOMAIN told = {"client", "ulp"}
    BY EmptySetting DEF Control!Init
  <2>2. ControlQueues(controlQueues)
    BY DEF Control!Init, ControlQueues
  <2>3. ControlRecord(configured)
    BY DEF Control!Init, ControlRecord
  <2>4. DOMAIN Control!Defaults \subseteq DOMAIN mGps_conf
    BY DEF Control!Init, Control!Zeroes
  <2>5. DOMAIN asked = {}
    BY EmptySetting DEF Control!Init
  <2> QED  BY <1>3, <2>1, <2>2, <2>3, <2>4, <2>5 DEF ControlTypes
<1>5. EngineInv
  <2>1. Sets(settings)
    BY <1>1, <1>3 DEF Sets
  <2>2. DOMAIN configured.has = {} /\ \A c \in {"client", "ulp"} : ~told[c].known
    BY EmptySetting DEF Control!Init
  <2>3. ServerHeld(configured, mServerUrl)
    BY DEF Control!Init, ServerHeld
  <2> QED
    BY <1>1, <1>3, <2>1, <2>2, <2>3 DEF EngineInv, ReadFirst, EngineHas, CapsHeld, LockHeld
<1>6. VoteInv
  <2>1. mPowerVoteId = 0 /\ ~mEnabled /\ ~power /\ generated = 0
    BY DEF Control!Init
  <2>2. Votes(settings, mPowerVoteId) = {} /\ Withdrawn(settings) = {}
    BY <1>1, <1>3, <2>1 DEF Votes, Withdrawn
  <2> QED  BY <2>1, <2>2 DEF VoteInv, VotesInTurn, VotesClosed
<1>7. AskedInv
  BY EmptySetting DEF Control!Init, AskedInv, Repeats
<1> QED
  BY <1>4, <1>5, <1>6, <1>7 DEF ControlInv

LEMMA UpdateCallKeeps == ASSUME ControlInv, NEW config \in Settings, Control!updateConfiguration(config) PROVE ControlInv'
<1> DEFINE kept == [i \in DOMAIN config |-> IF i \in Servers THEN "" ELSE config[i]]
           p == Control!passOn(controlQueues, settings, config)
           m == Control!msg("updateConfig", 0, config)
<1>1. config \in Configs /\ Setting(config)
  BY ControlAssumptions
<1>2. /\ asked' = Control!over(config, asked)
      /\ UNCHANGED <<mApi, mEnabled, power, mGps_conf, mPowerVoteId, mServerUrl, configured, told>>
      /\ mApi => /\ controlQueues' = p.queues /\ settings' = p.msgs /\ generated' = p.sessions
                 /\ mConfig' = config /\ mPendingConfig' = mPendingConfig
      /\ ~mApi => /\ mPendingConfig' = Control!over(kept, mPendingConfig)
                  /\ UNCHANGED <<controlQueues, settings, generated, mConfig>>
  BY DEF Control!updateConfiguration, Control!pendingWith, Control!adapter, Servers
<1>3. ControlTypes /\ EngineInv /\ VoteInv /\ AskedInv
  BY DEF ControlInv
<1>4. /\ DOMAIN asked' = DOMAIN config \cup DOMAIN asked
      /\ \A i \in DOMAIN config : asked'[i] = config[i]
      /\ \A i \in DOMAIN asked \ DOMAIN config : asked'[i] = asked[i]
  <2>1. IsOver(asked', config, asked)
    BY <1>2, OverSays
  <2> QED  BY <2>1 DEF IsOver
<1>5. \A i \in DOMAIN asked' \ Servers : i \in Items /\ Right(i, asked'[i])
  BY <1>1, <1>3, <1>4 DEF ControlTypes, Setting
<1>6. CASE ~mApi
  <2>1. DOMAIN kept = DOMAIN config /\ \A i \in DOMAIN config : kept[i] = IF i \in Servers THEN "" ELSE config[i]
    OBVIOUS
  <2>2. kept = [i \in DOMAIN kept |-> kept[i]]
    OBVIOUS
  <2> HIDE DEF kept
  <2>3. kept \in Configs
    <3>1. Setting(kept)
      BY <1>1, <2>1, <2>2 DEF Setting
    <3>2. \A i \in DOMAIN kept : kept[i] \in SettingValues
      <4>1. "" \in SettingValues
        BY DEF SettingValues
      <4>2. \A i \in DOMAIN config : config[i] \in SettingValues
        BY <1>1 DEF Configs
      <4> QED  BY <2>1, <4>1, <4>2
    <3>3. kept \in [DOMAIN kept -> SettingValues]
      BY <2>2, <3>2
    <3> QED  BY <3>1, <3>3 DEF Configs, Setting
  <2>4. /\ DOMAIN mPendingConfig' = DOMAIN kept \cup DOMAIN mPendingConfig
        /\ \A i \in DOMAIN kept : mPendingConfig'[i] = kept[i]
        /\ \A i \in DOMAIN mPendingConfig \ DOMAIN kept : mPendingConfig'[i] = mPendingConfig[i]
    <3>1. IsOver(mPendingConfig', kept, mPendingConfig)
      BY <1>2, <1>6, OverSays
    <3> QED  BY <3>1 DEF IsOver
  <2>5. mPendingConfig' \in Configs
    BY <1>2, <1>3, <1>6, <2>3, OverSetting DEF ControlTypes
  <2>6. ControlTypes'
    BY <1>2, <1>3, <1>5, <1>6, <2>5 DEF ControlTypes
  <2>7. settings \in Seq(ControlMsg)
    BY <1>3 DEF ControlTypes
  <2>8. EngineInv'
    BY <1>2, <1>3, <1>6, <2>7, EngineGrows, GrownByNone
  <2>9. VoteInv'
    BY <1>2, <1>3, <1>6 DEF VoteInv
  <2>10. AskedInv'
    BY <1>2, <1>3, <1>4, <1>6, <2>1, <2>4 DEF AskedInv, Repeats
  <2> QED  BY <2>6, <2>8, <2>9, <2>10 DEF ControlInv
<1>7. CASE mApi
  <2>1. ControlQueues(controlQueues) /\ settings \in Seq(ControlMsg) /\ generated \in Nat /\ mPowerVoteId \in Nat
    BY <1>3 DEF ControlTypes
  <2>2. /\ ControlQueues(p.queues) /\ p.queues["CONTROL"].session = controlQueues["CONTROL"].session
        /\ p.sessions \in Nat /\ generated <= p.sessions
        /\ config = mConfig => p.msgs = settings
        /\ config # mConfig => p.msgs = Append(settings, m)
    BY <1>1, <2>1, PassOnSays
  <2>3. m \in ControlMsg /\ m.kind = "updateConfig" /\ m.config = config
    BY <1>1, MsgMade DEF ControlKinds
  <2> HIDE DEF p, m
  <2>4. /\ settings' \in Seq(ControlMsg) /\ Grown(settings, settings')
        /\ config = mConfig => settings' = settings
        /\ config # mConfig => settings' = Append(settings, m)
    BY <1>2, <1>7, <2>1, <2>2, <2>3, GrownByNone, GrownByOne
  <2>5. ControlTypes'
    BY <1>1, <1>2, <1>3, <1>5, <1>7, <2>2, <2>4 DEF ControlTypes
  <2>6. EngineInv'
    BY <1>2, <1>3, <2>4, EngineGrows
  <2>7. VoteInv'
    <3>1. generated' \in Nat /\ generated <= generated' /\ controlQueues'["CONTROL"].session = controlQueues["CONTROL"].session
      BY <1>2, <1>7, <2>2
    <3>2. /\ VotesInTurn(settings', mPowerVoteId, generated')
          /\ \A s : VoteOpen(settings, mPowerVoteId, s) => VoteOpen(settings', mPowerVoteId, s)
          /\ VotesClosed(settings, mPowerVoteId) => VotesClosed(settings', mPowerVoteId)
      <4>1. VotesInTurn(settings, mPowerVoteId, generated)
        BY <1>3 DEF VoteInv
      <4>2. CASE config # mConfig
        BY <2>1, <2>3, <2>4, <3>1, <4>1, <4>2, OtherAppended
      <4>3. CASE config = mConfig
        <5>1. VotesInTurn(settings, mPowerVoteId, generated')
          BY <2>1, <3>1, <4>1 DEF VotesInTurn
        <5> QED  BY <2>4, <4>3, <5>1
      <4> QED  BY <4>2, <4>3
    <3> QED  BY <1>2, <1>3, <3>1, <3>2 DEF VoteInv
  <2>8. AskedInv'
    <3>1. Arrive(settings, mGps_conf, asked) /\ Repeats(mConfig)
      BY <1>3, <1>7 DEF AskedInv
    <3>2. Repeats(mConfig)'
      BY <1>2, <1>4, <1>7 DEF Repeats
    <3>3. Arrive(settings', mGps_conf, asked')
      <4>1. CASE config # mConfig
        BY <1>4, <2>1, <2>3, <2>4, <3>1, <4>1, AskedAppended
      <4>2. CASE config = mConfig
        <5>1. \A i \in DOMAIN asked' \ Servers : i \in DOMAIN asked /\ asked'[i] = asked[i]
          BY <1>4, <3>1, <4>2 DEF Repeats
        <5> QED  BY <2>4, <3>1, <4>2, <5>1, AskedAgain
      <4> QED  BY <4>1, <4>2
    <3> QED  BY <1>2, <1>7, <3>2, <3>3 DEF AskedInv
  <2> QED  BY <2>5, <2>6, <2>7, <2>8 DEF ControlInv
<1> QED  BY <1>3, <1>6, <1>7 DEF ControlTypes

LEMMA CleanupKeepsControl == ASSUME ControlInv, Control!cleanup PROVE ControlInv'
<1> DEFINE m == Control!msg("disable", controlQueues["CONTROL"].session, Control!Empty)
<1>1. ControlTypes /\ EngineInv /\ VoteInv /\ AskedInv
  BY DEF ControlInv
<1>2. /\ mApi /\ mEnabled
      /\ controlQueues' = Control!pushRequest(controlQueues, "CONTROL", "disable")
      /\ settings' = Append(settings, m) /\ ~mEnabled' /\ ~power'
      /\ mEnabled' \in BOOLEAN /\ power' \in BOOLEAN
      /\ UNCHANGED <<mApi, mPendingConfig, mConfig, generated, mGps_conf, mPowerVoteId, mServerUrl, configured, told, asked>>
  BY DEF Control!cleanup, Control!adapter
<1>3. settings \in Seq(ControlMsg) /\ generated \in Nat /\ mPowerVoteId \in Nat
  BY <1>1 DEF ControlTypes
<1>4. ControlQueues(controlQueues') /\ controlQueues'["CONTROL"].session = controlQueues["CONTROL"].session
  BY <1>1, <1>2, QueueMade DEF ControlTypes, Control!QueueTypes
<1>5. /\ VotesInTurn(settings, mPowerVoteId, generated)
      /\ VoteOpen(settings, mPowerVoteId, controlQueues["CONTROL"].session)
  BY <1>1, <1>2 DEF VoteInv
<1>6. controlQueues["CONTROL"].session \in Nat
  <2>1. PICK j \in Votes(settings, mPowerVoteId) : VoteId(settings, mPowerVoteId, j) = controlQueues["CONTROL"].session
    BY <1>5 DEF VoteOpen
  <2> QED  BY <1>3, <1>5, <2>1 DEF VotesInTurn
<1>7. m \in ControlMsg /\ m.kind = "disable" /\ m.id = controlQueues["CONTROL"].session
  BY <1>6, EmptySetting, MsgMade DEF ControlKinds
<1> HIDE DEF m
<1>8. settings' \in Seq(ControlMsg) /\ Grown(settings, settings')
  BY <1>2, <1>3, <1>7, GrownByNone, GrownByOne
<1>9. ControlTypes'
  BY <1>1, <1>2, <1>4, <1>8 DEF ControlTypes
<1>10. EngineInv'
  BY <1>1, <1>2, <1>8, EngineGrows
<1>11. VoteInv'
  <2>1. VotesInTurn(settings', mPowerVoteId, generated) /\ VotesClosed(settings', mPowerVoteId)
    BY <1>2, <1>3, <1>5, <1>7, WithdrawalAppended
  <2> QED  BY <1>2, <2>1 DEF VoteInv
<1>12. AskedInv'
  <2>1. Arrive(settings, mGps_conf, asked) /\ Repeats(mConfig)
    BY <1>1, <1>2 DEF AskedInv
  <2>2. Arrive(settings', mGps_conf, asked)
    BY <1>2, <1>3, <1>7, <2>1, AskedAppended
  <2> QED  BY <1>2, <2>1, <2>2 DEF AskedInv, Repeats
<1> QED  BY <1>9, <1>10, <1>11, <1>12 DEF ControlInv

\* A message that is no vote and no setting, from the framework, the ULP or the engine.
LEMMA MessageGoes ==
  ASSUME ControlInv, NEW m \in ControlMsg, m.kind \in {"deleteAidingData", "setUlpProxy"}, settings' = Append(settings, m),
         generated' \in Nat, generated <= generated', ControlQueues(controlQueues'),
         controlQueues'["CONTROL"].session = controlQueues["CONTROL"].session,
         UNCHANGED <<mApi, mPendingConfig, mConfig, mEnabled, power, mGps_conf, mPowerVoteId, mServerUrl, configured, told, asked>>
  PROVE  ControlInv'
<1>1. ControlTypes /\ EngineInv /\ VoteInv /\ AskedInv
  BY DEF ControlInv
<1>2. settings \in Seq(ControlMsg) /\ generated \in Nat /\ mPowerVoteId \in Nat
  BY <1>1 DEF ControlTypes
<1>3. settings' \in Seq(ControlMsg) /\ Grown(settings, settings')
  BY <1>2, GrownByNone, GrownByOne
<1>4. ControlTypes'
  BY <1>1, <1>3 DEF ControlTypes
<1>5. EngineInv'
  BY <1>1, <1>3, EngineGrows
<1>6. /\ VotesInTurn(settings', mPowerVoteId, generated')
      /\ \A s : VoteOpen(settings, mPowerVoteId, s) => VoteOpen(settings', mPowerVoteId, s)
      /\ VotesClosed(settings, mPowerVoteId) => VotesClosed(settings', mPowerVoteId)
  <2>1. VotesInTurn(settings, mPowerVoteId, generated)
    BY <1>1 DEF VoteInv
  <2> QED  BY <1>2, <2>1, OtherAppended
<1>7. VoteInv'
  BY <1>1, <1>6 DEF VoteInv
<1>8. AskedInv'
  <2>1. CASE mApi
    <3>1. Arrive(settings, mGps_conf, asked)
      BY <1>1, <2>1 DEF AskedInv
    <3>2. Arrive(settings', mGps_conf, asked)
      BY <1>2, <3>1, AskedAppended
    <3> QED  BY <1>1, <2>1, <3>2 DEF AskedInv, Repeats
  <2>2. CASE ~mApi
    BY <1>1, <2>2 DEF AskedInv, Repeats
  <2> QED  BY <2>1, <2>2
<1> QED  BY <1>4, <1>5, <1>7, <1>8 DEF ControlInv

LEMMA DeleteCallKeeps == ASSUME ControlInv, Control!deleteAidingData PROVE ControlInv'
<1> DEFINE id == generated + 1
           m == Control!msg("deleteAidingData", id, Control!Empty)
           z == Control!reset(controlQueues, "DELETEAIDINGDATA", id)
<1>1. /\ controlQueues' = Control!pushRequest(z, "DELETEAIDINGDATA", "deleteAidingData")
      /\ settings' = Append(settings, m) /\ generated' = id
      /\ UNCHANGED <<mApi, mPendingConfig, mConfig, mEnabled, power, mGps_conf, mPowerVoteId, mServerUrl, configured, told, asked>>
  BY DEF Control!deleteAidingData, Control!queueForDeletion, Control!adapter
<1>2. id \in Nat /\ generated <= id /\ ControlQueues(controlQueues)
  BY DEF ControlInv, ControlTypes
<1>3. m \in ControlMsg /\ m.kind = "deleteAidingData"
  BY <1>2, EmptySetting, MsgMade DEF ControlKinds
<1>4. ControlQueues(z) /\ z["CONTROL"] = controlQueues["CONTROL"]
  BY <1>2, QueueMade DEF Control!QueueTypes
<1> HIDE DEF m, id, z
<1>5. ControlQueues(controlQueues') /\ controlQueues'["CONTROL"].session = controlQueues["CONTROL"].session
  BY <1>1, <1>4, QueueMade DEF Control!QueueTypes
<1> QED  BY <1>1, <1>2, <1>3, <1>5, MessageGoes

LEMMA LoadUlpKeeps == ASSUME ControlInv, Control!loadUlp PROVE ControlInv'
<1> DEFINE m == Control!msg("setUlpProxy", 0, Control!Empty)
<1>1. /\ settings' = Append(settings, m)
      /\ UNCHANGED <<mApi, mPendingConfig, mConfig, mEnabled, controlQueues, generated, power, asked,
                     mGps_conf, mPowerVoteId, mServerUrl, configured, told>>
  BY DEF Control!loadUlp, Control!client, Control!adapter
<1>2. m \in ControlMsg /\ m.kind = "setUlpProxy"
  BY EmptySetting, MsgMade DEF ControlKinds
<1> HIDE DEF m
<1>3. generated' \in Nat /\ generated <= generated' /\ ControlQueues(controlQueues')
  BY <1>1 DEF ControlInv, ControlTypes
<1> QED  BY <1>1, <1>2, <1>3, MessageGoes

LEMMA EngineDownKeeps == ASSUME ControlInv, Control!engineDown PROVE ControlInv'
<1>1. ControlTypes /\ EngineInv /\ VoteInv /\ AskedInv
  BY DEF ControlInv
<1> DEFINE h == [i \in DOMAIN configured.has \cap {"GPS_LOCK", "SERVER", "PDE"} |-> configured.has[i]]
<1>2. /\ configured' = [configured EXCEPT !.up = FALSE, !.has = h]
      /\ UNCHANGED <<mApi, mPendingConfig, mConfig, mEnabled, controlQueues, generated, power, asked,
                     mGps_conf, mPowerVoteId, mServerUrl, lockStatus, settings, told>>
  BY DEF Control!engineDown, Control!client, Control!adapter
<1>3. /\ DOMAIN h = DOMAIN configured.has \cap {"GPS_LOCK", "SERVER", "PDE"}
      /\ \A i \in DOMAIN h : h[i] = configured.has[i]
  OBVIOUS
<1> HIDE DEF h
<1>4. configured' = [up |-> FALSE, has |-> h, failed |-> configured.failed]
  <2>1. configured = [up |-> configured.up, has |-> configured.has, failed |-> configured.failed]
    BY <1>1 DEF ControlTypes, ControlRecord
  <2> QED  BY <1>2, <2>1
<1>5. ControlRecord(configured') /\ ~configured'.up /\ configured'.has = h /\ configured'.failed = configured.failed
  BY <1>4, RecordMade
<1>6. ControlTypes'
  BY <1>1, <1>2, <1>5 DEF ControlTypes
<1>7. Same(configured, configured', "GPS_LOCK") /\ Same(configured, configured', "SERVER")
  BY <1>3, <1>5 DEF Same
<1>8. LockHeld(configured', mGps_conf', mPowerVoteId') /\ ServerHeld(configured', mServerUrl')
  BY <1>1, <1>2, <1>7, LockStays, ServerStays DEF EngineInv
<1>9. EngineInv'
  <2>1. ReadFirst'
    BY <1>1, <1>2, <1>3, <1>5 DEF EngineInv, ReadFirst
  <2>2. EngineHas' /\ CapsHeld'
    BY <1>1, <1>2, <1>5 DEF EngineInv, EngineHas, CapsHeld
  <2>3. \A j \in DOMAIN settings' : settings'[j].kind = "enable" => settings'[j].id > 0
    BY <1>1, <1>2 DEF EngineInv
  <2> QED  BY <1>8, <2>1, <2>2, <2>3 DEF EngineInv
<1>10. VoteInv' /\ AskedInv'
  BY <1>1, <1>2 DEF VoteInv, AskedInv, Repeats
<1> QED  BY <1>6, <1>9, <1>10 DEF ControlInv

LEMMA EngineUpKeeps == ASSUME ControlInv, Control!handleEngineUp PROVE ControlInv'
<1> DEFINE m == Control!msg("setConfig", 0, Control!Empty)
<1>1. ControlTypes /\ EngineInv /\ VoteInv /\ AskedInv
  BY DEF ControlInv
<1>2. /\ configured' = [configured EXCEPT !.up = TRUE] /\ settings' = Append(settings, m)
      /\ UNCHANGED <<mApi, mPendingConfig, mConfig, mEnabled, controlQueues, generated, power, asked,
                     mGps_conf, mPowerVoteId, mServerUrl, told>>
  BY DEF Control!handleEngineUp, Control!upMessages, Control!client, Control!adapter
<1>3. m \in ControlMsg /\ m.kind = "setConfig"
  BY EmptySetting, MsgMade DEF ControlKinds
<1> HIDE DEF m
<1>4. settings \in Seq(ControlMsg) /\ generated \in Nat /\ mPowerVoteId \in Nat
  BY <1>1 DEF ControlTypes
<1>5. settings' \in Seq(ControlMsg) /\ Grown(settings, settings')
  BY <1>2, <1>3, <1>4, GrownByNone, GrownByOne
<1>6. configured' = [up |-> TRUE, has |-> configured.has, failed |-> configured.failed]
  <2>1. configured = [up |-> configured.up, has |-> configured.has, failed |-> configured.failed]
    BY <1>1 DEF ControlTypes, ControlRecord
  <2> QED  BY <1>2, <2>1
<1>7. ControlRecord(configured') /\ configured'.up /\ configured'.has = configured.has /\ configured'.failed = configured.failed
  BY <1>6, RecordMade
<1>8. ControlTypes'
  BY <1>1, <1>2, <1>5, <1>7 DEF ControlTypes
<1>9. /\ DOMAIN settings = 1..Len(settings) /\ DOMAIN settings' = 1..(Len(settings) + 1)
      /\ \A j \in 1..Len(settings) : settings'[j] = settings[j]
      /\ settings'[Len(settings) + 1] = m /\ Len(settings) \in Nat
  BY <1>2, <1>3, <1>4, Appended
<1>10. EngineInv'
  <2>1. Sets(settings')
    BY <1>3, <1>9 DEF Sets
  <2>2. \A j \in DOMAIN settings' : (j \in DOMAIN settings /\ settings'[j] = settings[j]) \/ settings'[j] = m
    BY <1>9
  <2>3. ReadFirst'
    BY <1>1, <1>2, <1>3, <1>7, <2>1, <2>2 DEF EngineInv, ReadFirst
  <2>4. EngineHas'
    BY <2>1 DEF EngineHas
  <2>5. Same(configured, configured', "GPS_LOCK") /\ Same(configured, configured', "SERVER")
    BY <1>7 DEF Same
  <2>6. LockHeld(configured', mGps_conf', mPowerVoteId') /\ ServerHeld(configured', mServerUrl')
    BY <1>1, <1>2, <2>5, LockStays, ServerStays DEF EngineInv
  <2>7. CapsHeld'
    BY <1>1, <1>2 DEF EngineInv, CapsHeld
  <2>8. \A j \in DOMAIN settings' : settings'[j].kind = "enable" => settings'[j].id > 0
    BY <1>1, <1>3, <2>2 DEF EngineInv
  <2> QED  BY <2>3, <2>4, <2>6, <2>7, <2>8 DEF EngineInv
<1>11. VoteInv'
  <2>1. VotesInTurn(settings, mPowerVoteId, generated)
    BY <1>1 DEF VoteInv
  <2>2. /\ VotesInTurn(settings', mPowerVoteId, generated)
        /\ \A s : VoteOpen(settings, mPowerVoteId, s) => VoteOpen(settings', mPowerVoteId, s)
        /\ VotesClosed(settings, mPowerVoteId) => VotesClosed(settings', mPowerVoteId)
    BY <1>2, <1>3, <1>4, <2>1, OtherAppended
  <2> QED  BY <1>1, <1>2, <2>2 DEF VoteInv
<1>12. AskedInv'
  <2>1. CASE mApi
    <3>1. Arrive(settings, mGps_conf, asked)
      BY <1>1, <2>1 DEF AskedInv
    <3>2. Arrive(settings', mGps_conf, asked)
      BY <1>2, <1>3, <1>4, <3>1, AskedAppended
    <3> QED  BY <1>1, <1>2, <2>1, <3>2 DEF AskedInv, Repeats
  <2>2. CASE ~mApi
    BY <1>1, <1>2, <2>2 DEF AskedInv, Repeats
  <2> QED  BY <2>1, <2>2
<1> QED  BY <1>8, <1>10, <1>11, <1>12 DEF ControlInv

\* What is pending when the API object comes: the messages and the queues after it.
LEMMA ApiCreated ==
  ASSUME ControlInv, ~mApi,
         NEW c, c = IF mPendingConfig = Control!Empty THEN mConfig ELSE mPendingConfig,
         NEW m, m = Control!msg("requestCapabilities", 0, Control!Empty),
         NEW p, p = Control!passOn(controlQueues, Append(settings, m), c)
  PROVE  /\ c \in Configs /\ ControlQueues(p.queues)
         /\ p.queues["CONTROL"].session = controlQueues["CONTROL"].session
         /\ p.sessions \in Nat /\ generated <= p.sessions
         /\ p.msgs \in Seq(ControlMsg) /\ Grown(settings, p.msgs)
         /\ VotesInTurn(p.msgs, mPowerVoteId, p.sessions)
         /\ \A s : VoteOpen(settings, mPowerVoteId, s) => VoteOpen(p.msgs, mPowerVoteId, s)
         /\ VotesClosed(settings, mPowerVoteId) => VotesClosed(p.msgs, mPowerVoteId)
         /\ Arrive(p.msgs, mGps_conf, asked) /\ Repeats(c)
<1>1. ControlTypes /\ EngineInv /\ VoteInv /\ AskedInv
  BY DEF ControlInv
<1>2. c \in Configs /\ settings \in Seq(ControlMsg) /\ generated \in Nat /\ mPowerVoteId \in Nat
      /\ ControlQueues(controlQueues)
  BY <1>1 DEF ControlTypes
<1>3. m \in ControlMsg /\ m.kind = "requestCapabilities"
  BY EmptySetting, MsgMade DEF ControlKinds
<1> DEFINE q == Append(settings, m)
           u == Control!msg("updateConfig", 0, c)
<1>4. u \in ControlMsg /\ u.kind = "updateConfig" /\ u.config = c
  BY <1>2, MsgMade DEF ControlKinds
<1>5. q \in Seq(ControlMsg) /\ Grown(settings, q)
  BY <1>2, <1>3, GrownByNone, GrownByOne
<1>6. VotesInTurn(settings, mPowerVoteId, generated)
  BY <1>1 DEF VoteInv
<1>7. /\ VotesInTurn(q, mPowerVoteId, generated)
      /\ \A s : VoteOpen(settings, mPowerVoteId, s) => VoteOpen(q, mPowerVoteId, s)
      /\ VotesClosed(settings, mPowerVoteId) => VotesClosed(q, mPowerVoteId)
  BY <1>2, <1>3, <1>6, OtherAppended
<1>8. Arrive(q, mGps_conf, Control!Empty)
  BY NothingAsked
<1> HIDE DEF q, u
<1>9. /\ ControlQueues(p.queues) /\ p.queues["CONTROL"].session = controlQueues["CONTROL"].session
      /\ p.sessions \in Nat /\ generated <= p.sessions
      /\ c = mConfig => p.msgs = q
      /\ c # mConfig => p.msgs = Append(q, u)
  <2> DEFINE o == Control!passOn(controlQueues, q, c)
  <2>1. /\ ControlQueues(o.queues) /\ o.queues["CONTROL"].session = controlQueues["CONTROL"].session
        /\ o.sessions \in Nat /\ generated <= o.sessions
        /\ c = mConfig => o.msgs = q
        /\ c # mConfig => o.msgs = Append(q, Control!msg("updateConfig", 0, c))
    BY <1>2, <1>5, PassOnSays
  <2>2. p = o
    BY DEF q
  <2> HIDE DEF o
  <2> QED  BY <2>1, <2>2 DEF u
<1>10. p.msgs \in Seq(ControlMsg) /\ Grown(settings, p.msgs)
  BY <1>2, <1>4, <1>5, <1>9, GrownByOne
<1>11. /\ VotesInTurn(p.msgs, mPowerVoteId, p.sessions)
       /\ \A s : VoteOpen(settings, mPowerVoteId, s) => VoteOpen(p.msgs, mPowerVoteId, s)
       /\ VotesClosed(settings, mPowerVoteId) => VotesClosed(p.msgs, mPowerVoteId)
  <2>1. CASE c # mConfig
    BY <1>2, <1>4, <1>5, <1>7, <1>9, <2>1, OtherAppended
  <2>2. CASE c = mConfig
    <3>1. VotesInTurn(q, mPowerVoteId, p.sessions)
      BY <1>2, <1>7, <1>9 DEF VotesInTurn
    <3> QED  BY <1>7, <1>9, <2>2, <3>1
  <2> QED  BY <2>1, <2>2
<1>12. mConfig = Control!Empty /\ Repeats(mPendingConfig) /\ DOMAIN asked \subseteq DOMAIN mPendingConfig
  BY <1>1 DEF AskedInv
<1>13. Repeats(c)
  BY <1>12, EmptySetting DEF Repeats
<1>14. Arrive(p.msgs, mGps_conf, asked)
  <2>1. CASE mPendingConfig = Control!Empty
    <3>1. DOMAIN asked = {}
      BY <1>12, <2>1, EmptySetting
    <3> QED  BY <3>1 DEF Arrive
  <2>2. CASE mPendingConfig # Control!Empty
    <3>1. p.msgs = Append(q, u) /\ c = mPendingConfig
      BY <1>9, <1>12, <2>2
    <3>2. \A i \in DOMAIN asked \ Servers : i \in DOMAIN u.config /\ asked[i] = u.config[i]
      BY <1>4, <1>12, <3>1 DEF Repeats
    <3> QED  BY <1>4, <1>5, <1>8, <3>1, <3>2, AskedAppended
  <2> QED  BY <2>1, <2>2
<1> QED
  BY <1>2, <1>9, <1>10, <1>11, <1>13, <1>14

LEMMA SetCallbackKeepsControl == ASSUME ControlInv, Control!setCallback PROVE ControlInv'
<1> DEFINE c == IF mPendingConfig = Control!Empty THEN mConfig ELSE mPendingConfig
           m == Control!msg("requestCapabilities", 0, Control!Empty)
           new == IF mApi THEN [queues |-> controlQueues, msgs |-> settings, sessions |-> generated]
                  ELSE Control!passOn(controlQueues, Append(settings, m), c)
           id == new.sessions + 1
           e == Control!msg("enable", id, Control!Empty)
           z == Control!reset(new.queues, "CONTROL", id)
<1>1. ControlTypes /\ EngineInv /\ VoteInv /\ AskedInv
  BY DEF ControlInv
<1>2. /\ mApi' = TRUE /\ mEnabled' = TRUE
      /\ mConfig' = IF mApi \/ mPendingConfig = Control!Empty THEN mConfig ELSE mPendingConfig
      /\ UNCHANGED <<mPendingConfig, mGps_conf, mPowerVoteId, mServerUrl, configured, told, asked>>
      /\ mEnabled => /\ controlQueues' = new.queues /\ settings' = new.msgs /\ generated' = new.sessions /\ power' = power
      /\ ~mEnabled => /\ controlQueues' = Control!pushRequest(z, "CONTROL", "enable")
                      /\ settings' = Append(new.msgs, e) /\ generated' = id /\ power' = TRUE
  BY DEF Control!setCallback, Control!alreadyEnabled, Control!adapter
<1>3. /\ ControlQueues(new.queues) /\ new.queues["CONTROL"].session = controlQueues["CONTROL"].session
      /\ new.sessions \in Nat /\ generated <= new.sessions
      /\ new.msgs \in Seq(ControlMsg) /\ Grown(settings, new.msgs)
      /\ VotesInTurn(new.msgs, mPowerVoteId, new.sessions)
      /\ \A s : VoteOpen(settings, mPowerVoteId, s) => VoteOpen(new.msgs, mPowerVoteId, s)
      /\ VotesClosed(settings, mPowerVoteId) => VotesClosed(new.msgs, mPowerVoteId)
      /\ Arrive(new.msgs, mGps_conf, asked) /\ Repeats(mConfig)'
      /\ mConfig' \in Configs
  <2>1. CASE mApi
    <3>1. new.queues = controlQueues /\ new.msgs = settings /\ new.sessions = generated
      BY <2>1
    <3> HIDE DEF new
    <3>2. /\ ControlQueues(controlQueues) /\ generated \in Nat /\ settings \in Seq(ControlMsg) /\ mConfig \in Configs
      BY <1>1 DEF ControlTypes
    <3>3. Grown(settings, settings)
      BY <3>2, GrownByNone
    <3>4. VotesInTurn(settings, mPowerVoteId, generated)
      BY <1>1 DEF VoteInv
    <3>5. Arrive(settings, mGps_conf, asked) /\ Repeats(mConfig)
      BY <1>1, <2>1 DEF AskedInv
    <3>6. Repeats(mConfig)'
      BY <1>2, <2>1, <3>5 DEF Repeats
    <3> QED  BY <1>2, <2>1, <3>1, <3>2, <3>3, <3>4, <3>5, <3>6
  <2>2. CASE ~mApi
    <3>1. new = Control!passOn(controlQueues, Append(settings, m), c)
      BY <2>2
    <3>2. mConfig' = c
      BY <1>2, <2>2
    <3> HIDE DEF new, m
    <3>3. /\ c \in Configs /\ ControlQueues(new.queues) /\ new.queues["CONTROL"].session = controlQueues["CONTROL"].session
          /\ new.sessions \in Nat /\ generated <= new.sessions
          /\ new.msgs \in Seq(ControlMsg) /\ Grown(settings, new.msgs)
          /\ VotesInTurn(new.msgs, mPowerVoteId, new.sessions)
          /\ \A s : VoteOpen(settings, mPowerVoteId, s) => VoteOpen(new.msgs, mPowerVoteId, s)
          /\ VotesClosed(settings, mPowerVoteId) => VotesClosed(new.msgs, mPowerVoteId)
          /\ Arrive(new.msgs, mGps_conf, asked) /\ Repeats(c)
      BY <2>2, <3>1, ApiCreated DEF m
    <3> HIDE DEF c
    <3>4. Repeats(mConfig)'
      BY <1>2, <3>2, <3>3 DEF Repeats
    <3> QED  BY <3>2, <3>3, <3>4
  <2> QED  BY <2>1, <2>2
<1> HIDE DEF new, c, m
<1>4. generated \in Nat /\ mPowerVoteId \in Nat /\ mEnabled \in BOOLEAN
  BY <1>1 DEF ControlTypes
<1>5. CASE mEnabled
  <2>1. ControlTypes'
    BY <1>1, <1>2, <1>3, <1>5 DEF ControlTypes
  <2>2. EngineInv'
    BY <1>1, <1>2, <1>3, <1>5, EngineGrows
  <2>3. VoteInv'
    BY <1>1, <1>2, <1>3, <1>5 DEF VoteInv
  <2>4. AskedInv'
    BY <1>2, <1>3, <1>5 DEF AskedInv
  <2> QED  BY <2>1, <2>2, <2>3, <2>4 DEF ControlInv
<1>6. CASE ~mEnabled
  <2>1. id \in Nat /\ id > new.sessions
    BY <1>3
  <2>2. e \in ControlMsg /\ e.kind = "enable" /\ e.id = id
    BY <2>1, EmptySetting, MsgMade DEF ControlKinds
  <2>3. ControlQueues(z) /\ z["CONTROL"].session = id
    BY <1>3, QueueMade DEF Control!QueueTypes
  <2> HIDE DEF z, e, id
  <2>4. ControlQueues(controlQueues') /\ controlQueues'["CONTROL"].session = id
    BY <1>2, <1>6, <2>3, QueueMade DEF Control!QueueTypes
  <2>5. settings' \in Seq(ControlMsg) /\ Grown(settings, settings')
    <3>1. settings \in Seq(ControlMsg) /\ e.id > 0
      BY <1>1, <1>3, <2>1, <2>2 DEF ControlTypes
    <3> QED  BY <1>2, <1>3, <1>6, <2>2, <3>1, GrownByOne
  <2>6. ControlTypes'
    BY <1>1, <1>2, <1>3, <1>6, <2>1, <2>4, <2>5 DEF ControlTypes
  <2>7. EngineInv'
    BY <1>1, <1>2, <2>5, EngineGrows
  <2>8. VoteInv'
    <3>1. VotesClosed(new.msgs, mPowerVoteId)
      BY <1>1, <1>3, <1>6 DEF VoteInv
    <3>2. VotesInTurn(settings', mPowerVoteId, id) /\ VoteOpen(settings', mPowerVoteId, id)
      BY <1>2, <1>3, <1>4, <1>6, <2>1, <2>2, <3>1, VoteAppended
    <3> QED  BY <1>2, <1>6, <2>4, <3>2 DEF VoteInv
  <2>9. AskedInv'
    <3>1. Arrive(settings', mGps_conf, asked)
      BY <1>2, <1>3, <1>6, <2>2, AskedAppended
    <3> QED  BY <1>2, <1>3, <3>1 DEF AskedInv
  <2> QED  BY <2>6, <2>7, <2>8, <2>9 DEF ControlInv
<1> QED  BY <1>4, <1>5, <1>6

LEMMA ControlKept == ControlInv /\ [Control!Next]_(Control!vars) => ControlInv'
<1> SUFFICES ASSUME ControlInv, [Control!Next]_(Control!vars) PROVE ControlInv'
  OBVIOUS
<1>1. CASE Control!Handle
  BY <1>1, ControlHandleKeeps
<1>2. CASE Control!setCallback
  BY <1>2, SetCallbackKeepsControl
<1>3. CASE Control!cleanup
  BY <1>3, CleanupKeepsControl
<1>4. CASE Control!deleteAidingData
  BY <1>4, DeleteCallKeeps
<1>5. ASSUME NEW config \in Settings, Control!updateConfiguration(config) PROVE ControlInv'
  BY <1>5, UpdateCallKeeps
<1>6. CASE Control!loadUlp
  BY <1>6, LoadUlpKeeps
<1>7. CASE Control!engineDown
  BY <1>7, EngineDownKeeps
<1>8. CASE Control!handleEngineUp
  BY <1>8, EngineUpKeeps
<1>9. CASE UNCHANGED Control!vars
  <2>1. UNCHANGED <<mApi, mPendingConfig, mConfig, mEnabled, controlQueues, generated, settings, mGps_conf,
                    mPowerVoteId, mServerUrl, configured, power, told, asked>>
    BY <1>9 DEF Control!vars
  <2>2. ControlTypes' /\ VoteInv'
    BY <2>1 DEF ControlInv, ControlTypes, VoteInv
  <2>3. EngineInv' /\ AskedInv'
    BY <2>1 DEF ControlInv, EngineInv, ReadFirst, EngineHas, CapsHeld, AskedInv, Repeats
  <2> QED  BY <2>2, <2>3 DEF ControlInv
<1> QED
  BY <1>1, <1>2, <1>3, <1>4, <1>5, <1>6, <1>7, <1>8, <1>9 DEF Control!Next

\* What the properties of the module ask for.
LEMMA ControlSays == ControlInv => Control!EngineConfigured /\ Control!ConfigurationInForce
<1> SUFFICES ASSUME ControlInv PROVE Control!EngineConfigured /\ Control!ConfigurationInForce
  OBVIOUS
<1>1. ControlTypes /\ EngineInv /\ VoteInv /\ AskedInv
  BY DEF ControlInv
<1>2. ASSUME settings = <<>> PROVE Len(settings) = 0 /\ DOMAIN settings = {}
  BY <1>2
<1>3. Control!EngineAgrees
  BY <1>1, <1>2 DEF Control!EngineAgrees, Control!Settled, EngineInv, EngineHas, Sets, Agrees, Restarted
<1>4. Control!LockFollowsVote
  BY <1>1 DEF Control!LockFollowsVote, EngineInv, LockHeld
<1>5. Control!ServerAgrees
  BY <1>1 DEF Control!ServerAgrees, EngineInv, ServerHeld
<1>6. Control!CapabilitiesCurrent
  BY <1>1 DEF Control!CapabilitiesCurrent, ControlTypes, EngineInv, CapsHeld
<1>7. Control!VoteAgrees
  <2> SUFFICES ASSUME settings = <<>> PROVE power <=> mPowerVoteId > 0
    BY DEF Control!VoteAgrees
  <2>1. Withdrawn(settings) = {} /\ (0 \in Votes(settings, mPowerVoteId) <=> mPowerVoteId > 0)
        /\ \A j \in Votes(settings, mPowerVoteId) : j = 0
    BY <1>2 DEF Withdrawn, Votes
  <2> QED  BY <1>1, <2>1 DEF VoteInv, VoteOpen, VotesClosed, WithdrawnAfter
<1>8. Control!ConfigNotLost
  <2> SUFFICES ASSUME mApi, settings = <<>>, NEW i \in DOMAIN asked \ Servers
               PROVE  InForce(mGps_conf, i, asked[i])
    BY DEF Control!ConfigNotLost, InForce, Servers
  <2>1. Updates(settings, i) = {}
    BY <1>2 DEF Updates
  <2> QED  BY <1>1, <2>1 DEF AskedInv, Arrive
<1> QED
  BY <1>3, <1>4, <1>5, <1>6, <1>7, <1>8 DEF Control!EngineConfigured, Control!ConfigurationInForce

LEMMA ControlStays == ClientsSpec => [](part = "control" => ControlInv)
<1> DEFINE I == part = "control" => ControlInv
<1>1. ClientsInit => I
  BY ControlStarts DEF ClientsInit
<1>2. I /\ [ClientsNext]_allVars => I'
  <2> SUFFICES ASSUME I, [ClientsNext]_allVars, part' = "control" PROVE ControlInv'
    OBVIOUS
  <2>1. CASE part = "control"
    <3>1. [Control!Next]_(Control!vars)
      BY <2>1 DEF ClientsNext, allVars, controlVars, Control!vars
    <3> QED  BY <2>1, <3>1, ControlKept
  <2>2. CASE part # "control"
    BY <2>2 DEF ClientsNext, allVars
  <2> QED  BY <2>1, <2>2
<1> QED
  BY <1>1, <1>2, PTL DEF ClientsSpec

\* Whatever the order of settings, restarts and power votes, an engine that is up has what mGps_conf says,
\* is locked as the vote wants and has the server that setSuplHostServer remembers, for any settings and any
\* gps.conf (GnssAdapter.cpp, setConfigCommand, gnssUpdateConfigCommand, enableCommand, disableCommand).
THEOREM EngineStaysConfigured == ClientsSpec => []EngineConfigured
<1>1. (part = "control" => ControlInv) => EngineConfigured
  BY ControlSays DEF EngineConfigured
<1> QED
  BY <1>1, ControlStays, PTL

\* What the framework configured last, before or after there was an API object, is what mGps_conf has, the power
\* vote is that of the client, and clients and ULP know the capabilities in force (Gnss.cpp, updateConfiguration
\* and cleanup; LocationAPIClientBase.cpp, locAPIEnable, locAPIDisable and locAPIGnssUpdateConfig).
THEOREM ConfigurationStaysInForce == ClientsSpec => []ConfigurationInForce
<1>1. (part = "control" => ControlInv) => ConfigurationInForce
  BY ControlSays DEF ConfigurationInForce
<1> QED
  BY <1>1, ControlStays, PTL
=============================================================================
