----------------------------- MODULE ClientsProofs -----------------------------
(***************************************************************************)
(* Proofs about the requests and answers of a location client              *)
(* (LocationClient), for any number of sessions, requests and ids, whether *)
(* or not NI notifications have ids that sessions have.  Every answer whose*)
(* id is not such a shared one is given to the request that asked for it,  *)
(* and the client's sessions and those the adapter runs are the same but   *)
(* for what is under way.  Then about its geofences (Geofences), which     *)
(* MCClients puts beside it.                                               *)
(***************************************************************************)
EXTENDS MCClients, TLAPS

\* What the two roles of a client send.
TrackKinds == {"StartTracking", "StopTracking", "UpdateTracking"}
BatchKinds == {"StartBatching", "StopBatching", "UpdateBatching", "GetBatchedLocations"}
Asked == {c \in Commands : c.asks = Request(c.kind, c.session)}

Requested(q) == mRequestQueues[q].requests
SessionOf(q) == mRequestQueues[q].session

ClientTypeOK ==
  /\ role \in {"gnss", "batching"}
  /\ mRequestQueues \in [QueueTypes -> [session : Nat, requests : Seq(Requests)]]
  /\ commands \in Seq(Asked)
  /\ response = None \/ response \in [command : Asked, ok : BOOLEAN]
  /\ request = None \/ (request \in Requests /\ response # None)
  /\ call = None \/ call \in Calls
  /\ started \in 0 .. MaxSession
  /\ mTracking \in BOOLEAN /\ hasty \in BOOLEAN

\* The maps of a dictionary with sessions up to n.  Two ids never have one session.
Consistent(d, n) ==
  /\ d = [forward |-> d.forward, backward |-> d.backward]
  /\ \A id \in DOMAIN d.forward :
       /\ d.forward[id] \in 0 .. n
       /\ d.forward[id] # 0 => d.forward[id] \in DOMAIN d.backward /\ d.backward[d.forward[id]] = id
  /\ \A s \in DOMAIN d.backward :
       s \in 0 .. n /\ d.backward[s] \in DOMAIN d.forward /\ d.forward[d.backward[s]] = s

\* A call has looked up a session that is its id's or has been removed.
LookedUp(c, d, n) ==
  c # None /\ c.session # None =>
    /\ c.session \in 0 .. n
    /\ c.session # 0 /\ c.session \in DOMAIN d.backward => d.backward[c.session] = c.id

Forward == mSessionBiDict.forward
Backward == mSessionBiDict.backward
DictionaryKept == Consistent(mSessionBiDict, started)
CallKept == LookedUp(call, mSessionBiDict, started)

(***************************************************************************)
(* Tracking.                                                               *)
(***************************************************************************)
\* The requests rs are those of the commands in cs about session s, in their order.
Matches(rs, cs, s) ==
  \E f \in [DOMAIN rs -> DOMAIN cs] :
    /\ \A k, l \in DOMAIN rs : k < l => f[k] < f[l]
    /\ \A k \in DOMAIN rs : rs[k] = cs[f[k]].asks
    /\ \A i \in DOMAIN cs : cs[i].session = s <=> \E k \in DOMAIN rs : f[k] = i

GnssCommand(c, n) ==
  \/ c.kind \in TrackKinds /\ c.session \in 1 .. n
  \/ c.kind = "GnssNiResponse" /\ c.session \in NiIds

\* Nothing of batching is used.
NoBatching ==
  /\ DOMAIN Forward = {} /\ DOMAIN Backward = {}
  /\ call = None /\ hasty = FALSE /\ Requested("SESSION") = <<>>

GnssQueues ==
  /\ active \subseteq 1 .. started
  /\ SessionOf("TRACKING") = started
  /\ SessionOf("NIRESPONSE") \in NiIds \cup {0}
  /\ \A k \in DOMAIN Requested("NIRESPONSE") :
       Requested("NIRESPONSE")[k] = Request("GnssNiResponse", SessionOf("NIRESPONSE"))
  /\ \A i \in DOMAIN commands : GnssCommand(commands[i], started)
  /\ response # None => GnssCommand(response.command, started)

\* A command of a kind for session s is in cs.
Queued(cs, kind, s) == \E i \in DOMAIN cs : cs[i].kind = kind /\ cs[i].session = s

\* A session is started once, when it does not run and before anything else is asked of it.
StartsFirst(cs, running) ==
  \A j \in DOMAIN cs : cs[j].kind = "StartTracking" =>
    /\ cs[j].session \notin running
    /\ \A i \in DOMAIN cs : i < j /\ cs[i].kind \in TrackKinds => cs[i].session # cs[j].session

\* The adapter's thread is about to look for the request of an answer about s.
Answering(s) == response # None /\ request = None /\ response.command.session = s

\* The requests whose answers are still to come.
Waiting == IF Answering(started) THEN Tail(Requested("TRACKING")) ELSE Requested("TRACKING")

\* As long as the session runs or is to be started, its requests are those of its commands, unless
\* a notification has its id: an answer to that one may take them.
TrackingMatches ==
  started # 0 /\ started \notin NiIds =>
    /\ Answering(started) =>
         Requested("TRACKING") # <<>> /\ Head(Requested("TRACKING")) = response.command.asks
    /\ started \in active \/ Queued(commands, "StartTracking", started) =>
         Matches(Waiting, commands, started)

\* The request found is the one that was asked.
FoundAsked == request # None => request = response.command.asks
FoundUnlessShared ==
  request # None => Shared(response.command.session) \/ request = response.command.asks

\* A session that is not tracked any more is about to be stopped.
StopsFollow ==
  \A s \in Sessions :
    /\ s \in active \/ Queued(commands, "StartTracking", s)
    /\ s # started \/ mTracking = FALSE
    => Queued(commands, "StopTracking", s) \/ s \in refused

GnssInv ==
  role = "gnss" =>
    NoBatching /\ GnssQueues /\ StartsFirst(commands, active) /\ TrackingMatches /\ FoundUnlessShared /\ StopsFollow

(***************************************************************************)
(* Batching.                                                               *)
(***************************************************************************)
NoTracking ==
  \A q \in {"TRACKING", "NIRESPONSE"} : SessionOf(q) = 0 /\ Requested(q) = <<>>

\* The requests rs are those of the commands in cs.
InOrder(rs, cs) == Len(rs) = Len(cs) /\ \A k \in DOMAIN rs : rs[k] = cs[k].asks

Ends == {"StartBatching", "StopBatching"}

BatchCommand(c, d) == c.kind \in BatchKinds /\ c.session \in DOMAIN d.backward /\ c.session # 0

BatchQueue ==
  IF response # None /\ request = None
  THEN /\ Requested("SESSION") # <<>> /\ Head(Requested("SESSION")) = response.command.asks
       /\ InOrder(Tail(Requested("SESSION")), commands)
  ELSE InOrder(Requested("SESSION"), commands)

SessionsKnown ==
  /\ \A i \in DOMAIN commands : BatchCommand(commands[i], mSessionBiDict)
  /\ response # None => BatchCommand(response.command, mSessionBiDict)
  /\ \A id \in DOMAIN Forward : Forward[id] # 0
  /\ call # None =>
       /\ call.kind \in BatchKinds \ {"StartBatching"} /\ call.id \in DOMAIN Forward
       /\ call.session # None => Forward[call.id] = call.session
  /\ active \subseteq DOMAIN Backward

\* A start or a stop is the last thing asked.
LastEnds(cs) == \A i \in DOMAIN cs : cs[i].kind \in Ends => i = Len(cs)
NoEnds(cs) == \A i \in DOMAIN cs : cs[i].kind \notin Ends

EndsLast ==
  /\ LastEnds(commands)
  /\ call # None => NoEnds(commands)
  /\ response # None /\ response.command.kind \in Ends => commands = <<>> /\ call = None

\* The answer to a start or stop ends the session, or will when its request is found.
Ending == response # None /\ endsSession(response.command, response.ok)

\* What a session in the dictionary is there for.
NotPhantom ==
  /\ \A s \in DOMAIN Backward :
       s \in active \/ Queued(commands, "StartBatching", s) \/ (Ending /\ response.command.session = s)
  /\ \A s \in active : ~Queued(commands, "StartBatching", s) /\ ~(Ending /\ response.command.session = s)

BatchInv ==
  role = "batching" =>
    /\ NoTracking
    /\ hasty = FALSE => BatchQueue /\ SessionsKnown /\ EndsLast /\ NotPhantom /\ FoundAsked

ClientInv == ClientTypeOK /\ DictionaryKept /\ CallKept /\ GnssInv /\ BatchInv

-----------------------------------------------------------------------------
(***************************************************************************)
(* Sequences.                                                              *)
(***************************************************************************)
LEMMA AddedTyping ==
  ASSUME NEW S, NEW q \in Seq(S), NEW e \in S
  PROVE  /\ Append(q, e) \in Seq(S) /\ Append(q, e) # <<>>
         /\ q # <<>> => Head(Append(q, e)) = Head(q) /\ Tail(Append(q, e)) = Append(Tail(q), e)
  OBVIOUS

LEMMA TakenTyping ==
  ASSUME NEW S, NEW q \in Seq(S), q # <<>>
  PROVE  Head(q) \in S /\ Tail(q) \in Seq(S)
  OBVIOUS

\* The elements of a sequence with one more, or with the first taken off.
LEMMA AddedElements ==
  ASSUME NEW S, NEW q \in Seq(S), NEW e \in S
  PROVE  /\ Len(Append(q, e)) = Len(q) + 1
         /\ DOMAIN q = 1 .. Len(q) /\ Len(q) \in Nat
         /\ DOMAIN Append(q, e) = 1 .. Len(q) + 1
         /\ Append(q, e)[Len(q) + 1] = e
         /\ \A i \in 1 .. Len(q) : Append(q, e)[i] = q[i]
  OBVIOUS

LEMMA TakenElements ==
  ASSUME NEW S, NEW q \in Seq(S), q # <<>>
  PROVE  /\ Len(q) \in Nat \ {0} /\ Len(Tail(q)) = Len(q) - 1
         /\ DOMAIN q = 1 .. Len(q)
         /\ DOMAIN Tail(q) = 1 .. Len(q) - 1
         /\ Head(q) = q[1]
         /\ \A i \in 1 .. Len(q) - 1 : Tail(q)[i] = q[i + 1]
  OBVIOUS

\* No command is about the session, and it has no request.
LEMMA MatchesNone ==
  ASSUME NEW cs \in Seq(Asked), NEW s, \A i \in DOMAIN cs : cs[i].session # s
  PROVE  Matches(<<>>, cs, s)
<1>1. DOMAIN <<>> = {}
  OBVIOUS
<1> DEFINE f == [k \in {} |-> 1]
<1>2. f \in [{} -> DOMAIN cs]
  OBVIOUS
<1> QED
  BY <1>1, <1>2 DEF Matches

\* A command about the session is sent, with its request.
LEMMA MatchesOwn ==
  ASSUME NEW cs \in Seq(Asked), NEW rs \in Seq(Requests), NEW s, NEW c \in Asked,
         Matches(rs, cs, s), c.session = s, c.asks \in Requests
  PROVE  Matches(Append(rs, c.asks), Append(cs, c), s)
<1> DEFINE n == Len(rs) + 1
           m == Len(cs) + 1
           r == Append(rs, c.asks)
           d == Append(cs, c)
<1>1. /\ n \in Nat \ {0} /\ DOMAIN rs = 1 .. n - 1 /\ DOMAIN r = 1 .. n /\ r[n] = c.asks
      /\ \A k \in 1 .. n - 1 : r[k] = rs[k]
  BY AddedElements
<1>2. /\ m \in Nat \ {0} /\ DOMAIN cs = 1 .. m - 1 /\ DOMAIN d = 1 .. m /\ d[m] = c
      /\ \A k \in 1 .. m - 1 : d[k] = cs[k]
  BY AddedElements
<1> HIDE DEF n, m, r, d
<1>3. PICK f \in [DOMAIN rs -> DOMAIN cs] :
        /\ \A k, l \in DOMAIN rs : k < l => f[k] < f[l]
        /\ \A k \in DOMAIN rs : rs[k] = cs[f[k]].asks
        /\ \A i \in DOMAIN cs : cs[i].session = s <=> \E k \in DOMAIN rs : f[k] = i
  BY DEF Matches
<1> DEFINE g == [k \in 1 .. n |-> IF k = n THEN m ELSE f[k]]
<1>4. ASSUME NEW k \in 1 .. n - 1 PROVE k \in DOMAIN rs /\ k \in 1 .. n /\ k # n /\ f[k] \in 1 .. m - 1
  BY <1>1, <1>2, <1>3
<1>8. n \in 1 .. n /\ m \in 1 .. m
  BY <1>1, <1>2
<1>9. ASSUME NEW k \in 1 .. n PROVE g[k] \in 1 .. m
  BY <1>1, <1>2, <1>3, <1>4, <1>8
<1>10. g \in [DOMAIN r -> DOMAIN d] /\ g[n] = m /\ \A k \in 1 .. n - 1 : g[k] = f[k]
  BY <1>1, <1>2, <1>4, <1>8, <1>9
<1> HIDE DEF g
<1>5. \A k, l \in DOMAIN r : k < l => g[k] < g[l]
  <2> SUFFICES ASSUME NEW k \in 1 .. n, NEW l \in 1 .. n, k < l PROVE g[k] < g[l]
    BY <1>1
  <2>1. k \in 1 .. n - 1 /\ g[k] = f[k] /\ f[k] \in 1 .. m - 1
    BY <1>1, <1>4, <1>10
  <2>2. CASE l = n
    BY <1>2, <1>10, <2>1, <2>2
  <2>3. CASE l # n
    <3>1. l \in 1 .. n - 1 /\ g[l] = f[l]
      BY <1>1, <1>10, <2>3
    <3> QED
      BY <1>3, <1>4, <2>1, <3>1
  <2> QED
    BY <2>2, <2>3
<1>6. \A k \in DOMAIN r : r[k] = d[g[k]].asks
  <2> SUFFICES ASSUME NEW k \in 1 .. n PROVE r[k] = d[g[k]].asks
    BY <1>1
  <2>1. CASE k = n
    BY <1>1, <1>2, <1>10, <2>1
  <2>2. CASE k # n
    <3>1. k \in 1 .. n - 1
      BY <1>1, <2>2
    <3>2. k \in DOMAIN rs /\ g[k] = f[k] /\ f[k] \in 1 .. m - 1
      BY <1>4, <1>10, <3>1
    <3>3. r[k] = rs[k] /\ rs[k] = cs[f[k]].asks /\ d[f[k]] = cs[f[k]]
      BY <1>1, <1>2, <1>3, <3>1, <3>2
    <3> QED
      BY <3>2, <3>3
  <2> QED
    BY <2>1, <2>2
<1>7. \A i \in DOMAIN d : d[i].session = s <=> \E k \in DOMAIN r : g[k] = i
  <2> SUFFICES ASSUME NEW i \in 1 .. m PROVE d[i].session = s <=> \E k \in 1 .. n : g[k] = i
    BY <1>1, <1>2
  <2>1. CASE i = m
    <3>1. d[i].session = s
      BY <1>2, <2>1
    <3>2. n \in 1 .. n /\ g[n] = i
      BY <1>8, <1>10, <2>1
    <3> QED
      BY <3>1, <3>2
  <2>2. CASE i # m
    <3>1. i \in DOMAIN cs /\ d[i] = cs[i]
      BY <1>2, <2>2
    <3>2. ASSUME NEW k \in 1 .. n, g[k] = i PROVE \E l \in DOMAIN rs : f[l] = i
      <4>1. k # n
        BY <1>10, <2>2, <3>2
      <4>2. k \in 1 .. n - 1 /\ g[k] = f[k]
        BY <1>1, <1>10, <4>1
      <4> QED
        BY <1>4, <3>2, <4>2
    <3>3. ASSUME NEW k \in DOMAIN rs, f[k] = i PROVE \E l \in 1 .. n : g[l] = i
      <4>1. k \in 1 .. n /\ g[k] = i
        BY <1>1, <1>4, <1>10, <3>3
      <4> QED
        BY <4>1
    <3> QED
      BY <1>3, <3>1, <3>2, <3>3
  <2> QED
    BY <2>1, <2>2
<1> QED
  BY <1>5, <1>6, <1>7, <1>10 DEF Matches, r, d

\* A command about something else is sent.
LEMMA MatchesOther ==
  ASSUME NEW cs \in Seq(Asked), NEW rs \in Seq(Requests), NEW s, NEW c \in Asked,
         Matches(rs, cs, s), c.session # s
  PROVE  Matches(rs, Append(cs, c), s)
<1> DEFINE m == Len(cs) + 1
           d == Append(cs, c)
<1>1. /\ m \in Nat /\ DOMAIN cs = 1 .. m - 1 /\ DOMAIN d = 1 .. m /\ d[m] = c
      /\ \A k \in 1 .. m - 1 : d[k] = cs[k]
  BY AddedElements
<1> HIDE DEF m, d
<1>2. PICK f \in [DOMAIN rs -> DOMAIN cs] :
        /\ \A k, l \in DOMAIN rs : k < l => f[k] < f[l]
        /\ \A k \in DOMAIN rs : rs[k] = cs[f[k]].asks
        /\ \A i \in DOMAIN cs : cs[i].session = s <=> \E k \in DOMAIN rs : f[k] = i
  BY DEF Matches
<1>3. f \in [DOMAIN rs -> DOMAIN d] /\ \A k \in DOMAIN rs : f[k] \in 1 .. m - 1
  BY <1>1
<1>4. \A k \in DOMAIN rs : rs[k] = d[f[k]].asks
  BY <1>1, <1>2, <1>3
<1>5. ASSUME NEW i \in DOMAIN d PROVE d[i].session = s <=> \E k \in DOMAIN rs : f[k] = i
  <2>1. CASE i = m
    BY <1>1, <1>3, <2>1
  <2>2. CASE i # m
    BY <1>1, <1>2, <2>2
  <2> QED
    BY <2>1, <2>2
<1> QED
  BY <1>2, <1>3, <1>4, <1>5 DEF Matches, d

\* A command about something else is handled.
LEMMA MatchesSkips ==
  ASSUME NEW cs \in Seq(Asked), NEW rs \in Seq(Requests), NEW s, cs # <<>>,
         Matches(rs, cs, s), Head(cs).session # s
  PROVE  Matches(rs, Tail(cs), s)
<1> DEFINE m == Len(cs)
           d == Tail(cs)
<1>1. /\ m \in Nat \ {0} /\ DOMAIN cs = 1 .. m /\ DOMAIN d = 1 .. m - 1 /\ cs[1].session # s
      /\ \A k \in 1 .. m - 1 : d[k] = cs[k + 1]
  BY TakenElements
<1> HIDE DEF m, d
<1>2. PICK f \in [DOMAIN rs -> DOMAIN cs] :
        /\ \A k, l \in DOMAIN rs : k < l => f[k] < f[l]
        /\ \A k \in DOMAIN rs : rs[k] = cs[f[k]].asks
        /\ \A i \in DOMAIN cs : cs[i].session = s <=> \E k \in DOMAIN rs : f[k] = i
  BY DEF Matches
<1> DEFINE g == [k \in DOMAIN rs |-> f[k] - 1]
<1>3. ASSUME NEW k \in DOMAIN rs PROVE f[k] \in 2 .. m
  <2>1. f[k] \in 1 .. m /\ cs[f[k]].session = s
    BY <1>1, <1>2
  <2> QED
    BY <1>1, <2>1
<1>4. g \in [DOMAIN rs -> DOMAIN d] /\ \A k \in DOMAIN rs : g[k] = f[k] - 1
  BY <1>1, <1>3
<1> HIDE DEF g
<1>5. \A k, l \in DOMAIN rs : k < l => g[k] < g[l]
  BY <1>2, <1>3, <1>4
<1>6. \A k \in DOMAIN rs : rs[k] = d[g[k]].asks
  BY <1>1, <1>2, <1>3, <1>4
<1>7. ASSUME NEW i \in DOMAIN d PROVE d[i].session = s <=> \E k \in DOMAIN rs : g[k] = i
  <2>1. i + 1 \in DOMAIN cs /\ d[i] = cs[i + 1] /\ i \in Nat
    BY <1>1
  <2>2. (\E k \in DOMAIN rs : g[k] = i) <=> \E k \in DOMAIN rs : f[k] = i + 1
    BY <1>3, <1>4, <2>1
  <2> QED
    BY <1>2, <2>1, <2>2
<1> QED
  BY <1>4, <1>5, <1>6, <1>7 DEF Matches, d

\* A command about the session is handled: it was the first request's.
LEMMA MatchesFirst ==
  ASSUME NEW cs \in Seq(Asked), NEW rs \in Seq(Requests), NEW s, cs # <<>>,
         Matches(rs, cs, s), Head(cs).session = s
  PROVE  rs # <<>> /\ Head(rs) = Head(cs).asks /\ Matches(Tail(rs), Tail(cs), s)
<1> DEFINE m == Len(cs)
           d == Tail(cs)
           n == Len(rs)
           r == Tail(rs)
<1>1. /\ m \in Nat \ {0} /\ DOMAIN cs = 1 .. m /\ DOMAIN d = 1 .. m - 1 /\ cs[1] = Head(cs)
      /\ \A k \in 1 .. m - 1 : d[k] = cs[k + 1]
  BY TakenElements
<1> HIDE DEF m, d
<1>2. PICK f \in [DOMAIN rs -> DOMAIN cs] :
        /\ \A k, l \in DOMAIN rs : k < l => f[k] < f[l]
        /\ \A k \in DOMAIN rs : rs[k] = cs[f[k]].asks
        /\ \A i \in DOMAIN cs : cs[i].session = s <=> \E k \in DOMAIN rs : f[k] = i
  BY DEF Matches
<1>3. PICK first \in DOMAIN rs : f[first] = 1
  BY <1>1, <1>2
<1>4. rs # <<>>
  BY <1>3
<1>5. /\ n \in Nat \ {0} /\ DOMAIN rs = 1 .. n /\ DOMAIN r = 1 .. n - 1 /\ rs[1] = Head(rs)
      /\ \A k \in 1 .. n - 1 : r[k] = rs[k + 1]
  BY <1>4, TakenElements
<1> HIDE DEF n, r
<1>6. first = 1
  <2>2. 1 \in DOMAIN rs
    BY <1>5
  <2>1. f[1] \in 1 .. m /\ (1 < first => f[1] < f[first])
    BY <1>1, <1>2, <2>2
  <2> QED
    BY <1>3, <1>5, <2>1
<1>7. Head(rs) = Head(cs).asks
  BY <1>1, <1>2, <1>3, <1>5, <1>6
<1> DEFINE g == [k \in 1 .. n - 1 |-> f[k + 1] - 1]
<1>8. ASSUME NEW k \in 1 .. n - 1 PROVE f[k + 1] \in 2 .. m
  <2>1. k + 1 \in DOMAIN rs /\ 1 \in DOMAIN rs /\ 1 < k + 1
    BY <1>5
  <2>2. f[k + 1] \in 1 .. m /\ f[1] < f[k + 1]
    BY <1>1, <1>2, <2>1
  <2> QED
    BY <1>1, <1>3, <1>6, <2>2
<1>9. g \in [DOMAIN r -> DOMAIN d] /\ \A k \in 1 .. n - 1 : g[k] = f[k + 1] - 1
  BY <1>1, <1>5, <1>8
<1> HIDE DEF g
<1>10. \A k, l \in DOMAIN r : k < l => g[k] < g[l]
  <2> SUFFICES ASSUME NEW k \in 1 .. n - 1, NEW l \in 1 .. n - 1, k < l PROVE g[k] < g[l]
    BY <1>5
  <2>1. k + 1 \in DOMAIN rs /\ l + 1 \in DOMAIN rs /\ k + 1 < l + 1
    BY <1>5
  <2>2. f[k + 1] < f[l + 1]
    BY <1>2, <2>1
  <2> QED
    BY <1>1, <1>8, <1>9, <2>2
<1>11. \A k \in DOMAIN r : r[k] = d[g[k]].asks
  <2> SUFFICES ASSUME NEW k \in 1 .. n - 1 PROVE r[k] = d[g[k]].asks
    BY <1>5
  <2>4. k + 1 \in DOMAIN rs /\ r[k] = rs[k + 1]
    BY <1>5
  <2>1. rs[k + 1] = cs[f[k + 1]].asks
    BY <1>2, <2>4
  <2>2. f[k + 1] \in 2 .. m /\ g[k] = f[k + 1] - 1 /\ g[k] \in 1 .. m - 1
    BY <1>1, <1>8, <1>9
  <2>3. d[g[k]] = cs[g[k] + 1] /\ g[k] + 1 = f[k + 1]
    BY <1>1, <2>2
  <2> QED
    BY <2>1, <2>3, <2>4
<1>12. ASSUME NEW i \in DOMAIN d PROVE d[i].session = s <=> \E k \in DOMAIN r : g[k] = i
  <2>1. i \in 1 .. m - 1 /\ i + 1 \in DOMAIN cs /\ d[i] = cs[i + 1]
    BY <1>1
  <2>2. ASSUME NEW k \in DOMAIN r, g[k] = i PROVE \E l \in DOMAIN rs : f[l] = i + 1
    <3>2. k \in 1 .. n - 1 /\ k + 1 \in DOMAIN rs
      BY <1>5
    <3>3. f[k + 1] \in 2 .. m /\ f[k + 1] - 1 = i
      BY <1>8, <1>9, <2>2, <3>2
    <3>1. k + 1 \in DOMAIN rs /\ f[k + 1] = i + 1
      BY <1>1, <2>1, <3>2, <3>3
    <3> QED
      BY <3>1
  <2>3. ASSUME NEW l \in DOMAIN rs, f[l] = i + 1 PROVE \E k \in DOMAIN r : g[k] = i
    <3>1. l # 1
      BY <1>3, <1>6, <2>1, <2>3
    <3>2. l - 1 \in DOMAIN r /\ l - 1 \in 1 .. n - 1 /\ (l - 1) + 1 = l
      BY <1>5, <3>1
    <3>3. g[l - 1] = i
      BY <1>9, <2>1, <2>3, <3>2
    <3> QED
      BY <3>2, <3>3
  <2> QED
    BY <1>2, <2>1, <2>2, <2>3
<1> QED
  BY <1>4, <1>7, <1>9, <1>10, <1>11, <1>12 DEF Matches, d, r


-----------------------------------------------------------------------------
(***************************************************************************)
(* The dictionary.                                                         *)
(***************************************************************************)
\* A session that has no id is set for an id that has no session.
LEMMA SetKeeps ==
  ASSUME NEW d, NEW n \in Nat, NEW m \in Nat, NEW id, NEW s \in 0 .. m, n <= m,
         Consistent(d, n), id \notin DOMAIN d.forward, s = 0 \/ s \notin DOMAIN d.backward
  PROVE  /\ Consistent(dictSet(d, id, s), m)
         /\ DOMAIN dictSet(d, id, s).forward = DOMAIN d.forward \cup {id}
         /\ DOMAIN dictSet(d, id, s).backward = DOMAIN d.backward \cup {s}
         /\ dictSet(d, id, s).forward[id] = s /\ dictSet(d, id, s).backward[s] = id
         /\ \A i \in DOMAIN d.forward : dictSet(d, id, s).forward[i] = d.forward[i]
         /\ \A t \in DOMAIN d.backward : t # s => dictSet(d, id, s).backward[t] = d.backward[t]
<1> DEFINE e == dictSet(d, id, s)
<1>1. /\ e = [forward |-> e.forward, backward |-> e.backward]
      /\ e.forward = With(d.forward, id, s) /\ e.backward = With(d.backward, s, id)
  BY DEF dictSet
<1> HIDE DEF e
<1>2. /\ DOMAIN e.forward = DOMAIN d.forward \cup {id} /\ e.forward[id] = s
      /\ \A i \in DOMAIN d.forward : e.forward[i] = d.forward[i]
  BY <1>1 DEF With
<1>3. /\ DOMAIN e.backward = DOMAIN d.backward \cup {s} /\ e.backward[s] = id
      /\ \A t \in DOMAIN d.backward : t # s => e.backward[t] = d.backward[t]
  BY <1>1 DEF With
<1>4. ASSUME NEW i \in DOMAIN e.forward
      PROVE  /\ e.forward[i] \in 0 .. m
             /\ e.forward[i] # 0 => e.forward[i] \in DOMAIN e.backward /\ e.backward[e.forward[i]] = i
  <2>1. CASE i = id
    BY <1>2, <1>3, <2>1
  <2>2. CASE i # id
    <3>1. i \in DOMAIN d.forward /\ e.forward[i] = d.forward[i] /\ d.forward[i] \in 0 .. n
      BY <1>2, <2>2 DEF Consistent
    <3>2. ASSUME d.forward[i] # 0
          PROVE  d.forward[i] \in DOMAIN d.backward /\ d.backward[d.forward[i]] = i /\ d.forward[i] # s
      BY <3>1, <3>2 DEF Consistent
    <3> QED
      BY <1>3, <3>1, <3>2
  <2> QED
    BY <2>1, <2>2
<1>5. ASSUME NEW t \in DOMAIN e.backward
      PROVE  t \in 0 .. m /\ e.backward[t] \in DOMAIN e.forward /\ e.forward[e.backward[t]] = t
  <2>1. CASE t = s
    BY <1>2, <1>3, <2>1
  <2>2. CASE t # s
    <3>1. t \in DOMAIN d.backward /\ e.backward[t] = d.backward[t]
      BY <1>3, <2>2
    <3>2. t \in 0 .. n /\ d.backward[t] \in DOMAIN d.forward /\ d.forward[d.backward[t]] = t
      BY <3>1 DEF Consistent
    <3> QED
      BY <1>2, <3>1, <3>2
  <2> QED
    BY <2>1, <2>2
<1> QED
  BY <1>1, <1>2, <1>3, <1>4, <1>5 DEF Consistent, e

\* A session is removed, or an id.
LEMMA RemoveKeeps ==
  ASSUME NEW d, NEW n \in Nat, NEW s \in DOMAIN d.backward, Consistent(d, n)
  PROVE  /\ Consistent(dictRmBySession(d, s), n)
         /\ DOMAIN dictRmBySession(d, s).forward = DOMAIN d.forward \ {d.backward[s]}
         /\ DOMAIN dictRmBySession(d, s).backward = DOMAIN d.backward \ {s}
         /\ \A i \in DOMAIN d.forward \ {d.backward[s]} : dictRmBySession(d, s).forward[i] = d.forward[i]
         /\ \A t \in DOMAIN d.backward \ {s} : dictRmBySession(d, s).backward[t] = d.backward[t]
<1> DEFINE e == dictRmBySession(d, s)
<1>1. /\ e = [forward |-> e.forward, backward |-> e.backward]
      /\ e.forward = Without(d.forward, d.backward[s]) /\ e.backward = Without(d.backward, s)
  BY DEF dictRmBySession
<1> HIDE DEF e
<1>2. /\ DOMAIN e.forward = DOMAIN d.forward \ {d.backward[s]}
      /\ \A i \in DOMAIN d.forward \ {d.backward[s]} : e.forward[i] = d.forward[i]
  BY <1>1 DEF Without
<1>3. /\ DOMAIN e.backward = DOMAIN d.backward \ {s}
      /\ \A t \in DOMAIN d.backward \ {s} : e.backward[t] = d.backward[t]
  BY <1>1 DEF Without
<1>4. ASSUME NEW i \in DOMAIN e.forward
      PROVE  /\ e.forward[i] \in 0 .. n
             /\ e.forward[i] # 0 => e.forward[i] \in DOMAIN e.backward /\ e.backward[e.forward[i]] = i
  <2>1. i \in DOMAIN d.forward /\ i # d.backward[s] /\ e.forward[i] = d.forward[i] /\ d.forward[i] \in 0 .. n
    BY <1>2 DEF Consistent
  <2>2. ASSUME d.forward[i] # 0
        PROVE  d.forward[i] \in DOMAIN d.backward /\ d.backward[d.forward[i]] = i /\ d.forward[i] # s
    BY <2>1, <2>2 DEF Consistent
  <2> QED
    BY <1>3, <2>1, <2>2
<1>5. ASSUME NEW t \in DOMAIN e.backward
      PROVE  t \in 0 .. n /\ e.backward[t] \in DOMAIN e.forward /\ e.forward[e.backward[t]] = t
  <2>1. t \in DOMAIN d.backward /\ t # s /\ e.backward[t] = d.backward[t]
    BY <1>3
  <2>2. /\ t \in 0 .. n /\ d.backward[t] \in DOMAIN d.forward /\ d.forward[d.backward[t]] = t
        /\ d.forward[d.backward[s]] = s
    BY <2>1 DEF Consistent
  <2> QED
    BY <1>2, <2>1, <2>2
<1> QED
  BY <1>1, <1>2, <1>3, <1>4, <1>5 DEF Consistent, e

LEMMA RemoveIdKeeps ==
  ASSUME NEW d, NEW n \in Nat, NEW id, Consistent(d, n)
  PROVE  /\ Consistent(dictRmById(d, id), n)
         /\ DOMAIN dictRmById(d, id).forward = DOMAIN d.forward \ {id}
         /\ DOMAIN dictRmById(d, id).backward = DOMAIN d.backward \ {lookUp(d, id)}
         /\ \A i \in DOMAIN d.forward \ {id} : dictRmById(d, id).forward[i] = d.forward[i]
         /\ \A t \in DOMAIN d.backward \ {lookUp(d, id)} : dictRmById(d, id).backward[t] = d.backward[t]
<1> DEFINE e == dictRmById(d, id)
           s == lookUp(d, id)
<1>1. /\ e = [forward |-> e.forward, backward |-> e.backward]
      /\ e.forward = Without(d.forward, id) /\ e.backward = Without(d.backward, s)
  BY DEF dictRmById
<1> HIDE DEF e
<1>2. /\ DOMAIN e.forward = DOMAIN d.forward \ {id}
      /\ \A i \in DOMAIN d.forward \ {id} : e.forward[i] = d.forward[i]
  BY <1>1 DEF Without
<1>3. /\ DOMAIN e.backward = DOMAIN d.backward \ {s}
      /\ \A t \in DOMAIN d.backward \ {s} : e.backward[t] = d.backward[t]
  BY <1>1 DEF Without
<1>6. (id \in DOMAIN d.forward /\ s = d.forward[id]) \/ (id \notin DOMAIN d.forward /\ s = 0)
  BY DEF lookUp
<1> HIDE DEF s
<1>4. ASSUME NEW i \in DOMAIN e.forward
      PROVE  /\ e.forward[i] \in 0 .. n
             /\ e.forward[i] # 0 => e.forward[i] \in DOMAIN e.backward /\ e.backward[e.forward[i]] = i
  <2>1. i \in DOMAIN d.forward /\ i # id /\ e.forward[i] = d.forward[i] /\ d.forward[i] \in 0 .. n
    BY <1>2 DEF Consistent
  <2>2. ASSUME d.forward[i] # 0
        PROVE  d.forward[i] \in DOMAIN d.backward /\ d.backward[d.forward[i]] = i /\ d.forward[i] # s
    <3>1. d.forward[i] \in DOMAIN d.backward /\ d.backward[d.forward[i]] = i
      BY <2>1, <2>2 DEF Consistent
    <3>2. ASSUME d.forward[i] = s PROVE FALSE
      <4>1. id \in DOMAIN d.forward /\ s = d.forward[id] /\ d.forward[id] # 0
        BY <1>6, <2>2, <3>2
      <4>2. d.backward[s] = id
        BY <4>1 DEF Consistent
      <4> QED
        BY <2>1, <3>1, <3>2, <4>2
    <3> QED
      BY <3>1, <3>2
  <2> QED
    BY <1>3, <2>1, <2>2
<1>5. ASSUME NEW t \in DOMAIN e.backward
      PROVE  t \in 0 .. n /\ e.backward[t] \in DOMAIN e.forward /\ e.forward[e.backward[t]] = t
  <2>1. t \in DOMAIN d.backward /\ t # s /\ e.backward[t] = d.backward[t]
    BY <1>3
  <2>2. t \in 0 .. n /\ d.backward[t] \in DOMAIN d.forward /\ d.forward[d.backward[t]] = t
    BY <2>1 DEF Consistent
  <2>3. d.backward[t] # id
    BY <1>6, <2>1, <2>2
  <2> QED
    BY <1>2, <2>1, <2>2, <2>3
<1> QED
  BY <1>1, <1>2, <1>3, <1>4, <1>5 DEF Consistent, e, s

\* An id is looked up, and entered with session 0 if it has none.
LEMMA LookUpKeeps ==
  ASSUME NEW d, NEW n \in Nat, NEW id, Consistent(d, n),
         NEW e, e = [forward |-> With(d.forward, id, lookUp(d, id)), backward |-> d.backward]
  PROVE  /\ Consistent(e, n)
         /\ lookUp(d, id) \in 0 .. n
         /\ (lookUp(d, id) # 0 /\ lookUp(d, id) \in DOMAIN d.backward => d.backward[lookUp(d, id)] = id)
         /\ DOMAIN e.forward = DOMAIN d.forward \cup {id} /\ e.backward = d.backward
         /\ \A i \in DOMAIN d.forward : e.forward[i] = d.forward[i]
<1> DEFINE s == lookUp(d, id)
<1>1. (id \in DOMAIN d.forward /\ s = d.forward[id]) \/ (id \notin DOMAIN d.forward /\ s = 0)
  BY DEF lookUp
<1>2. /\ e = [forward |-> e.forward, backward |-> e.backward]
      /\ e.forward = With(d.forward, id, s) /\ e.backward = d.backward
  OBVIOUS
<1> HIDE DEF s
<1>3. DOMAIN e.forward = DOMAIN d.forward \cup {id} /\ e.forward[id] = s
  BY <1>2 DEF With
<1>4. ASSUME NEW i \in DOMAIN d.forward PROVE e.forward[i] = d.forward[i]
  BY <1>1, <1>2 DEF With
<1>5. s \in 0 .. n /\ (s # 0 => s \in DOMAIN d.backward /\ d.backward[s] = id)
  BY <1>1 DEF Consistent
<1>6. ASSUME NEW i \in DOMAIN e.forward
      PROVE  /\ e.forward[i] \in 0 .. n
             /\ e.forward[i] # 0 => e.forward[i] \in DOMAIN e.backward /\ e.backward[e.forward[i]] = i
  <2>1. CASE i = id
    BY <1>2, <1>3, <1>5, <2>1
  <2>2. CASE i # id
    BY <1>2, <1>3, <1>4, <2>2 DEF Consistent
  <2> QED
    BY <2>1, <2>2
<1>7. ASSUME NEW t \in DOMAIN e.backward
      PROVE  t \in 0 .. n /\ e.backward[t] \in DOMAIN e.forward /\ e.forward[e.backward[t]] = t
  BY <1>2, <1>3, <1>4 DEF Consistent
<1> QED
  BY <1>2, <1>3, <1>4, <1>5, <1>6, <1>7 DEF Consistent, s

\* A session that a call has looked up is set for its id again.
LEMMA UpdateKeeps ==
  ASSUME NEW d, NEW n \in Nat, NEW c, Consistent(d, n), LookedUp(c, d, n), c # None, c.session # None,
         NEW e, e = dictSet(dictRmById(d, c.id), c.id, c.session)
  PROVE  /\ Consistent(e, n)
         /\ c.id \in DOMAIN d.forward /\ d.forward[c.id] = c.session /\ c.session # 0 =>
              /\ DOMAIN e.forward = DOMAIN d.forward /\ DOMAIN e.backward = DOMAIN d.backward
              /\ \A i \in DOMAIN d.forward : e.forward[i] = d.forward[i]
<1> DEFINE a == dictRmById(d, c.id)
           s == lookUp(d, c.id)
<1>1. (c.id \in DOMAIN d.forward /\ s = d.forward[c.id]) \/ (c.id \notin DOMAIN d.forward /\ s = 0)
  BY DEF lookUp
<1>2. /\ Consistent(a, n) /\ DOMAIN a.forward = DOMAIN d.forward \ {c.id}
      /\ DOMAIN a.backward = DOMAIN d.backward \ {s}
      /\ \A i \in DOMAIN d.forward \ {c.id} : a.forward[i] = d.forward[i]
  BY RemoveIdKeeps
<1> HIDE DEF a, s
<1>3. c.session \in 0 .. n
  BY DEF LookedUp
<1>4. c.session = 0 \/ c.session \notin DOMAIN a.backward
  <2> SUFFICES ASSUME c.session # 0, c.session \in DOMAIN d.backward PROVE c.session = s
    BY <1>2
  <2>1. d.backward[c.session] = c.id
    BY DEF LookedUp
  <2>2. c.id \in DOMAIN d.forward /\ d.forward[c.id] = c.session
    BY <2>1 DEF Consistent
  <2> QED
    BY <1>1, <2>2
<1>5. /\ Consistent(e, n) /\ DOMAIN e.forward = DOMAIN a.forward \cup {c.id}
      /\ DOMAIN e.backward = DOMAIN a.backward \cup {c.session} /\ e.forward[c.id] = c.session
      /\ \A i \in DOMAIN a.forward : e.forward[i] = a.forward[i]
  BY <1>2, <1>3, <1>4, SetKeeps DEF a
<1>6. ASSUME c.id \in DOMAIN d.forward, d.forward[c.id] = c.session, c.session # 0
      PROVE  /\ DOMAIN e.forward = DOMAIN d.forward /\ DOMAIN e.backward = DOMAIN d.backward
             /\ \A i \in DOMAIN d.forward : e.forward[i] = d.forward[i]
  <2>1. c.session \in DOMAIN d.backward /\ s = c.session
    BY <1>1, <1>6 DEF Consistent
  <2> QED
    BY <1>2, <1>5, <1>6, <2>1
<1> QED
  BY <1>5, <1>6

LEMMA GrowthKeeps ==
  ASSUME NEW d, NEW c, NEW n \in Nat, NEW m \in Nat, n <= m
  PROVE  (Consistent(d, n) => Consistent(d, m)) /\ (LookedUp(c, d, n) => LookedUp(c, d, m))
<1>1. Consistent(d, n) => Consistent(d, m)
  BY DEF Consistent
<1>2. LookedUp(c, d, n) => LookedUp(c, d, m)
  BY DEF LookedUp
<1> QED
  BY <1>1, <1>2

-----------------------------------------------------------------------------
(***************************************************************************)
(* Requests and queues.                                                    *)
(***************************************************************************)
LEMMA AskTyping ==
  ASSUME NEW kind \in Kinds, NEW s \in Sessions \cup NiIds \cup {0}
  PROVE  /\ Request(kind, s) \in Requests /\ Ask(kind, s) \in Asked
         /\ Ask(kind, s).kind = kind /\ Ask(kind, s).session = s /\ Ask(kind, s).asks = Request(kind, s)
  BY DEF Request, Requests, Ask, Command, Commands, Asked

\* A command asks for its kind and its session.
LEMMA AskedTyping ==
  ASSUME NEW c \in Asked
  PROVE  /\ c.kind \in Kinds /\ c.session \in Sessions \cup NiIds \cup {0}
         /\ c.asks = Request(c.kind, c.session) /\ c.asks \in Requests
         /\ c.asks.kind = c.kind /\ c.asks.session = c.session
  BY DEF Request, Requests, Commands, Asked

LEMMA Pushed ==
  ASSUME ClientTypeOK, NEW q \in QueueTypes, NEW r \in Requests, push(q, r)
  PROVE  /\ mRequestQueues' \in [QueueTypes -> [session : Nat, requests : Seq(Requests)]]
         /\ mRequestQueues'[q].session = SessionOf(q)
         /\ mRequestQueues'[q].requests = Append(Requested(q), r)
         /\ \A p \in QueueTypes : p # q => mRequestQueues'[p] = mRequestQueues[p]
<1>1. mRequestQueues[q] \in [session : Nat, requests : Seq(Requests)]
  BY DEF ClientTypeOK
<1>2. Append(Requested(q), r) \in Seq(Requests)
  BY <1>1, AddedTyping DEF Requested
<1> QED
  BY <1>1, <1>2 DEF ClientTypeOK, push, Requested, SessionOf

LEMMA WasReset ==
  ASSUME ClientTypeOK, NEW q \in QueueTypes, NEW r \in Requests, NEW s \in Nat, resetAndPush(q, s, r)
  PROVE  /\ mRequestQueues' \in [QueueTypes -> [session : Nat, requests : Seq(Requests)]]
         /\ mRequestQueues'[q].session = s /\ mRequestQueues'[q].requests = <<r>>
         /\ \A p \in QueueTypes : p # q => mRequestQueues'[p] = mRequestQueues[p]
<1>1. <<r>> \in Seq(Requests)
  OBVIOUS
<1> QED
  BY <1>1 DEF ClientTypeOK, resetAndPush

LEMMA SetAndPushed ==
  ASSUME ClientTypeOK, NEW q \in QueueTypes, NEW r \in Requests, NEW s \in Nat, setSessionAndPush(q, s, r)
  PROVE  /\ mRequestQueues' \in [QueueTypes -> [session : Nat, requests : Seq(Requests)]]
         /\ mRequestQueues'[q].requests = Append(Requested(q), r)
         /\ \A p \in QueueTypes : p # q => mRequestQueues'[p] = mRequestQueues[p]
<1>1. mRequestQueues[q] \in [session : Nat, requests : Seq(Requests)]
  BY DEF ClientTypeOK
<1>2. Append(Requested(q), r) \in Seq(Requests)
  BY <1>1, AddedTyping DEF Requested
<1> QED
  BY <1>1, <1>2 DEF ClientTypeOK, setSessionAndPush, Requested

LEMMA HeadTaken ==
  ASSUME ClientTypeOK, NEW q \in QueueTypes, Requested(q) # <<>>,
         mRequestQueues' = [mRequestQueues EXCEPT ![q].requests = Tail(@)]
  PROVE  /\ mRequestQueues' \in [QueueTypes -> [session : Nat, requests : Seq(Requests)]]
         /\ mRequestQueues'[q].session = SessionOf(q)
         /\ mRequestQueues'[q].requests = Tail(Requested(q))
         /\ Head(Requested(q)) \in Requests
         /\ \A p \in QueueTypes : p # q => mRequestQueues'[p] = mRequestQueues[p]
<1>1. mRequestQueues[q] \in [session : Nat, requests : Seq(Requests)]
  BY DEF ClientTypeOK
<1>2. Tail(Requested(q)) \in Seq(Requests) /\ Head(Requested(q)) \in Requests
  BY <1>1, TakenTyping DEF Requested
<1> QED
  BY <1>1, <1>2 DEF ClientTypeOK, Requested, SessionOf

LEMMA CommandTaken ==
  ASSUME ClientTypeOK, HandleCommand
  PROVE  /\ Head(commands) \in Asked /\ commands' \in Seq(Asked)
         /\ response' = None \/ (response' \in [command : Asked, ok : BOOLEAN] /\ response'.command = Head(commands))
<1>1. Head(commands) \in Asked /\ commands' \in Seq(Asked)
  BY TakenTyping DEF ClientTypeOK, HandleCommand
<1>2. \/ response' = None
      \/ \E ok \in BOOLEAN : response' = [command |-> Head(commands), ok |-> ok]
  <2>1. ASSUME NEW ok \in BOOLEAN, handleStart(Head(commands), ok) \/ handleStop(Head(commands), ok)
                 \/ handleOther(Head(commands), ok)
        PROVE  response' = [command |-> Head(commands), ok |-> ok]
    BY <2>1 DEF handleStart, handleStop, handleOther
  <2>2. ASSUME handleUnknown(Head(commands))
        PROVE  response' = None \/ response' = [command |-> Head(commands), ok |-> FALSE]
    BY <2>2 DEF handleUnknown
  <2> QED
    BY <2>1, <2>2 DEF HandleCommand
<1> QED
  BY <1>1, <1>2

-----------------------------------------------------------------------------
(***************************************************************************)
(* Types and the dictionary.                                               *)
(***************************************************************************)
LEMMA DictionaryStep == ClientInv /\ [Next]_vars => (DictionaryKept /\ CallKept)'
<1> SUFFICES ASSUME ClientInv, [Next]_vars
             PROVE  Consistent(mSessionBiDict', started') /\ LookedUp(call', mSessionBiDict', started')
  BY DEF DictionaryKept, CallKept
<1> DEFINE d == mSessionBiDict
<1>1. /\ started \in Nat /\ MaxSession \in Nat /\ (call = None \/ call \in Calls)
      /\ Consistent(d, started) /\ LookedUp(call, d, started)
  BY BoundsAssumption DEF ClientInv, ClientTypeOK, DictionaryKept, CallKept
<1>2. CASE locAPIStartTracking
  <2>1. mSessionBiDict' = d /\ call' = call /\ started' \in Nat /\ started <= started'
    BY <1>1, <1>2 DEF locAPIStartTracking, NewSession, Sessions
  <2> QED
    BY <1>1, <2>1, GrowthKeeps
<1>3. CASE \/ locAPIStopTracking \/ locAPIUpdateTrackingOptions \/ \E id \in NiIds : locAPIGnssNiResponse(id)
           \/ HandleCommand \/ getRequestBySession \/ UNCHANGED vars
  <2>1. mSessionBiDict' = d /\ call' = call /\ started' = started
    BY <1>3 DEF locAPIStopTracking, locAPIUpdateTrackingOptions, locAPIGnssNiResponse, HandleCommand,
               getRequestBySession, vars, clientState
  <2> QED
    BY <1>1, <2>1
<1>4. ASSUME NEW id \in BatchIds, locAPIStartSession(id)
      PROVE  Consistent(mSessionBiDict', started') /\ LookedUp(call', mSessionBiDict', started')
  <2>1. /\ call' = None /\ id \notin DOMAIN d.forward
        /\ started' = started + 1 /\ mSessionBiDict' = dictSet(d, id, started + 1)
    BY <1>4 DEF locAPIStartSession, SessionCall, hasId, NewSession
  <2>2. started + 1 \notin DOMAIN d.backward
    BY <1>1 DEF Consistent
  <2>3. Consistent(dictSet(d, id, started + 1), started + 1)
    BY <1>1, <2>1, <2>2, SetKeeps
  <2> QED
    BY <2>1, <2>3 DEF LookedUp
<1>5. ASSUME NEW id \in BatchIds, NEW kind, askAboutSession(kind, id)
      PROVE  Consistent(mSessionBiDict', started') /\ LookedUp(call', mSessionBiDict', started')
  BY <1>1, <1>5 DEF askAboutSession, LookedUp
<1>6. CASE getExtById
  <2> DEFINE s == lookUp(d, call.id)
  <2>1. /\ call' = [call EXCEPT !.session = s] /\ call # None /\ started' = started
        /\ mSessionBiDict' = [d EXCEPT !.forward = With(@, call.id, s)]
    BY <1>6 DEF getExtById
  <2>2. d = [forward |-> d.forward, backward |-> d.backward]
    BY <1>1 DEF Consistent
  <2>3. mSessionBiDict' = [forward |-> With(d.forward, call.id, s), backward |-> d.backward]
    BY <2>1, <2>2
  <2>4. /\ Consistent(mSessionBiDict', started) /\ s \in 0 .. started
        /\ (s # 0 /\ s \in DOMAIN d.backward => d.backward[s] = call.id)
        /\ mSessionBiDict'.backward = d.backward
    BY <1>1, <2>3, LookUpKeeps
  <2>5. call'.session = s /\ call'.id = call.id
    BY <1>1, <2>1 DEF Calls
  <2> QED
    BY <2>1, <2>4, <2>5 DEF LookedUp
<1>7. CASE askAdapter
  <2>1. call # None /\ call.session # None /\ call' = None /\ started' = started /\ setSession(call)
    BY <1>7 DEF askAdapter
  <2>2. LookedUp(call', mSessionBiDict', started')
    BY <2>1 DEF LookedUp
  <2>3. CASE call.kind = "UpdateBatching"
    BY <1>1, <2>1, <2>2, <2>3, UpdateKeeps DEF setSession
  <2>4. CASE call.kind # "UpdateBatching"
    BY <1>1, <2>1, <2>2, <2>4 DEF setSession
  <2> QED
    BY <2>3, <2>4
<1>8. CASE onResponse
  <2>1. /\ call' = call /\ started' = started
        /\ mSessionBiDict' = d \/ \E s \in DOMAIN d.backward : mSessionBiDict' = dictRmBySession(d, s)
    BY <1>8 DEF onResponse, removeSession, hasSession
  <2>2. ASSUME NEW s \in DOMAIN d.backward, mSessionBiDict' = dictRmBySession(d, s)
        PROVE  Consistent(mSessionBiDict', started') /\ LookedUp(call', mSessionBiDict', started')
    <3>1. /\ Consistent(mSessionBiDict', started)
          /\ DOMAIN mSessionBiDict'.backward = DOMAIN d.backward \ {s}
          /\ \A t \in DOMAIN d.backward \ {s} : mSessionBiDict'.backward[t] = d.backward[t]
      BY <1>1, <2>2, RemoveKeeps
    <3> QED
      BY <1>1, <2>1, <3>1 DEF LookedUp
  <2> QED
    BY <1>1, <2>1, <2>2
<1> QED
  BY <1>2, <1>3, <1>4, <1>5, <1>6, <1>7, <1>8
  DEF Next, ClientThreads, AdapterThread, locAPIStopSession, locAPIUpdateSessionOptions, locAPIGetBatchedLocations

LEMMA TypeStep == ClientInv /\ [Next]_vars => ClientTypeOK'
<1> SUFFICES ASSUME ClientInv, [Next]_vars PROVE ClientTypeOK'
  OBVIOUS
<1>1. /\ ClientTypeOK /\ CallKept /\ started \in 0 .. MaxSession /\ MaxSession \in Nat
      /\ role = "gnss" => SessionOf("TRACKING") = started
  BY BoundsAssumption DEF ClientInv, ClientTypeOK, GnssInv, GnssQueues
<1>2. /\ {"StartTracking", "StopTracking", "UpdateTracking", "GnssNiResponse"} \subseteq Kinds
      /\ {"StartBatching", "StopBatching", "UpdateBatching", "GetBatchedLocations"} \subseteq Kinds
      /\ {"TRACKING", "SESSION", "NIRESPONSE"} \subseteq QueueTypes
      /\ \A s \in 1 .. MaxSession : s \in Sessions /\ s \in Nat
      /\ \A s \in 0 .. MaxSession : s \in Sessions \cup NiIds \cup {0}
      /\ NiIds \subseteq Nat
  BY NiAssumption DEF Kinds, StartKinds, StopKinds, QueueTypes, Sessions
<1>3. ASSUME NEW c \in Asked, commands' = Append(commands, c) PROVE commands' \in Seq(Asked)
  BY <1>1, <1>3, AddedTyping DEF ClientTypeOK
<1>4. CASE locAPIStartTracking
  <2>1. PICK s \in Sessions :
          /\ NewSession(s) /\ resetAndPush("TRACKING", s, Request("StartTracking", s))
          /\ commands' = Append(commands, Ask("StartTracking", s))
    BY <1>4 DEF locAPIStartTracking
  <2>2. s \in Nat /\ s \in 0 .. MaxSession /\ started' = s
    BY <1>1, <2>1 DEF NewSession, Sessions
  <2>3. Request("StartTracking", s) \in Requests /\ Ask("StartTracking", s) \in Asked
    BY <1>2, AskTyping
  <2>4. mRequestQueues' \in [QueueTypes -> [session : Nat, requests : Seq(Requests)]]
    BY <1>1, <1>2, <2>1, <2>2, <2>3, WasReset
  <2>5. commands' \in Seq(Asked)
    BY <1>3, <2>1, <2>3
  <2> QED
    BY <1>1, <1>4, <2>2, <2>4, <2>5 DEF locAPIStartTracking, ClientTypeOK, adapterState
<1>5. CASE locAPIStopTracking \/ locAPIUpdateTrackingOptions
  <2>1. /\ role = "gnss"
        /\ \E kind \in {"StopTracking", "UpdateTracking"} :
             /\ push("TRACKING", Request(kind, SessionOf("TRACKING")))
             /\ commands' = Append(commands, Ask(kind, SessionOf("TRACKING")))
    BY <1>5 DEF locAPIStopTracking, locAPIUpdateTrackingOptions, SessionOf
  <2>2. PICK kind \in {"StopTracking", "UpdateTracking"} :
          push("TRACKING", Request(kind, started)) /\ commands' = Append(commands, Ask(kind, started))
    BY <1>1, <2>1
  <2>3. Request(kind, started) \in Requests /\ Ask(kind, started) \in Asked
    BY <1>1, <1>2, AskTyping
  <2>4. mRequestQueues' \in [QueueTypes -> [session : Nat, requests : Seq(Requests)]]
    BY <1>1, <1>2, <2>2, <2>3, Pushed
  <2>5. commands' \in Seq(Asked)
    BY <1>3, <2>2, <2>3
  <2>6. mTracking' \in BOOLEAN
    BY <1>1, <1>5 DEF locAPIStopTracking, locAPIUpdateTrackingOptions, ClientTypeOK
  <2> QED
    BY <1>1, <1>5, <2>4, <2>5, <2>6
    DEF locAPIStopTracking, locAPIUpdateTrackingOptions, ClientTypeOK, adapterState
<1>6. ASSUME NEW id \in NiIds, locAPIGnssNiResponse(id) PROVE ClientTypeOK'
  <2>1. Request("GnssNiResponse", id) \in Requests /\ Ask("GnssNiResponse", id) \in Asked /\ id \in Nat
    BY <1>2, AskTyping
  <2>2. mRequestQueues' \in [QueueTypes -> [session : Nat, requests : Seq(Requests)]]
    BY <1>1, <1>2, <1>6, <2>1, WasReset DEF locAPIGnssNiResponse
  <2>3. commands' \in Seq(Asked)
    BY <1>3, <1>6, <2>1 DEF locAPIGnssNiResponse
  <2> QED
    BY <1>1, <1>6, <2>2, <2>3 DEF locAPIGnssNiResponse, ClientTypeOK, adapterState
<1>7. ASSUME SessionCall PROVE hasty' \in BOOLEAN
  BY <1>7, Zenon DEF SessionCall
<1>8. ASSUME NEW id \in BatchIds, locAPIStartSession(id) PROVE ClientTypeOK'
  <2>1. PICK s \in Sessions :
          /\ NewSession(s) /\ setSessionAndPush("SESSION", s, Request("StartBatching", s))
          /\ commands' = Append(commands, Ask("StartBatching", s))
    BY <1>8 DEF locAPIStartSession
  <2>2. s \in Nat /\ s \in 0 .. MaxSession /\ started' = s
    BY <1>1, <2>1 DEF NewSession, Sessions
  <2>3. Request("StartBatching", s) \in Requests /\ Ask("StartBatching", s) \in Asked
    BY <1>2, AskTyping
  <2>4. mRequestQueues' \in [QueueTypes -> [session : Nat, requests : Seq(Requests)]]
    BY <1>1, <1>2, <2>1, <2>2, <2>3, SetAndPushed
  <2>5. commands' \in Seq(Asked)
    BY <1>3, <2>1, <2>3
  <2>6. hasty' \in BOOLEAN
    BY <1>7, <1>8 DEF locAPIStartSession
  <2> QED
    BY <1>1, <1>8, <2>2, <2>4, <2>5, <2>6 DEF locAPIStartSession, ClientTypeOK, adapterState
<1>9. ASSUME NEW id \in BatchIds, NEW kind \in Kinds, askAboutSession(kind, id) PROVE ClientTypeOK'
  <2>1. hasty' \in BOOLEAN
    BY <1>7, <1>9 DEF askAboutSession
  <2>2. call' \in Calls
    BY <1>9 DEF askAboutSession, Calls
  <2> QED
    BY <1>1, <1>9, <2>1, <2>2 DEF askAboutSession, ClientTypeOK, adapterState
<1>10. CASE getExtById
  <2> DEFINE s == lookUp(mSessionBiDict, call.id)
  <2>1. call' = [call EXCEPT !.session = s] /\ call \in Calls
    BY <1>1, <1>10 DEF getExtById, ClientTypeOK
  <2>2. s \in Nat
    BY <1>1 DEF ClientInv, DictionaryKept, Consistent, lookUp
  <2>3. call' \in Calls
    BY <2>1, <2>2 DEF Calls
  <2> QED
    BY <1>1, <1>10, <2>3 DEF getExtById, ClientTypeOK, adapterState
<1>11. CASE askAdapter
  <2>1. call \in Calls /\ call.session \in 0 .. started
    BY <1>1, <1>11 DEF askAdapter, ClientTypeOK, CallKept, LookedUp
  <2>2. call.kind \in Kinds /\ call.session \in 0 .. MaxSession
    BY <1>1, <2>1 DEF Calls
  <2>3. Request(call.kind, call.session) \in Requests /\ Ask(call.kind, call.session) \in Asked
    BY <1>2, <2>2, AskTyping
  <2>4. mRequestQueues' \in [QueueTypes -> [session : Nat, requests : Seq(Requests)]]
    BY <1>1, <1>2, <1>11, <2>3, Pushed DEF askAdapter
  <2>5. commands' \in Seq(Asked)
    BY <1>3, <1>11, <2>3 DEF askAdapter
  <2> QED
    BY <1>1, <1>11, <2>4, <2>5 DEF askAdapter, ClientTypeOK, adapterState
<1>12. CASE HandleCommand
  <2>1. commands' \in Seq(Asked) /\ (response' = None \/ response' \in [command : Asked, ok : BOOLEAN])
    BY <1>1, <1>12, CommandTaken
  <2>2. request = None /\ request' = None
    BY <1>1, <1>12 DEF HandleCommand, ClientTypeOK
  <2> QED
    BY <1>1, <1>12, <2>1, <2>2 DEF HandleCommand, ClientTypeOK
<1>13. CASE getRequestBySession
  <2> DEFINE q == QueueFor(response.command.session)
  <2>1. q = None \/ (q \in QueueTypes /\ Requested(q) # <<>>)
    BY DEF QueueFor, SingleQueue, QueueTypes, Requested
  <2>2. CASE q = None
    BY <1>1, <1>13, <2>2 DEF getRequestBySession, ClientTypeOK
  <2>3. CASE q # None
    <3>1. /\ request' = Head(Requested(q)) /\ response' = response /\ response # None
          /\ mRequestQueues' = [mRequestQueues EXCEPT ![q].requests = Tail(@)]
      BY <1>13, <2>3 DEF getRequestBySession, Requested
    <3>2. /\ mRequestQueues' \in [QueueTypes -> [session : Nat, requests : Seq(Requests)]]
          /\ Head(Requested(q)) \in Requests
      BY <1>1, <2>1, <2>3, <3>1, HeadTaken
    <3> HIDE DEF q
    <3> QED
      BY <1>1, <1>13, <3>1, <3>2 DEF getRequestBySession, ClientTypeOK
  <2> QED
    BY <2>2, <2>3
<1>14. CASE onResponse
  BY <1>1, <1>14 DEF onResponse, ClientTypeOK
<1>15. CASE UNCHANGED vars
  BY <1>1, <1>15 DEF ClientTypeOK, vars, clientState, adapterState
<1> QED
  BY <1>2, <1>4, <1>5, <1>6, <1>8, <1>9, <1>10, <1>11, <1>12, <1>13, <1>14, <1>15
  DEF Next, ClientThreads, AdapterThread, locAPIStopSession, locAPIUpdateSessionOptions, locAPIGetBatchedLocations

-----------------------------------------------------------------------------
(***************************************************************************)
(* Tracking.                                                               *)
(***************************************************************************)
\* What is said of the commands, with one more and with the first taken off.
LEMMA CommandsAdded ==
  ASSUME NEW cs \in Seq(Asked), NEW c \in Asked, NEW n \in Nat, NEW m \in Nat, n <= m,
         \A i \in DOMAIN cs : GnssCommand(cs[i], n), GnssCommand(c, m)
  PROVE  \A i \in DOMAIN Append(cs, c) : GnssCommand(Append(cs, c)[i], m)
<1> DEFINE d == Append(cs, c)
<1>1. /\ Len(cs) \in Nat /\ DOMAIN cs = 1 .. Len(cs) /\ DOMAIN d = 1 .. Len(cs) + 1
      /\ d[Len(cs) + 1] = c /\ \A i \in 1 .. Len(cs) : d[i] = cs[i]
  BY AddedElements
<1> HIDE DEF d
<1>2. ASSUME NEW i \in DOMAIN cs PROVE GnssCommand(cs[i], m)
  BY DEF GnssCommand
<1>3. ASSUME NEW i \in DOMAIN d PROVE GnssCommand(d[i], m)
  BY <1>1, <1>2
<1> QED
  BY <1>3 DEF d

LEMMA CommandsTaken ==
  ASSUME NEW cs \in Seq(Asked), cs # <<>>, NEW n \in Nat, \A i \in DOMAIN cs : GnssCommand(cs[i], n)
  PROVE  GnssCommand(Head(cs), n) /\ \A i \in DOMAIN Tail(cs) : GnssCommand(Tail(cs)[i], n)
<1>1. /\ Len(cs) \in Nat \ {0} /\ DOMAIN cs = 1 .. Len(cs) /\ DOMAIN Tail(cs) = 1 .. Len(cs) - 1
      /\ Head(cs) = cs[1] /\ \A i \in 1 .. Len(cs) - 1 : Tail(cs)[i] = cs[i + 1]
  BY TakenElements
<1>2. ASSUME NEW i \in DOMAIN Tail(cs) PROVE i + 1 \in DOMAIN cs /\ Tail(cs)[i] = cs[i + 1]
  BY <1>1
<1> QED
  BY <1>1, <1>2

LEMMA QueuedAdded ==
  ASSUME NEW cs \in Seq(Asked), NEW c \in Asked, NEW kind, NEW s
  PROVE  Queued(Append(cs, c), kind, s) <=> Queued(cs, kind, s) \/ (c.kind = kind /\ c.session = s)
<1> DEFINE d == Append(cs, c)
<1>1. /\ Len(cs) \in Nat /\ DOMAIN cs = 1 .. Len(cs) /\ DOMAIN d = 1 .. Len(cs) + 1
      /\ d[Len(cs) + 1] = c /\ \A i \in 1 .. Len(cs) : d[i] = cs[i]
  BY AddedElements
<1> HIDE DEF d
<1> QED
  BY <1>1 DEF Queued, d

LEMMA QueuedTaken ==
  ASSUME NEW cs \in Seq(Asked), cs # <<>>, NEW kind, NEW s
  PROVE  Queued(cs, kind, s) <=> Queued(Tail(cs), kind, s) \/ (Head(cs).kind = kind /\ Head(cs).session = s)
<1> DEFINE d == Tail(cs)
<1>1. /\ Len(cs) \in Nat \ {0} /\ DOMAIN cs = 1 .. Len(cs) /\ DOMAIN d = 1 .. Len(cs) - 1
      /\ Head(cs) = cs[1] /\ \A i \in 1 .. Len(cs) - 1 : d[i] = cs[i + 1]
  BY TakenElements
<1> HIDE DEF d
<1>2. ASSUME NEW i \in DOMAIN cs, cs[i].kind = kind, cs[i].session = s
      PROVE  Queued(d, kind, s) \/ (Head(cs).kind = kind /\ Head(cs).session = s)
  <2>1. CASE i = 1
    BY <1>1, <1>2, <2>1
  <2>2. CASE i # 1
    <3>1. i - 1 \in DOMAIN d /\ d[i - 1] = cs[i]
      BY <1>1, <2>2
    <3> QED
      BY <1>2, <3>1 DEF Queued
  <2> QED
    BY <2>1, <2>2
<1>3. ASSUME NEW i \in DOMAIN d, d[i].kind = kind, d[i].session = s PROVE Queued(cs, kind, s)
  <2>1. i + 1 \in DOMAIN cs /\ d[i] = cs[i + 1]
    BY <1>1
  <2> QED
    BY <1>3, <2>1 DEF Queued
<1>4. Head(cs).kind = kind /\ Head(cs).session = s => Queued(cs, kind, s)
  BY <1>1 DEF Queued
<1> QED
  BY <1>2, <1>3, <1>4 DEF Queued, d

LEMMA StartsAdded ==
  ASSUME NEW cs \in Seq(Asked), NEW c \in Asked, NEW running, StartsFirst(cs, running),
         c.kind = "StartTracking" => c.session \notin running /\ \A i \in DOMAIN cs : cs[i].kind \in TrackKinds => cs[i].session # c.session
  PROVE  StartsFirst(Append(cs, c), running)
<1> DEFINE d == Append(cs, c)
<1>1. /\ Len(cs) \in Nat /\ DOMAIN cs = 1 .. Len(cs) /\ DOMAIN d = 1 .. Len(cs) + 1
      /\ d[Len(cs) + 1] = c /\ \A i \in 1 .. Len(cs) : d[i] = cs[i]
  BY AddedElements
<1> HIDE DEF d
<1>2. ASSUME NEW j \in DOMAIN d, d[j].kind = "StartTracking"
      PROVE  d[j].session \notin running /\ \A i \in DOMAIN d : i < j /\ d[i].kind \in TrackKinds => d[i].session # d[j].session
  <2>1. CASE j = Len(cs) + 1
    BY <1>1, <1>2, <2>1
  <2>2. CASE j # Len(cs) + 1
    <3>1. j \in DOMAIN cs /\ d[j] = cs[j]
      BY <1>1, <2>2
    <3>2. ASSUME NEW i \in DOMAIN d, i < j PROVE i \in DOMAIN cs /\ d[i] = cs[i]
      BY <1>1, <3>1, <3>2
    <3> QED
      BY <1>2, <3>1, <3>2 DEF StartsFirst
  <2> QED
    BY <2>1, <2>2
<1> QED
  BY <1>2 DEF StartsFirst, d

LEMMA StartsTaken ==
  ASSUME NEW cs \in Seq(Asked), cs # <<>>, NEW running, NEW later, StartsFirst(cs, running),
         later \subseteq running \cup {Head(cs).session},
         Head(cs).kind # "StartTracking" => later \subseteq running
  PROVE  /\ StartsFirst(Tail(cs), later)
         /\ Head(cs).kind \in TrackKinds => ~Queued(Tail(cs), "StartTracking", Head(cs).session)
         /\ Head(cs).kind = "StartTracking" => Head(cs).session \notin running
<1> DEFINE d == Tail(cs)
<1>1. /\ Len(cs) \in Nat \ {0} /\ DOMAIN cs = 1 .. Len(cs) /\ DOMAIN d = 1 .. Len(cs) - 1
      /\ Head(cs) = cs[1] /\ \A i \in 1 .. Len(cs) - 1 : d[i] = cs[i + 1]
  BY TakenElements
<1> HIDE DEF d
<1>2. ASSUME NEW j \in DOMAIN d, d[j].kind = "StartTracking"
      PROVE  /\ Head(cs).kind \in TrackKinds => d[j].session # Head(cs).session
             /\ d[j].session \notin running
             /\ \A i \in DOMAIN d : i < j /\ d[i].kind \in TrackKinds => d[i].session # d[j].session
  <2>1. j + 1 \in DOMAIN cs /\ d[j] = cs[j + 1] /\ 1 \in DOMAIN cs /\ 1 < j + 1
    BY <1>1
  <2>2. ASSUME NEW i \in DOMAIN d, i < j PROVE i + 1 \in DOMAIN cs /\ d[i] = cs[i + 1] /\ i + 1 < j + 1
    BY <1>1, <2>2
  <2>3. /\ cs[j + 1].session \notin running
        /\ \A i \in DOMAIN cs : i < j + 1 /\ cs[i].kind \in TrackKinds => cs[i].session # cs[j + 1].session
    BY <1>2, <2>1 DEF StartsFirst
  <2> QED
    BY <1>1, <2>1, <2>2, <2>3
<1>3. Head(cs).kind = "StartTracking" => Head(cs).session \notin running
  BY <1>1 DEF StartsFirst
<1>4. "StartTracking" \in TrackKinds
  BY DEF TrackKinds
<1>5. ASSUME NEW j \in DOMAIN d, d[j].kind = "StartTracking" PROVE d[j].session \notin later
  BY <1>2, <1>4, <1>5
<1>6. StartsFirst(d, later)
  BY <1>2, <1>5 DEF StartsFirst
<1> QED
  BY <1>2, <1>3, <1>6 DEF Queued, d

\* What holds of a client that tracks.
LEMMA Tracks ==
  ASSUME ClientInv, role = "gnss"
  PROVE  /\ ClientTypeOK /\ NoBatching /\ GnssQueues /\ StartsFirst(commands, active)
         /\ TrackingMatches /\ FoundUnlessShared /\ StopsFollow
         /\ started \in Nat /\ started \in 0 .. MaxSession /\ MaxSession \in Nat
         /\ Requested("TRACKING") \in Seq(Requests) /\ Requested("NIRESPONSE") \in Seq(Requests)
         /\ commands \in Seq(Asked)
  BY BoundsAssumption DEF ClientInv, GnssInv, ClientTypeOK, Requested, QueueTypes

LEMMA StartStep == ASSUME ClientInv, locAPIStartTracking PROVE GnssInv'
<1> DEFINE n == started + 1
           c == Ask("StartTracking", n)
           r == Request("StartTracking", n)
<1>1. role = "gnss" /\ mTracking = FALSE
  BY DEF locAPIStartTracking, ClientInv, ClientTypeOK
<1>2. /\ ClientTypeOK /\ NoBatching /\ GnssQueues /\ StartsFirst(commands, active)
      /\ TrackingMatches /\ FoundUnlessShared /\ StopsFollow
      /\ started \in Nat /\ MaxSession \in Nat /\ commands \in Seq(Asked)
  BY <1>1, Tracks
<1>3. /\ started' = n /\ n \in Sessions /\ n \in Nat
      /\ resetAndPush("TRACKING", n, r) /\ commands' = Append(commands, c)
      /\ mTracking' = TRUE
      /\ UNCHANGED <<role, mSessionBiDict, call, hasty, active, response, request, refused>>
  BY <1>2 DEF locAPIStartTracking, NewSession, adapterState, Sessions
<1>4. r \in Requests /\ c \in Asked /\ c.kind = "StartTracking" /\ c.session = n /\ c.asks = r
  BY <1>3, AskTyping DEF Kinds, StartKinds
<1> HIDE DEF c, r
<1>5. /\ mRequestQueues'["TRACKING"].session = n /\ mRequestQueues'["TRACKING"].requests = <<r>>
      /\ mRequestQueues'["NIRESPONSE"] = mRequestQueues["NIRESPONSE"]
      /\ mRequestQueues'["SESSION"] = mRequestQueues["SESSION"]
  BY <1>2, <1>3, <1>4, WasReset DEF QueueTypes
<1>6. NoBatching'
  BY <1>2, <1>3, <1>5 DEF NoBatching, Requested, Forward, Backward
<1>7. ASSUME NEW d, GnssCommand(d, started), d.kind \in TrackKinds \/ n \notin NiIds PROVE d.session # n
  BY <1>2, <1>3, <1>7 DEF GnssCommand, TrackKinds
<1>8. \A i \in DOMAIN commands : commands[i].kind \in TrackKinds \/ n \notin NiIds => commands[i].session # n
  BY <1>2, <1>7 DEF GnssQueues
<1>9. GnssQueues'
  <2>1. \A i \in DOMAIN commands' : GnssCommand(commands'[i], n)
    <3>1. GnssCommand(c, n)
      BY <1>2, <1>3, <1>4 DEF GnssCommand, TrackKinds
    <3>2. started <= n /\ \A i \in DOMAIN commands : GnssCommand(commands[i], started)
      BY <1>2 DEF GnssQueues
    <3>3. n \in Nat /\ started \in Nat /\ commands \in Seq(Asked) /\ c \in Asked
      BY <1>2, <1>3, <1>4
    <3> HIDE DEF n
    <3>4. \A i \in DOMAIN Append(commands, c) : GnssCommand(Append(commands, c)[i], n)
      BY <3>1, <3>2, <3>3, CommandsAdded
    <3> QED
      BY <1>3, <3>4
  <2>2. response' # None => GnssCommand(response'.command, n)
    BY <1>2, <1>3 DEF GnssQueues, GnssCommand
  <2>3. active' \subseteq 1 .. n
    BY <1>2, <1>3 DEF GnssQueues
  <2> QED
    BY <1>2, <1>3, <1>5, <2>1, <2>2, <2>3 DEF GnssQueues, Requested, SessionOf
<1>10. StartsFirst(commands', active')
  BY <1>2, <1>3, <1>4, <1>8, StartsAdded DEF GnssQueues
<1>11. TrackingMatches'
  <2> SUFFICES ASSUME n \notin NiIds PROVE TrackingMatches'
    BY <1>3 DEF TrackingMatches
  <2>1. ~Answering(started)'
    BY <1>2, <1>3, <1>7 DEF Answering, GnssQueues
  <2>2. Matches(<<>>, commands, n)
    BY <1>2, <1>8, MatchesNone
  <2>3. <<>> \in Seq(Requests) /\ Append(<<>>, r) = <<r>>
    BY <1>4
  <2>4. Matches(<<r>>, commands', n)
    BY <1>2, <1>3, <1>4, <2>2, <2>3, MatchesOwn
  <2> QED
    BY <1>3, <1>5, <2>1, <2>4 DEF TrackingMatches, Waiting, Requested
<1>12. StopsFollow'
  <2> SUFFICES ASSUME NEW s \in Sessions, s \in active \/ Queued(commands', "StartTracking", s), s # n
               PROVE  Queued(commands', "StopTracking", s) \/ s \in refused
    BY <1>3 DEF StopsFollow
  <2>1. s \in active \/ Queued(commands, "StartTracking", s)
    BY <1>2, <1>3, <1>4, QueuedAdded
  <2>2. Queued(commands, "StopTracking", s) \/ s \in refused
    BY <1>1, <1>2, <2>1 DEF StopsFollow
  <2> QED
    BY <1>2, <1>3, <1>4, <2>2, QueuedAdded
<1>13. FoundUnlessShared'
  <2>1. request # None => response # None /\ GnssCommand(response.command, started)
    BY <1>2 DEF ClientTypeOK, GnssQueues
  <2>2. ASSUME request # None, Shared(response.command.session) PROVE Shared(response.command.session)'
    <3> DEFINE id == response.command.session
    <3>1. role' = "gnss" /\ id' = id /\ started' = started + 1 /\ started \in Nat
      BY <1>1, <1>2, <1>3
    <3>2. id \in NiIds /\ id \in Nat /\ id <= started
      BY <2>2, NiAssumption DEF Shared
    <3> HIDE DEF id
    <3>3. id <= started + 1
      BY <3>1, <3>2
    <3> QED
      BY <3>1, <3>2, <3>3 DEF Shared, id
  <2>3. request' = request /\ response' = response
    BY <1>3
  <2> SUFFICES ASSUME request' # None
               PROVE  Shared(response.command.session)' \/ request = response.command.asks
    BY <2>3 DEF FoundUnlessShared
  <2> QED
    BY <1>2, <2>2, <2>3 DEF FoundUnlessShared
<1> QED
  BY <1>6, <1>9, <1>10, <1>11, <1>12, <1>13 DEF GnssInv

\* A stop or an update is asked.
LEMMA AskStep ==
  ASSUME ClientInv, locAPIStopTracking \/ locAPIUpdateTrackingOptions
  PROVE  GnssInv'
<1>1. /\ role = "gnss"
      /\ \E kind \in {"StopTracking", "UpdateTracking"} :
           /\ push("TRACKING", Request(kind, SessionOf("TRACKING")))
           /\ commands' = Append(commands, Ask(kind, SessionOf("TRACKING")))
           /\ (kind = "StopTracking" /\ mTracking' = FALSE) \/ mTracking' = mTracking
      /\ SessionOf("TRACKING") > 0
      /\ UNCHANGED <<role, mSessionBiDict, call, started, hasty, active, response, request, refused>>
  BY DEF locAPIStopTracking, locAPIUpdateTrackingOptions, SessionOf, adapterState
<1>2. /\ ClientTypeOK /\ NoBatching /\ GnssQueues /\ StartsFirst(commands, active)
      /\ TrackingMatches /\ FoundUnlessShared /\ StopsFollow
      /\ started \in Nat /\ started \in 0 .. MaxSession /\ MaxSession \in Nat /\ commands \in Seq(Asked)
      /\ Requested("TRACKING") \in Seq(Requests)
  BY <1>1, Tracks
<1>3. PICK kind \in {"StopTracking", "UpdateTracking"} :
        /\ push("TRACKING", Request(kind, started))
        /\ commands' = Append(commands, Ask(kind, started))
        /\ (kind = "StopTracking" /\ mTracking' = FALSE) \/ mTracking' = mTracking
  BY <1>1, <1>2 DEF GnssQueues
<1>4. started > 0 /\ started \in Sessions
  BY <1>1, <1>2 DEF GnssQueues, Sessions
<1> DEFINE c == Ask(kind, started)
           r == Request(kind, started)
<1>5. r \in Requests /\ c \in Asked /\ c.kind = kind /\ c.session = started /\ c.asks = r
  BY <1>4, AskTyping DEF Kinds, StartKinds, StopKinds
<1> HIDE DEF c, r
<1>6. /\ mRequestQueues'["TRACKING"].session = started
      /\ mRequestQueues'["TRACKING"].requests = Append(Requested("TRACKING"), r)
      /\ mRequestQueues'["NIRESPONSE"] = mRequestQueues["NIRESPONSE"]
      /\ mRequestQueues'["SESSION"] = mRequestQueues["SESSION"]
  BY <1>2, <1>3, <1>5, Pushed DEF QueueTypes, GnssQueues, r
<1>7. commands' = Append(commands, c)
  BY <1>3 DEF c
<1>8. NoBatching'
  BY <1>1, <1>2, <1>6 DEF NoBatching, Requested, Forward, Backward
<1>9. GnssQueues'
  <2>1. GnssCommand(c, started)
    BY <1>2, <1>3, <1>4, <1>5 DEF GnssCommand, TrackKinds
  <2>2. \A i \in DOMAIN commands' : GnssCommand(commands'[i], started)
    BY <1>2, <1>5, <1>7, <2>1, CommandsAdded DEF GnssQueues
  <2> QED
    BY <1>1, <1>2, <1>6, <2>2 DEF GnssQueues, Requested, SessionOf
<1>10. StartsFirst(commands', active')
  BY <1>1, <1>2, <1>3, <1>5, <1>7, StartsAdded
<1>11. ASSUME NEW s PROVE Queued(commands', "StartTracking", s) => Queued(commands, "StartTracking", s)
  BY <1>2, <1>3, <1>5, <1>7, QueuedAdded
<1>12. TrackingMatches'
  <2> SUFFICES ASSUME started \notin NiIds PROVE TrackingMatches'
    BY <1>1 DEF TrackingMatches
  <2>1. Answering(started)' <=> Answering(started)
    BY <1>1 DEF Answering
  <2>2. CASE Answering(started)
    <3>1. /\ Requested("TRACKING") # <<>> /\ Head(Requested("TRACKING")) = response.command.asks
          /\ Waiting = Tail(Requested("TRACKING"))
      BY <1>2, <1>4, <2>2 DEF TrackingMatches, Waiting
    <3>2. /\ mRequestQueues'["TRACKING"].requests # <<>>
          /\ Head(mRequestQueues'["TRACKING"].requests) = response.command.asks
          /\ Tail(mRequestQueues'["TRACKING"].requests) = Append(Tail(Requested("TRACKING")), r)
          /\ Tail(Requested("TRACKING")) \in Seq(Requests)
      <4>1. Requested("TRACKING") \in Seq(Requests) /\ r \in Requests
        BY <1>2, <1>5
      <4> QED
        BY <1>6, <3>1, <4>1, AddedTyping, TakenTyping
    <3>3. ASSUME started \in active \/ Queued(commands, "StartTracking", started)
          PROVE  Matches(Tail(mRequestQueues'["TRACKING"].requests), commands', started)
      <4>1. Matches(Tail(Requested("TRACKING")), commands, started)
        BY <1>2, <1>4, <3>1, <3>3 DEF TrackingMatches
      <4> QED
        BY <1>2, <1>5, <1>7, <3>2, <4>1, MatchesOwn
    <3> QED
      BY <1>1, <1>11, <2>1, <2>2, <3>2, <3>3 DEF TrackingMatches, Waiting, Requested
  <2>3. CASE ~Answering(started)
    <3>1. Waiting = Requested("TRACKING")
      BY <2>3 DEF Waiting
    <3>2. ASSUME started \in active \/ Queued(commands, "StartTracking", started)
          PROVE  Matches(mRequestQueues'["TRACKING"].requests, commands', started)
      <4>1. Matches(Requested("TRACKING"), commands, started)
        BY <1>2, <1>4, <3>1, <3>2 DEF TrackingMatches
      <4> QED
        BY <1>2, <1>5, <1>6, <1>7, <4>1, MatchesOwn
    <3> QED
      BY <1>1, <1>11, <2>1, <2>3, <3>2 DEF TrackingMatches, Waiting, Requested
  <2> QED
    BY <2>2, <2>3
<1>13. StopsFollow'
  <2> SUFFICES ASSUME NEW s \in Sessions, s \in active \/ Queued(commands', "StartTracking", s),
                      s # started \/ mTracking' = FALSE
               PROVE  Queued(commands', "StopTracking", s) \/ s \in refused
    BY <1>1 DEF StopsFollow
  <2>1. CASE s = started /\ kind = "StopTracking"
    BY <1>2, <1>5, <1>7, <2>1, QueuedAdded
  <2>2. CASE ~(s = started /\ kind = "StopTracking")
    <3>1. s # started \/ mTracking = FALSE
      BY <1>3, <2>2
    <3>2. Queued(commands, "StopTracking", s) \/ s \in refused
      BY <1>2, <1>11, <3>1 DEF StopsFollow
    <3> QED
      BY <1>2, <1>5, <1>7, <3>2, QueuedAdded
  <2> QED
    BY <2>1, <2>2
<1>14. FoundUnlessShared'
  BY <1>1, <1>2 DEF FoundUnlessShared, Shared
<1> QED
  BY <1>8, <1>9, <1>10, <1>12, <1>13, <1>14 DEF GnssInv

\* A notification is answered: the requests of earlier ones are forgotten.
LEMMA NiStep ==
  ASSUME ClientInv, NEW id \in NiIds, locAPIGnssNiResponse(id)
  PROVE  GnssInv'
<1> DEFINE c == Ask("GnssNiResponse", id)
           r == Request("GnssNiResponse", id)
<1>1. /\ role = "gnss" /\ resetAndPush("NIRESPONSE", id, r) /\ commands' = Append(commands, c)
      /\ UNCHANGED <<role, mTracking, mSessionBiDict, call, started, hasty, active, response, request, refused>>
  BY DEF locAPIGnssNiResponse, adapterState
<1>2. /\ ClientTypeOK /\ NoBatching /\ GnssQueues /\ StartsFirst(commands, active)
      /\ TrackingMatches /\ FoundUnlessShared /\ StopsFollow
      /\ started \in Nat /\ started \in 0 .. MaxSession /\ MaxSession \in Nat /\ commands \in Seq(Asked)
      /\ Requested("TRACKING") \in Seq(Requests)
  BY <1>1, Tracks
<1>3. /\ r \in Requests /\ c \in Asked /\ c.kind = "GnssNiResponse" /\ c.session = id /\ c.asks = r
      /\ id \in Nat
  BY AskTyping, NiAssumption DEF Kinds
<1> HIDE DEF c
<1>4. /\ mRequestQueues'["NIRESPONSE"].session = id /\ mRequestQueues'["NIRESPONSE"].requests = <<r>>
      /\ mRequestQueues'["TRACKING"] = mRequestQueues["TRACKING"]
      /\ mRequestQueues'["SESSION"] = mRequestQueues["SESSION"]
  BY <1>1, <1>2, <1>3, WasReset DEF QueueTypes
<1>5. NoBatching'
  BY <1>1, <1>2, <1>4 DEF NoBatching, Requested, Forward, Backward
<1>6. GnssQueues'
  <2>1. GnssCommand(c, started)
    BY <1>3 DEF GnssCommand
  <2>2. \A i \in DOMAIN commands' : GnssCommand(commands'[i], started)
    BY <1>1, <1>2, <1>3, <2>1, CommandsAdded DEF GnssQueues
  <2>3. \A k \in DOMAIN <<r>> : <<r>>[k] = r
    OBVIOUS
  <2> QED
    BY <1>1, <1>2, <1>4, <2>2, <2>3 DEF GnssQueues, Requested, SessionOf
<1>7. StartsFirst(commands', active')
  BY <1>1, <1>2, <1>3, StartsAdded
<1>8. ASSUME NEW s
      PROVE  /\ Queued(commands', "StartTracking", s) => Queued(commands, "StartTracking", s)
             /\ Queued(commands, "StopTracking", s) => Queued(commands', "StopTracking", s)
  BY <1>1, <1>2, <1>3, QueuedAdded
<1>9. TrackingMatches'
  <2>1. ASSUME started # 0, started \notin NiIds, Matches(Waiting, commands, started)
        PROVE  Matches(Waiting, commands', started)
    <3>1. c.session # started
      BY <1>3, <2>1
    <3>2. Waiting \in Seq(Requests)
      BY <1>2, <2>1, TakenTyping DEF Waiting, TrackingMatches
    <3> QED
      BY <1>1, <1>2, <1>3, <2>1, <3>1, <3>2, MatchesOther
  <2>2. (Answering(started)' <=> Answering(started)) /\ Waiting' = Waiting /\ Requested("TRACKING")' = Requested("TRACKING")
    BY <1>1, <1>4 DEF Answering, Waiting, Requested
  <2> QED
    BY <1>1, <1>2, <1>8, <2>1, <2>2 DEF TrackingMatches
<1>10. StopsFollow'
  BY <1>1, <1>2, <1>8 DEF StopsFollow
<1>11. FoundUnlessShared'
  BY <1>1, <1>2 DEF FoundUnlessShared, Shared
<1> QED
  BY <1>5, <1>6, <1>7, <1>9, <1>10, <1>11 DEF GnssInv

\* The adapter's thread takes a command.
LEMMA HandleStep == ASSUME ClientInv, role = "gnss", HandleCommand PROVE GnssInv'
<1> DEFINE c == Head(commands)
<1>1. /\ commands # <<>> /\ response = None /\ commands' = Tail(commands)
      /\ UNCHANGED <<role, mRequestQueues, mTracking, mSessionBiDict, call, started, hasty, request>>
      /\ (\E ok \in BOOLEAN : handleStart(c, ok) \/ handleStop(c, ok) \/ handleOther(c, ok)) \/ handleUnknown(c)
  BY DEF HandleCommand
<1>2. /\ ClientTypeOK /\ NoBatching /\ GnssQueues /\ StartsFirst(commands, active)
      /\ TrackingMatches /\ FoundUnlessShared /\ StopsFollow
      /\ started \in Nat /\ started \in 0 .. MaxSession /\ MaxSession \in Nat /\ commands \in Seq(Asked)
      /\ Requested("TRACKING") \in Seq(Requests) /\ request = None
  BY <1>1, Tracks DEF ClientTypeOK
<1>3. /\ c \in Asked /\ GnssCommand(c, started) /\ commands' \in Seq(Asked)
      /\ \A i \in DOMAIN Tail(commands) : GnssCommand(Tail(commands)[i], started)
  BY <1>1, <1>2, CommandsTaken, TakenTyping DEF GnssQueues
<1> HIDE DEF c
\* What the command does.
<1>4. /\ response' = None \/ response'.command = c
      /\ active' \subseteq active \cup {c.session}
      /\ c.kind # "StartTracking" => active' \subseteq active
      /\ refused \subseteq refused'
      /\ c.session \in active \/ c.kind = "StartTracking" => response' # None
      /\ c.kind \in {"StopTracking", "UpdateTracking"} /\ c.session \notin active => response' = None
      /\ c.kind = "StopTracking" /\ c.session \in active => c.session \notin active' \/ c.session \in refused'
  <2>1. ASSUME NEW ok \in BOOLEAN PROVE [command |-> c, ok |-> ok] # None
    <3>1. [command |-> c, ok |-> ok] \in Responses
      BY <1>3 DEF Responses, Asked
    <3> QED
      BY <3>1, NoneAssumption
  <2>2. c.kind \in {"StartTracking", "StopTracking", "UpdateTracking", "GnssNiResponse"}
    BY <1>3 DEF GnssCommand, TrackKinds
  <2>3. ASSUME NEW ok \in BOOLEAN, handleStart(c, ok)
        PROVE  /\ response' # None /\ response'.command = c /\ refused' = refused
               /\ active' \subseteq active \cup {c.session} /\ c.kind = "StartTracking"
    BY <2>1, <2>2, <2>3 DEF handleStart, StartKinds
  <2>4. ASSUME NEW ok \in BOOLEAN, handleStop(c, ok)
        PROVE  /\ response' # None /\ response'.command = c /\ refused \subseteq refused'
               /\ active' \subseteq active /\ c.kind = "StopTracking" /\ c.session \in active
               /\ c.session \notin active' \/ c.session \in refused'
    BY <2>1, <2>2, <2>4 DEF handleStop, StopKinds
  <2>5. ASSUME NEW ok \in BOOLEAN, handleOther(c, ok)
        PROVE  /\ response' # None /\ response'.command = c /\ refused' = refused /\ active' = active
               /\ c.kind \notin {"StartTracking", "StopTracking"}
               /\ c.kind = "UpdateTracking" => c.session \in active
    BY <2>1, <2>5 DEF handleOther, StartKinds, StopKinds
  <2>6. ASSUME handleUnknown(c)
        PROVE  /\ response' = None /\ refused' = refused /\ active' = active
               /\ c.kind \in {"StopTracking", "UpdateTracking"} /\ c.session \notin active
    BY <2>2, <2>6 DEF handleUnknown, StartKinds, AnswersUnknown
  <2> QED
    BY <1>1, <2>3, <2>4, <2>5, <2>6
<1>5. NoBatching'
  BY <1>1, <1>2 DEF NoBatching, Requested, Forward, Backward
<1>6. GnssQueues'
  <2>1. active' \subseteq 1 .. started
    BY <1>2, <1>3, <1>4 DEF GnssQueues, GnssCommand, TrackKinds
  <2> QED
    BY <1>1, <1>2, <1>3, <1>4, <2>1 DEF GnssQueues, Requested, SessionOf
<1>7. /\ StartsFirst(commands', active')
      /\ c.kind \in TrackKinds => ~Queued(commands', "StartTracking", c.session)
      /\ c.kind = "StartTracking" => c.session \notin active
  BY <1>1, <1>2, <1>4, StartsTaken DEF c
<1>8. ASSUME NEW kind, NEW s
      PROVE  Queued(commands, kind, s) <=> Queued(commands', kind, s) \/ (c.kind = kind /\ c.session = s)
  BY <1>1, <1>2, QueuedTaken DEF c
<1>9. TrackingMatches'
  <2> SUFFICES ASSUME started # 0, started \notin NiIds PROVE TrackingMatches'
    BY <1>1 DEF TrackingMatches
  <2>1. Waiting = Requested("TRACKING")
    BY <1>1 DEF Waiting, Answering
  <2>2. CASE c.session = started
    <3>1. c.kind \in TrackKinds
      BY <1>3, <2>2 DEF GnssCommand
    <3>2. CASE started \in active \/ c.kind = "StartTracking"
      <4>1. Matches(Requested("TRACKING"), commands, started)
        BY <1>2, <1>8, <2>1, <2>2, <3>2 DEF TrackingMatches
      <4>2. /\ Requested("TRACKING") # <<>> /\ Head(Requested("TRACKING")) = c.asks
            /\ Matches(Tail(Requested("TRACKING")), Tail(commands), started)
        BY <1>1, <1>2, <2>2, <4>1, MatchesFirst DEF c
      <4>3. response' # None /\ response'.command = c
        BY <1>4, <2>2, <3>2
      <4> QED
        BY <1>1, <1>2, <2>2, <4>2, <4>3 DEF TrackingMatches, Waiting, Answering, Requested
    <3>3. CASE ~(started \in active \/ c.kind = "StartTracking")
      <4>1. response' = None /\ active' \subseteq active
        BY <1>4, <2>2, <3>1, <3>3 DEF TrackKinds
      <4> QED
        BY <1>1, <1>7, <2>2, <3>1, <3>3, <4>1 DEF TrackingMatches, Answering
    <3> QED
      BY <3>2, <3>3
  <2>3. CASE c.session # started
    <3>1. ~Answering(started)'
      BY <1>1, <1>4, <2>3 DEF Answering
    <3>2. ASSUME started \in active' \/ Queued(commands', "StartTracking", started)
          PROVE  Matches(Requested("TRACKING"), commands', started)
      <4>1. Matches(Requested("TRACKING"), commands, started)
        BY <1>2, <1>4, <1>8, <2>1, <2>3, <3>2 DEF TrackingMatches
      <4> QED
        BY <1>1, <1>2, <2>3, <4>1, MatchesSkips DEF c
    <3> QED
      BY <1>1, <3>1, <3>2 DEF TrackingMatches, Waiting, Requested
  <2> QED
    BY <2>2, <2>3
<1>10. StopsFollow'
  <2> SUFFICES ASSUME NEW s \in Sessions, s \in active' \/ Queued(commands', "StartTracking", s),
                      s # started \/ mTracking = FALSE
               PROVE  Queued(commands', "StopTracking", s) \/ s \in refused'
    BY <1>1 DEF StopsFollow
  <2>1. s \in active \/ Queued(commands, "StartTracking", s)
    <3>1. CASE s \in active' /\ s \notin active
      BY <1>4, <1>8, <3>1
    <3> QED
      BY <1>8, <3>1
  <2>2. Queued(commands, "StopTracking", s) \/ s \in refused
    BY <1>2, <2>1 DEF StopsFollow
  <2>3. CASE c.kind = "StopTracking" /\ c.session = s
    <3>1. s \in active'
      BY <1>7, <2>3 DEF TrackKinds
    <3> QED
      BY <1>4, <2>3, <3>1
  <2>4. CASE ~(c.kind = "StopTracking" /\ c.session = s)
    BY <1>4, <1>8, <2>2, <2>4
  <2> QED
    BY <2>3, <2>4
<1>11. FoundUnlessShared'
  BY <1>1, <1>2 DEF FoundUnlessShared, Shared
<1> QED
  BY <1>5, <1>6, <1>7, <1>9, <1>10, <1>11 DEF GnssInv

\* The adapter's thread looks for the request of an answer.
LEMMA FindStep == ASSUME ClientInv, role = "gnss", getRequestBySession PROVE GnssInv'
<1> DEFINE s == response.command.session
           q == QueueFor(s)
<1>1. /\ response # None /\ request = None
      /\ UNCHANGED <<role, mTracking, mSessionBiDict, call, commands, started, hasty, active, refused>>
      /\ \/ q = None /\ response' = None /\ request' = None /\ mRequestQueues' = mRequestQueues
         \/ /\ q # None /\ request' = Head(Requested(q)) /\ response' = response
            /\ mRequestQueues' = [mRequestQueues EXCEPT ![q].requests = Tail(@)]
  BY DEF getRequestBySession, Requested
<1>2. /\ ClientTypeOK /\ NoBatching /\ GnssQueues /\ StartsFirst(commands, active)
      /\ TrackingMatches /\ FoundUnlessShared /\ StopsFollow
      /\ started \in Nat /\ started \in 0 .. MaxSession /\ MaxSession \in Nat /\ commands \in Seq(Asked)
      /\ Requested("TRACKING") \in Seq(Requests) /\ Requested("NIRESPONSE") \in Seq(Requests)
  BY Tracks
<1>3. response.command \in Asked /\ GnssCommand(response.command, started)
  BY <1>1, <1>2 DEF ClientTypeOK, GnssQueues
<1>4. q \in {"TRACKING", "NIRESPONSE", None} /\ (q # None => SessionOf(q) = s /\ Requested(q) # <<>>)
  <2>1. ~hasSession(s)
    BY <1>2 DEF NoBatching, hasSession, Backward
  <2> QED
    BY <2>1 DEF QueueFor, SingleQueue, SessionOf, Requested
<1>5. s = started => SessionOf("TRACKING") = s
  BY <1>2 DEF GnssQueues
<1>6. ASSUME s = started, started # 0, started \notin NiIds PROVE q = "TRACKING"
  <2>1. Requested("TRACKING") # <<>>
    BY <1>1, <1>2, <1>6 DEF TrackingMatches, Answering
  <2>2. "TRACKING" # None
    BY NoneAssumption DEF QueueTypes
  <2> QED
    BY <1>5, <1>6, <2>1, <2>2 DEF QueueFor, SingleQueue, SessionOf, Requested
<1>7. "TRACKING" # "NIRESPONSE" /\ {"TRACKING", "NIRESPONSE", "SESSION"} \subseteq QueueTypes /\ None \notin QueueTypes
  BY NoneAssumption DEF QueueTypes
<1> HIDE DEF q, s
\* The request found is the one that was asked, and no other queue changes.
<1>8. ASSUME q # None
      PROVE  /\ mRequestQueues'[q].session = SessionOf(q)
             /\ mRequestQueues'[q].requests = Tail(Requested(q))
             /\ \A p \in QueueTypes : p # q => mRequestQueues'[p] = mRequestQueues[p]
  BY <1>1, <1>2, <1>4, <1>7, <1>8, HeadTaken
<1>9. q = "NIRESPONSE" => Shared(s) \/ Head(Requested(q)) = response.command.asks
  <2> SUFFICES ASSUME q = "NIRESPONSE", ~Shared(s) PROVE Head(Requested(q)) = response.command.asks
    OBVIOUS
  <2>1. s = response.command.session /\ s = SessionOf("NIRESPONSE") /\ Requested("NIRESPONSE") # <<>>
    BY <1>4, <1>7 DEF s
  <2>2. s \in NiIds /\ response.command.kind = "GnssNiResponse"
    <3>1. s # 0
      BY <1>3, NiAssumption DEF GnssCommand, s
    <3>2. s \in NiIds
      BY <1>2, <2>1, <3>1 DEF GnssQueues
    <3>3. ~(s <= started)
      BY <3>2 DEF Shared
    <3> QED
      BY <1>2, <1>3, <2>1, <3>2, <3>3 DEF GnssCommand
  <2>3. Head(Requested("NIRESPONSE")) = Request("GnssNiResponse", s)
    BY <1>2, <2>1, TakenElements DEF GnssQueues
  <2>4. response.command.asks = Request("GnssNiResponse", s)
    BY <1>3, <2>1, <2>2, AskedTyping
  <2> QED
    BY <2>3, <2>4
<1>10. q = "TRACKING" => s = started /\ started # 0
  <2>1. q = "TRACKING" => s = started
    BY <1>2, <1>4, <1>7 DEF GnssQueues
  <2>2. s # 0
    BY <1>3, NiAssumption DEF GnssCommand, s
  <2> QED
    BY <2>1, <2>2
<1>11. q = "TRACKING" => Shared(s) \/ Head(Requested(q)) = response.command.asks
  <2>1. s = started => started \notin NiIds \/ Shared(s)
    BY <1>2 DEF Shared
  <2> QED
    BY <1>1, <1>2, <1>10, <2>1 DEF TrackingMatches, Answering, s
<1>12. NoBatching'
  <2>1. mRequestQueues'["SESSION"] = mRequestQueues["SESSION"]
    BY <1>1, <1>4, <1>7, <1>8
  <2> QED
    BY <1>1, <1>2, <2>1 DEF NoBatching, Requested, Forward, Backward
<1>13. GnssQueues'
  <2>1. mRequestQueues'["TRACKING"].session = SessionOf("TRACKING")
    BY <1>1, <1>4, <1>7, <1>8 DEF SessionOf
  <2>2. /\ mRequestQueues'["NIRESPONSE"].session = SessionOf("NIRESPONSE")
        /\ \/ mRequestQueues'["NIRESPONSE"].requests = Requested("NIRESPONSE")
           \/ /\ Requested("NIRESPONSE") # <<>>
              /\ mRequestQueues'["NIRESPONSE"].requests = Tail(Requested("NIRESPONSE"))
    BY <1>1, <1>4, <1>7, <1>8 DEF SessionOf, Requested
  <2>3. \A k \in DOMAIN mRequestQueues'["NIRESPONSE"].requests :
          mRequestQueues'["NIRESPONSE"].requests[k] = Request("GnssNiResponse", SessionOf("NIRESPONSE"))
    <3>1. CASE mRequestQueues'["NIRESPONSE"].requests = Requested("NIRESPONSE")
      BY <1>2, <3>1 DEF GnssQueues
    <3>2. CASE /\ Requested("NIRESPONSE") # <<>>
               /\ mRequestQueues'["NIRESPONSE"].requests = Tail(Requested("NIRESPONSE"))
      <4> DEFINE rs == Requested("NIRESPONSE")
      <4>1. /\ Len(rs) \in Nat /\ DOMAIN rs = 1 .. Len(rs) /\ DOMAIN Tail(rs) = 1 .. Len(rs) - 1
            /\ \A k \in 1 .. Len(rs) - 1 : Tail(rs)[k] = rs[k + 1]
        BY <1>2, <3>2, TakenElements
      <4>2. \A k \in DOMAIN rs : rs[k] = Request("GnssNiResponse", SessionOf("NIRESPONSE"))
        BY <1>2 DEF GnssQueues
      <4> HIDE DEF rs
      <4>3. ASSUME NEW k \in DOMAIN Tail(rs)
            PROVE  Tail(rs)[k] = Request("GnssNiResponse", SessionOf("NIRESPONSE"))
        <5>1. k + 1 \in DOMAIN rs /\ Tail(rs)[k] = rs[k + 1]
          BY <4>1
        <5> QED
          BY <4>2, <5>1
      <4> QED
        BY <3>2, <4>3 DEF rs
    <3> QED
      BY <2>2, <3>1, <3>2
  <2> QED
    BY <1>1, <1>2, <2>1, <2>2, <2>3 DEF GnssQueues, Requested, SessionOf
<1>14. StartsFirst(commands', active')
  BY <1>1, <1>2
<1>15. FoundUnlessShared'
  <2> SUFFICES ASSUME q # None, ~Shared(s)' PROVE request' = response'.command.asks
    BY <1>1 DEF FoundUnlessShared, Shared, s
  <2>1. response' = response /\ request' = Head(Requested(q)) /\ ~Shared(s)
    BY <1>1 DEF Shared, s
  <2> QED
    BY <1>4, <1>9, <1>11, <2>1
<1>16. ~Answering(started)'
  <2>1. ASSUME q # None PROVE Head(Requested(q)) \in Requests
    BY <1>2, <1>4, <1>7, <2>1, TakenTyping
  <2> QED
    BY <1>1, <2>1, NoneAssumption DEF Answering
<1>17. TrackingMatches'
  <2> SUFFICES ASSUME started # 0, started \notin NiIds,
                      started \in active \/ Queued(commands, "StartTracking", started)
               PROVE  Matches(mRequestQueues'["TRACKING"].requests, commands, started)
    BY <1>1, <1>16 DEF TrackingMatches, Waiting, Requested
  <2>1. Matches(Waiting, commands, started)
    BY <1>2 DEF TrackingMatches
  <2>2. CASE s = started
    <3>1. q = "TRACKING" /\ Waiting = Tail(Requested("TRACKING"))
      BY <1>1, <1>6, <2>2 DEF Waiting, Answering, s
    <3> QED
      BY <1>7, <1>8, <2>1, <3>1
  <2>3. CASE s # started
    <3>1. q # "TRACKING" /\ Waiting = Requested("TRACKING")
      BY <1>10, <2>3 DEF Waiting, Answering, s
    <3>2. mRequestQueues'["TRACKING"] = mRequestQueues["TRACKING"]
      BY <1>1, <1>4, <1>7, <1>8, <3>1
    <3> QED
      BY <2>1, <3>1, <3>2 DEF Requested
  <2> QED
    BY <2>2, <2>3
<1>18. StopsFollow'
  BY <1>1, <1>2 DEF StopsFollow
<1> QED
  BY <1>12, <1>13, <1>14, <1>15, <1>17, <1>18 DEF GnssInv

LEMMA RoleStays == [Next]_vars => role' = role
<1>1. locAPIStartTracking \/ locAPIStopTracking \/ locAPIUpdateTrackingOptions => role' = role
  BY DEF locAPIStartTracking, locAPIStopTracking, locAPIUpdateTrackingOptions
<1>2. ASSUME NEW id, locAPIGnssNiResponse(id) \/ locAPIStartSession(id) PROVE role' = role
  BY <1>2 DEF locAPIGnssNiResponse, locAPIStartSession
<1>3. ASSUME NEW id, locAPIStopSession(id) \/ locAPIUpdateSessionOptions(id) \/ locAPIGetBatchedLocations(id)
      PROVE  role' = role
  BY <1>3 DEF locAPIStopSession, locAPIUpdateSessionOptions, locAPIGetBatchedLocations, askAboutSession
<1>4. getExtById \/ askAdapter \/ HandleCommand \/ getRequestBySession \/ onResponse \/ UNCHANGED vars => role' = role
  BY DEF getExtById, askAdapter, HandleCommand, getRequestBySession, onResponse, vars
<1> QED
  BY <1>1, <1>2, <1>3, <1>4 DEF Next, ClientThreads, AdapterThread

LEMMA GnssStep == ClientInv /\ [Next]_vars => GnssInv'
<1> SUFFICES ASSUME ClientInv, [Next]_vars, role = "gnss" PROVE GnssInv'
  BY RoleStays DEF GnssInv
<1>1. /\ NoBatching /\ GnssQueues /\ StartsFirst(commands, active) /\ TrackingMatches /\ FoundUnlessShared /\ StopsFollow
      /\ request # None => response # None
  BY Tracks DEF ClientTypeOK
<1>2. CASE UNCHANGED vars
  BY <1>1, <1>2 DEF vars, clientState, adapterState, GnssInv, NoBatching, GnssQueues, StartsFirst, TrackingMatches,
                    Waiting, Answering, FoundUnlessShared, Shared, StopsFollow, Queued, Matches, Requested, SessionOf, Forward, Backward
<1>3. CASE onResponse
  <2>1. /\ request # None /\ response' = None /\ request' = None /\ mSessionBiDict' = mSessionBiDict
        /\ UNCHANGED <<role, mRequestQueues, mTracking, call, commands, started, hasty, active, refused>>
    BY <1>1, <1>3 DEF onResponse, removeSession, NoBatching, hasSession, Backward
  <2>2. ~Answering(started) /\ ~Answering(started)'
    BY <2>1 DEF Answering
  <2>3. NoBatching' /\ GnssQueues' /\ StartsFirst(commands', active') /\ FoundUnlessShared' /\ StopsFollow'
    BY <1>1, <2>1 DEF NoBatching, GnssQueues, FoundUnlessShared, StopsFollow, Requested, SessionOf, Forward, Backward
  <2>4. TrackingMatches'
    BY <1>1, <2>1, <2>2 DEF TrackingMatches, Waiting, Requested
  <2> QED
    BY <2>3, <2>4 DEF GnssInv
<1>4. ASSUME NEW id \in BatchIds,
             \/ locAPIStartSession(id) \/ locAPIStopSession(id)
             \/ locAPIUpdateSessionOptions(id) \/ locAPIGetBatchedLocations(id)
      PROVE  FALSE
  BY <1>4 DEF locAPIStartSession, locAPIStopSession, locAPIUpdateSessionOptions, locAPIGetBatchedLocations,
              askAboutSession, SessionCall
<1>5. ~getExtById /\ ~askAdapter
  BY <1>1 DEF getExtById, askAdapter, NoBatching
<1> QED
  BY <1>2, <1>3, <1>4, <1>5, StartStep, AskStep, NiStep, HandleStep, FindStep DEF Next, ClientThreads, AdapterThread

-----------------------------------------------------------------------------
(***************************************************************************)
(* Batching.                                                               *)
(***************************************************************************)
LEMMA InOrderAdded ==
  ASSUME NEW cs \in Seq(Asked), NEW rs \in Seq(Requests), NEW c \in Asked, NEW r \in Requests, r = c.asks,
         InOrder(rs, cs)
  PROVE  InOrder(Append(rs, r), Append(cs, c))
<1>1. /\ Len(cs) \in Nat /\ DOMAIN cs = 1 .. Len(cs) /\ Len(Append(cs, c)) = Len(cs) + 1
      /\ Append(cs, c)[Len(cs) + 1] = c /\ \A i \in 1 .. Len(cs) : Append(cs, c)[i] = cs[i]
  BY AddedElements
<1>2. /\ DOMAIN Append(rs, r) = 1 .. Len(rs) + 1 /\ Len(Append(rs, r)) = Len(rs) + 1 /\ DOMAIN rs = 1 .. Len(rs)
      /\ Append(rs, r)[Len(rs) + 1] = r /\ \A i \in 1 .. Len(rs) : Append(rs, r)[i] = rs[i]
  BY AddedElements
<1>3. Len(rs) = Len(cs) /\ \A k \in DOMAIN rs : rs[k] = cs[k].asks
  BY DEF InOrder
<1>4. ASSUME NEW k \in DOMAIN Append(rs, r) PROVE Append(rs, r)[k] = Append(cs, c)[k].asks
  <2>1. CASE k = Len(rs) + 1
    BY <1>1, <1>2, <1>3, <2>1
  <2>2. CASE k # Len(rs) + 1
    <3>1. k \in 1 .. Len(rs)
      BY <1>1, <1>2, <1>3, <2>2
    <3> QED
      BY <1>1, <1>2, <1>3, <3>1
  <2> QED
    BY <2>1, <2>2
<1> QED
  BY <1>1, <1>2, <1>3, <1>4 DEF InOrder

LEMMA InOrderTaken ==
  ASSUME NEW cs \in Seq(Asked), NEW rs \in Seq(Requests), cs # <<>>, InOrder(rs, cs)
  PROVE  rs # <<>> /\ Head(rs) = Head(cs).asks /\ InOrder(Tail(rs), Tail(cs))
<1>1. /\ Len(cs) \in Nat \ {0} /\ Len(Tail(cs)) = Len(cs) - 1 /\ Head(cs) = cs[1]
      /\ \A i \in 1 .. Len(cs) - 1 : Tail(cs)[i] = cs[i + 1]
  BY TakenElements
<1>2. Len(rs) = Len(cs) /\ \A k \in DOMAIN rs : rs[k] = cs[k].asks
  BY DEF InOrder
<1>3. rs # <<>>
  BY <1>1, <1>2
<1>4. /\ DOMAIN rs = 1 .. Len(rs) /\ DOMAIN Tail(rs) = 1 .. Len(rs) - 1 /\ Len(Tail(rs)) = Len(rs) - 1
      /\ Head(rs) = rs[1] /\ \A i \in 1 .. Len(rs) - 1 : Tail(rs)[i] = rs[i + 1]
  BY <1>3, TakenElements
<1>5. Head(rs) = Head(cs).asks
  BY <1>1, <1>2, <1>4
<1>6. ASSUME NEW k \in DOMAIN Tail(rs) PROVE Tail(rs)[k] = Tail(cs)[k].asks
  <2>1. k \in 1 .. Len(cs) - 1 /\ k + 1 \in DOMAIN rs
    BY <1>1, <1>2, <1>4
  <2>2. Tail(rs)[k] = rs[k + 1] /\ Tail(cs)[k] = cs[k + 1] /\ rs[k + 1] = cs[k + 1].asks
    BY <1>1, <1>2, <1>4, <2>1
  <2> QED
    BY <2>2
<1> QED
  BY <1>1, <1>2, <1>3, <1>4, <1>5, <1>6 DEF InOrder

\* One more command, of a session the dictionary e knows, after commands that end none.
LEMMA SentKeeps ==
  ASSUME NEW cs \in Seq(Asked), NEW c \in Asked, NEW d, NEW e, NoEnds(cs),
         \A i \in DOMAIN cs : BatchCommand(cs[i], d), BatchCommand(c, e),
         DOMAIN d.backward \subseteq DOMAIN e.backward
  PROVE  /\ \A i \in DOMAIN Append(cs, c) : BatchCommand(Append(cs, c)[i], e)
         /\ LastEnds(Append(cs, c))
<1> DEFINE a == Append(cs, c)
<1>1. /\ Len(cs) \in Nat /\ DOMAIN cs = 1 .. Len(cs) /\ DOMAIN a = 1 .. Len(cs) + 1 /\ Len(a) = Len(cs) + 1
      /\ a[Len(cs) + 1] = c /\ \A i \in 1 .. Len(cs) : a[i] = cs[i]
  BY AddedElements
<1> HIDE DEF a
<1>2. ASSUME NEW i \in DOMAIN a, i # Len(cs) + 1
      PROVE  BatchCommand(a[i], e) /\ a[i].kind \notin Ends
  <2>1. i \in DOMAIN cs /\ a[i] = cs[i]
    BY <1>1, <1>2
  <2> QED
    BY <2>1 DEF BatchCommand, NoEnds
<1> QED
  BY <1>1, <1>2 DEF LastEnds, a

LEMMA TakenKeeps ==
  ASSUME NEW cs \in Seq(Asked), cs # <<>>, NEW d, LastEnds(cs), \A i \in DOMAIN cs : BatchCommand(cs[i], d)
  PROVE  /\ \A i \in DOMAIN Tail(cs) : BatchCommand(Tail(cs)[i], d)
         /\ BatchCommand(Head(cs), d)
         /\ LastEnds(Tail(cs))
         /\ Head(cs).kind \in Ends => Tail(cs) = <<>>
         /\ NoEnds(cs) => NoEnds(Tail(cs)) /\ Head(cs).kind \notin Ends
<1>1. /\ Len(cs) \in Nat \ {0} /\ Len(Tail(cs)) = Len(cs) - 1 /\ Head(cs) = cs[1]
      /\ DOMAIN cs = 1 .. Len(cs) /\ DOMAIN Tail(cs) = 1 .. Len(cs) - 1
      /\ \A i \in 1 .. Len(cs) - 1 : Tail(cs)[i] = cs[i + 1]
  BY TakenElements
<1>2. ASSUME NEW i \in DOMAIN Tail(cs) PROVE i \in Nat /\ i + 1 \in DOMAIN cs /\ Tail(cs)[i] = cs[i + 1]
  BY <1>1
<1>3. Head(cs).kind \in Ends => Tail(cs) = <<>>
  <2> SUFFICES ASSUME Head(cs).kind \in Ends PROVE Tail(cs) = <<>>
    OBVIOUS
  <2>1. Len(cs) = 1
    BY <1>1 DEF LastEnds
  <2>2. Tail(cs) \in Seq(Asked) /\ Len(Tail(cs)) = 0
    BY <1>1, <2>1, TakenTyping
  <2>3. \A t \in Seq(Asked) : Len(t) = 0 => t = <<>>
    OBVIOUS
  <2> QED
    BY <2>2, <2>3
<1>4. LastEnds(Tail(cs))
  BY <1>1, <1>2 DEF LastEnds
<1>5. NoEnds(cs) => NoEnds(Tail(cs)) /\ Head(cs).kind \notin Ends
  BY <1>1, <1>2 DEF NoEnds
<1>6. BatchCommand(Head(cs), d) /\ \A i \in DOMAIN Tail(cs) : BatchCommand(Tail(cs)[i], d)
  BY <1>1, <1>2
<1> QED
  BY <1>3, <1>4, <1>5, <1>6

\* What holds of a client that batches and waits for the answers to its starts and stops.
Waits == hasty = FALSE /\ role = "batching"
LEMMA Batches ==
  ASSUME ClientInv, Waits
  PROVE  /\ ClientTypeOK /\ DictionaryKept /\ CallKept
         /\ NoTracking /\ BatchQueue /\ SessionsKnown /\ EndsLast /\ NotPhantom /\ FoundAsked
         /\ started \in Nat /\ started \in 0 .. MaxSession /\ MaxSession \in Nat
         /\ Requested("SESSION") \in Seq(Requests) /\ commands \in Seq(Asked)
  BY BoundsAssumption DEF ClientInv, BatchInv, ClientTypeOK, Requested, QueueTypes, Waits

\* A start or stop is under way as long as its answer is: nothing is called before.
LEMMA NoneUnderWay ==
  ASSUME ClientInv, SessionCall, hasty' = FALSE
  PROVE  Waits /\ call = None /\ NoEnds(commands) /\ (response # None => response.command.kind \notin Ends)
<1>1. Waits /\ call = None /\ \A s \in Sessions : ~UnderWay(StartKinds \cup StopKinds, s)
  <2>1. hasty' = (hasty \/ \E s \in Sessions : UnderWay(StartKinds \cup StopKinds, s))
    BY DEF SessionCall
  <2>2. hasty = FALSE /\ \A s \in Sessions : ~UnderWay(StartKinds \cup StopKinds, s)
    <3>1. hasty \in BOOLEAN
      BY DEF ClientInv, ClientTypeOK
    <3> QED
      BY <2>1, <3>1, Zenon
  <2> QED
    BY <2>2 DEF SessionCall, Waits
<1>2. SessionsKnown /\ DictionaryKept /\ started \in 0 .. MaxSession /\ MaxSession \in Nat
  BY <1>1, Batches
<1>3. ASSUME NEW c, BatchCommand(c, mSessionBiDict) PROVE c.session \in Sessions
  BY <1>2, <1>3 DEF BatchCommand, DictionaryKept, Consistent, Sessions
<1>4. Ends \subseteq StartKinds \cup StopKinds
  BY DEF Ends, StartKinds, StopKinds
<1>5. ASSUME NEW i \in DOMAIN commands PROVE commands[i].kind \notin Ends
  BY <1>1, <1>2, <1>3, <1>4 DEF SessionsKnown, UnderWay
<1>6. response # None => response.command.kind \notin Ends
  BY <1>1, <1>2, <1>3, <1>4 DEF SessionsKnown, UnderWay
<1> QED
  BY <1>1, <1>5, <1>6 DEF NoEnds

\* A request is queued and its command is sent.
LEMMA SentInOrder ==
  ASSUME ClientInv, Waits, NEW c \in Asked, NEW r \in Requests, r = c.asks,
         mRequestQueues'["SESSION"].requests = Append(Requested("SESSION"), r),
         commands' = Append(commands, c), UNCHANGED <<response, request>>
  PROVE  BatchQueue'
<1> DEFINE rs == Requested("SESSION")
<1>1. BatchQueue /\ rs \in Seq(Requests) /\ commands \in Seq(Asked)
  BY Batches
<1>2. CASE response # None /\ request = None
  <2>1. rs # <<>> /\ Head(rs) = response.command.asks /\ InOrder(Tail(rs), commands)
    BY <1>1, <1>2 DEF BatchQueue
  <2> HIDE DEF rs
  <2>2. /\ Append(rs, r) # <<>> /\ Head(Append(rs, r)) = response.command.asks
        /\ Tail(Append(rs, r)) = Append(Tail(rs), r) /\ Tail(rs) \in Seq(Requests)
    BY <1>1, <2>1, AddedTyping, TakenTyping
  <2>3. InOrder(Append(Tail(rs), r), commands')
    BY <1>1, <2>1, <2>2, InOrderAdded
  <2> QED
    BY <1>2, <2>2, <2>3 DEF BatchQueue, Requested, rs
<1>3. CASE ~(response # None /\ request = None)
  <2>1. InOrder(rs, commands)
    BY <1>1, <1>3 DEF BatchQueue
  <2> HIDE DEF rs
  <2>2. InOrder(Append(rs, r), commands')
    BY <1>1, <2>1, InOrderAdded
  <2> QED
    BY <1>3, <2>2 DEF BatchQueue, Requested, rs
<1> QED
  BY <1>2, <1>3

\* What waiting for answers keeps.
WaitInv == BatchQueue /\ SessionsKnown /\ EndsLast /\ NotPhantom /\ FoundAsked

LEMMA StartSessionStep ==
  ASSUME ClientInv, NEW id \in BatchIds, locAPIStartSession(id), hasty' = FALSE
  PROVE  WaitInv'
<1> DEFINE n == started + 1
           c == Ask("StartBatching", n)
           r == Request("StartBatching", n)
           d == mSessionBiDict
<1>1. Waits /\ call = None /\ NoEnds(commands) /\ (response # None => response.command.kind \notin Ends)
  BY NoneUnderWay DEF locAPIStartSession
<1>2. /\ ClientTypeOK /\ DictionaryKept /\ BatchQueue /\ SessionsKnown /\ EndsLast /\ NotPhantom /\ FoundAsked
      /\ started \in Nat /\ MaxSession \in Nat /\ commands \in Seq(Asked)
  BY <1>1, Batches
<1>3. /\ n \in Sessions /\ setSessionAndPush("SESSION", n, r) /\ commands' = Append(commands, c)
      /\ mSessionBiDict' = dictSet(d, id, n) /\ id \notin DOMAIN d.forward
      /\ UNCHANGED <<role, mTracking, call, active, response, request, refused>>
  BY DEF locAPIStartSession, NewSession, hasId, adapterState
<1>4. /\ r \in Requests /\ c \in Asked /\ c.kind = "StartBatching" /\ c.session = n /\ c.asks = r
      /\ n \in Nat /\ n # 0 /\ n \notin DOMAIN d.backward
  <2>1. r \in Requests /\ c \in Asked /\ c.kind = "StartBatching" /\ c.session = n /\ c.asks = r
    BY <1>3, AskTyping DEF Kinds, StartKinds
  <2>2. n \in Nat /\ n # 0
    BY <1>2
  <2>3. n \notin DOMAIN d.backward
    BY <1>2 DEF DictionaryKept, Consistent
  <2> QED
    BY <2>1, <2>2, <2>3
<1> HIDE DEF c, r
<1>5. mRequestQueues'["SESSION"].requests = Append(Requested("SESSION"), r)
  BY <1>2, <1>3, <1>4, SetAndPushed DEF QueueTypes
<1>6. /\ DOMAIN mSessionBiDict'.forward = DOMAIN d.forward \cup {id} /\ mSessionBiDict'.forward[id] = n
      /\ DOMAIN mSessionBiDict'.backward = DOMAIN d.backward \cup {n}
      /\ \A i \in DOMAIN d.forward : mSessionBiDict'.forward[i] = d.forward[i]
  <2>1. Consistent(d, started) /\ started \in Nat /\ n \in Nat /\ n \in 0 .. n /\ started <= n
    BY <1>2, <1>4 DEF DictionaryKept
  <2> HIDE DEF n
  <2> QED
    BY <1>3, <1>4, <2>1, SetKeeps
<1>7. BatchQueue'
  BY <1>1, <1>3, <1>4, <1>5, SentInOrder
<1> HIDE DEF n, d
<1>8. /\ \A i \in DOMAIN commands' : BatchCommand(commands'[i], mSessionBiDict')
      /\ LastEnds(commands')
      /\ BatchCommand(c, mSessionBiDict')
  <2>1. BatchCommand(c, mSessionBiDict')
    BY <1>4, <1>6 DEF BatchCommand, BatchKinds
  <2>2. \A i \in DOMAIN commands : BatchCommand(commands[i], d)
    BY <1>2 DEF SessionsKnown, d
  <2> QED
    BY <1>1, <1>2, <1>3, <1>4, <1>6, <2>1, <2>2, SentKeeps
<1>9. SessionsKnown'
  <2>1. response' # None => BatchCommand(response'.command, mSessionBiDict')
    BY <1>2, <1>3, <1>6 DEF SessionsKnown, BatchCommand, d
  <2>2. \A i \in DOMAIN mSessionBiDict'.forward : mSessionBiDict'.forward[i] # 0
    BY <1>2, <1>4, <1>6 DEF SessionsKnown, Forward, d
  <2>3. active' \subseteq DOMAIN mSessionBiDict'.backward
    BY <1>2, <1>3, <1>6 DEF SessionsKnown, Backward, d
  <2> QED
    BY <1>1, <1>3, <1>8, <2>1, <2>2, <2>3 DEF SessionsKnown, Forward, Backward
<1>10. EndsLast'
  BY <1>1, <1>3, <1>8 DEF EndsLast
<1>11. NotPhantom'
  <2>1. Ending' <=> Ending
    BY <1>3 DEF Ending, endsSession
  <2>2. ~Ending
    BY <1>1, <1>2 DEF Ending, endsSession, Ends, StartKinds, StopKinds, SessionsKnown, BatchCommand, BatchKinds
  <2>3. ASSUME NEW s PROVE Queued(commands', "StartBatching", s) <=> Queued(commands, "StartBatching", s) \/ s = n
    BY <1>2, <1>3, <1>4, QueuedAdded
  <2>4. n \notin active
    BY <1>2, <1>4 DEF SessionsKnown, Backward, d
  <2> QED
    BY <1>2, <1>3, <1>6, <2>1, <2>2, <2>3, <2>4 DEF NotPhantom, Backward, d
<1>12. FoundAsked'
  BY <1>2, <1>3 DEF FoundAsked
<1> QED
  BY <1>7, <1>9, <1>10, <1>11, <1>12 DEF WaitInv

\* A call about a session begins.
LEMMA AskAboutStep ==
  ASSUME ClientInv, NEW id \in BatchIds, NEW kind \in BatchKinds \ {"StartBatching"}, askAboutSession(kind, id),
         hasty' = FALSE
  PROVE  WaitInv'
<1>1. Waits /\ call = None /\ NoEnds(commands) /\ (response # None => response.command.kind \notin Ends)
  BY NoneUnderWay DEF askAboutSession
<1>2. BatchQueue /\ SessionsKnown /\ EndsLast /\ NotPhantom /\ FoundAsked
  BY <1>1, Batches
<1>3. /\ call' = [kind |-> kind, id |-> id, session |-> None] /\ id \in DOMAIN Forward
      /\ UNCHANGED <<mRequestQueues, mSessionBiDict, commands, active, response, request>>
  BY DEF askAboutSession, hasId, Forward, adapterState
<1>4. BatchQueue'
  BY <1>2, <1>3 DEF BatchQueue, Requested
<1>5. SessionsKnown'
  BY <1>2, <1>3 DEF SessionsKnown, Forward, Backward
<1>6. EndsLast'
  BY <1>1, <1>2, <1>3 DEF EndsLast
<1>7. NotPhantom' /\ FoundAsked'
  BY <1>2, <1>3 DEF NotPhantom, FoundAsked, Ending, endsSession, Backward
<1> QED
  BY <1>4, <1>5, <1>6, <1>7 DEF WaitInv

\* The session of the call is looked up.
LEMMA LookUpStep == ASSUME ClientInv, Waits, getExtById PROVE WaitInv'
<1> DEFINE d == mSessionBiDict
           s == lookUp(d, call.id)
<1>1. /\ ClientTypeOK /\ DictionaryKept /\ BatchQueue /\ SessionsKnown /\ EndsLast /\ NotPhantom /\ FoundAsked
      /\ started \in Nat
  BY Batches
<1>2. /\ call # None /\ call' = [call EXCEPT !.session = s]
      /\ mSessionBiDict' = [d EXCEPT !.forward = With(@, call.id, s)]
      /\ UNCHANGED <<mRequestQueues, commands, active, response, request>>
  BY DEF getExtById, adapterState
<1>3. call'.kind = call.kind /\ call'.id = call.id /\ call'.session = s /\ call' # None
  <2>1. call \in Calls
    BY <1>1, <1>2 DEF ClientTypeOK
  <2>2. s \in Nat
    BY <1>1 DEF DictionaryKept, Consistent, lookUp
  <2>3. call' \in Calls /\ call'.kind = call.kind /\ call'.id = call.id /\ call'.session = s
    BY <1>2, <2>1, <2>2 DEF Calls
  <2> QED
    BY <2>3, NoneAssumption
<1>4. call.id \in DOMAIN d.forward /\ s = d.forward[call.id]
  BY <1>1, <1>2 DEF SessionsKnown, lookUp, Forward
<1>5. /\ DOMAIN mSessionBiDict'.forward = DOMAIN d.forward /\ mSessionBiDict'.backward = d.backward
      /\ \A i \in DOMAIN d.forward : mSessionBiDict'.forward[i] = d.forward[i]
  <2>1. Consistent(d, started) /\ d = [forward |-> d.forward, backward |-> d.backward]
    BY <1>1 DEF DictionaryKept, Consistent
  <2>2. mSessionBiDict' = [forward |-> With(d.forward, call.id, s), backward |-> d.backward]
    BY <1>2, <2>1
  <2> QED
    BY <1>1, <1>4, <2>1, <2>2, LookUpKeeps
<1> HIDE DEF s
<1>6. BatchQueue'
  BY <1>1, <1>2 DEF BatchQueue, Requested
<1>7. SessionsKnown'
  BY <1>1, <1>2, <1>3, <1>4, <1>5 DEF SessionsKnown, Forward, Backward, BatchCommand
<1>8. EndsLast'
  BY <1>1, <1>2, <1>3 DEF EndsLast
<1>9. NotPhantom' /\ FoundAsked'
  BY <1>1, <1>2, <1>5 DEF NotPhantom, FoundAsked, Ending, endsSession, Backward
<1> QED
  BY <1>6, <1>7, <1>8, <1>9 DEF WaitInv

\* The adapter is asked about the session of the call.
LEMMA AskAdapterStep == ASSUME ClientInv, Waits, askAdapter PROVE WaitInv'
<1> DEFINE c == Ask(call.kind, call.session)
           r == Request(call.kind, call.session)
           d == mSessionBiDict
<1>1. /\ ClientTypeOK /\ DictionaryKept /\ CallKept /\ BatchQueue /\ SessionsKnown /\ EndsLast /\ NotPhantom /\ FoundAsked
      /\ started \in Nat /\ started \in 0 .. MaxSession /\ MaxSession \in Nat /\ commands \in Seq(Asked)
  BY Batches
<1>2. /\ call # None /\ call.session # None /\ push("SESSION", r) /\ commands' = Append(commands, c)
      /\ setSession(call) /\ call' = None
      /\ UNCHANGED <<active, response, request>>
  BY DEF askAdapter, adapterState
<1>3. /\ call.kind \in BatchKinds \ {"StartBatching"} /\ call.id \in DOMAIN d.forward
      /\ d.forward[call.id] = call.session /\ call.session # 0 /\ call.session \in DOMAIN d.backward
      /\ NoEnds(commands) /\ (response # None => response.command.kind \notin Ends)
  BY <1>1, <1>2 DEF SessionsKnown, EndsLast, DictionaryKept, Consistent, Forward
<1>4. r \in Requests /\ c \in Asked /\ c.kind = call.kind /\ c.session = call.session /\ c.asks = r
  <2>1. call.kind \in Kinds /\ call.session \in Sessions
    BY <1>1, <1>3 DEF BatchKinds, Kinds, StartKinds, StopKinds, DictionaryKept, Consistent, Sessions
  <2> QED
    BY <2>1, AskTyping
<1> HIDE DEF c, r
<1>5. mRequestQueues'["SESSION"].requests = Append(Requested("SESSION"), r)
  BY <1>1, <1>2, <1>4, Pushed DEF QueueTypes
<1>6. /\ DOMAIN mSessionBiDict'.forward = DOMAIN d.forward
      /\ DOMAIN mSessionBiDict'.backward = DOMAIN d.backward
      /\ \A i \in DOMAIN d.forward : mSessionBiDict'.forward[i] = d.forward[i]
  <2>1. CASE call.kind = "UpdateBatching"
    BY <1>1, <1>2, <1>3, <2>1, UpdateKeeps DEF setSession, DictionaryKept, CallKept
  <2>2. CASE call.kind # "UpdateBatching"
    BY <1>2, <2>2 DEF setSession
  <2> QED
    BY <2>1, <2>2
<1>7. BatchQueue'
  BY <1>2, <1>4, <1>5, SentInOrder
<1> HIDE DEF d
<1>8. (\A i \in DOMAIN commands' : BatchCommand(commands'[i], mSessionBiDict')) /\ LastEnds(commands')
  <2>1. BatchCommand(c, mSessionBiDict')
    BY <1>3, <1>4, <1>6 DEF BatchCommand
  <2>2. \A i \in DOMAIN commands : BatchCommand(commands[i], d)
    BY <1>1 DEF SessionsKnown, d
  <2> QED
    BY <1>1, <1>2, <1>3, <1>4, <1>6, <2>1, <2>2, SentKeeps
<1>9. SessionsKnown'
  BY <1>1, <1>2, <1>6, <1>8 DEF SessionsKnown, Forward, Backward, BatchCommand, d
<1>10. EndsLast'
  BY <1>2, <1>3, <1>8 DEF EndsLast
<1>11. NotPhantom'
  <2>1. Ending' <=> Ending
    BY <1>2 DEF Ending, endsSession
  <2>2. ASSUME NEW s PROVE Queued(commands', "StartBatching", s) <=> Queued(commands, "StartBatching", s)
    BY <1>1, <1>2, <1>3, <1>4, QueuedAdded
  <2> QED
    BY <1>1, <1>2, <1>6, <2>1, <2>2 DEF NotPhantom, Backward, d
<1>12. FoundAsked'
  BY <1>1, <1>2 DEF FoundAsked
<1> QED
  BY <1>7, <1>9, <1>10, <1>11, <1>12 DEF WaitInv

\* The adapter's thread takes a command, the first of those whose requests are queued.
LEMMA HandleBatchStep == ASSUME ClientInv, Waits, HandleCommand PROVE WaitInv'
<1> DEFINE c == Head(commands)
<1>1. /\ commands # <<>> /\ response = None /\ commands' = Tail(commands)
      /\ UNCHANGED <<mRequestQueues, mSessionBiDict, call, request>>
      /\ (\E ok \in BOOLEAN : handleStart(c, ok) \/ handleStop(c, ok) \/ handleOther(c, ok)) \/ handleUnknown(c)
  BY DEF HandleCommand
<1>2. /\ BatchQueue /\ SessionsKnown /\ EndsLast /\ NotPhantom /\ FoundAsked
      /\ commands \in Seq(Asked) /\ Requested("SESSION") \in Seq(Requests) /\ request = None
  BY <1>1, Batches DEF ClientTypeOK
<1>3. /\ c \in Asked /\ BatchCommand(c, mSessionBiDict) /\ LastEnds(commands')
      /\ \A i \in DOMAIN commands' : BatchCommand(commands'[i], mSessionBiDict)
      /\ c.kind \in Ends => commands' = <<>> /\ call = None
      /\ NoEnds(commands) => NoEnds(commands')
  <2>1. /\ \A i \in DOMAIN commands : BatchCommand(commands[i], mSessionBiDict)
        /\ LastEnds(commands) /\ (call # None => NoEnds(commands))
    BY <1>2 DEF SessionsKnown, EndsLast
  <2>2. c \in Asked
    BY <1>1, <1>2, TakenTyping
  <2> QED
    BY <1>1, <1>2, <2>1, <2>2, TakenKeeps
<1> HIDE DEF c
\* Every command is answered.  A start or a stop changes whether its session runs, or ends it.
<1>4. /\ response' # None /\ response'.command = c
      /\ c.kind \notin Ends => active' = active /\ ~Ending'
      /\ c.kind = "StartBatching" =>
           \/ active' = active \cup {c.session} /\ ~Ending'
           \/ active' = active /\ Ending'
      /\ c.kind = "StopBatching" =>
           \/ active' = active \ {c.session} /\ Ending'
           \/ active' = active /\ ~Ending'
  <2>1. ASSUME NEW ok \in BOOLEAN PROVE [command |-> c, ok |-> ok] # None
    <3>1. [command |-> c, ok |-> ok] \in Responses
      BY <1>3 DEF Responses, Asked
    <3> QED
      BY <3>1, NoneAssumption
  <2>2. c.kind \in {"StartBatching", "StopBatching", "UpdateBatching", "GetBatchedLocations"}
    BY <1>3 DEF BatchCommand, BatchKinds
  <2>3. ASSUME NEW ok \in BOOLEAN, response' = [command |-> c, ok |-> ok]
        PROVE  /\ response' # None /\ response'.command = c
               /\ c.kind = "StartBatching" => (Ending' <=> ok = FALSE)
               /\ c.kind = "StopBatching" => (Ending' <=> ok = TRUE)
               /\ c.kind \notin Ends => ~Ending'
    <3>1. response' # None /\ response'.command = c /\ response'.ok = ok
      BY <2>1, <2>3
    <3>2. CASE ok = TRUE
      BY <2>2, <3>1, <3>2 DEF Ending, endsSession, StartKinds, StopKinds, Ends
    <3>3. CASE ok = FALSE
      BY <2>2, <3>1, <3>3 DEF Ending, endsSession, StartKinds, StopKinds, Ends
    <3> QED
      BY <3>1, <3>2, <3>3
  <2>4. ASSUME NEW ok \in BOOLEAN, handleStart(c, ok)
        PROVE  /\ response' = [command |-> c, ok |-> ok] /\ c.kind = "StartBatching"
               /\ (ok = TRUE /\ active' = active \cup {c.session}) \/ (ok = FALSE /\ active' = active)
    BY <2>2, <2>4 DEF handleStart, StartKinds
  <2>5. ASSUME NEW ok \in BOOLEAN, handleStop(c, ok)
        PROVE  /\ response' = [command |-> c, ok |-> ok] /\ c.kind = "StopBatching"
               /\ (ok = TRUE /\ active' = active \ {c.session}) \/ (ok = FALSE /\ active' = active)
    BY <2>2, <2>5 DEF handleStop, StopKinds
  <2>6. ASSUME NEW ok \in BOOLEAN, handleOther(c, ok)
        PROVE  response' = [command |-> c, ok |-> ok] /\ c.kind \notin Ends /\ active' = active
    BY <2>6 DEF handleOther, StartKinds, StopKinds, Ends
  <2>7. ASSUME handleUnknown(c)
        PROVE  response' = [command |-> c, ok |-> FALSE] /\ c.kind # "StartBatching" /\ active' = active
    BY <2>2, <2>7 DEF handleUnknown, StartKinds, AnswersUnknown
  <2>8. \E ok \in BOOLEAN : response' = [command |-> c, ok |-> ok]
    BY <1>1, <2>4, <2>5, <2>6, <2>7
  <2>9. response' # None /\ response'.command = c
    BY <2>3, <2>8
  <2>10. CASE c.kind \notin Ends
    BY <1>1, <2>3, <2>4, <2>5, <2>6, <2>7, <2>9, <2>10 DEF Ends
  <2>11. CASE c.kind = "StartBatching"
    <3>1. PICK ok \in BOOLEAN : handleStart(c, ok)
      BY <1>1, <2>5, <2>6, <2>7, <2>11 DEF Ends
    <3> QED
      BY <2>3, <2>4, <2>9, <2>11, <3>1 DEF Ends
  <2>12. CASE c.kind = "StopBatching"
    <3>1. CASE handleUnknown(c)
      BY <2>3, <2>7, <2>9, <2>12, <3>1 DEF Ends
    <3>2. CASE ~handleUnknown(c)
      <4>1. PICK ok \in BOOLEAN : handleStop(c, ok)
        BY <1>1, <2>4, <2>6, <2>12, <3>2 DEF Ends
      <4> QED
        BY <2>3, <2>5, <2>9, <2>12, <4>1 DEF Ends
    <3> QED
      BY <3>1, <3>2
  <2> QED
    BY <2>9, <2>10, <2>11, <2>12 DEF Ends
<1>5. BatchQueue'
  <2>1. InOrder(Requested("SESSION"), commands)
    BY <1>1, <1>2 DEF BatchQueue
  <2>2. /\ Requested("SESSION") # <<>> /\ Head(Requested("SESSION")) = c.asks
        /\ InOrder(Tail(Requested("SESSION")), commands')
    BY <1>1, <1>2, <2>1, InOrderTaken DEF c
  <2> QED
    BY <1>1, <1>2, <1>4, <2>2 DEF BatchQueue, Requested
<1>6. SessionsKnown'
  <2>1. active' \subseteq DOMAIN Backward
    BY <1>2, <1>3, <1>4 DEF SessionsKnown, BatchCommand, Backward, Ends
  <2> QED
    BY <1>1, <1>2, <1>3, <1>4, <2>1 DEF SessionsKnown, Forward, Backward
<1>7. EndsLast'
  BY <1>1, <1>2, <1>3, <1>4 DEF EndsLast
<1>8. ASSUME NEW s
      PROVE  Queued(commands, "StartBatching", s)
               <=> Queued(commands', "StartBatching", s) \/ (c.kind = "StartBatching" /\ c.session = s)
  BY <1>1, <1>2, QueuedTaken DEF c
<1>9. c.kind \in Ends => \A s : ~Queued(commands', "StartBatching", s)
  BY <1>3 DEF Queued
<1>10. NotPhantom'
  <2>1. ~Ending
    BY <1>1 DEF Ending
  <2>2. ASSUME NEW s \in DOMAIN Backward
        PROVE  s \in active' \/ Queued(commands', "StartBatching", s) \/ (Ending' /\ c.session = s)
    <3>1. s \in active \/ Queued(commands, "StartBatching", s)
      BY <1>2, <2>1 DEF NotPhantom
    <3> QED
      BY <1>4, <1>8, <3>1 DEF Ends
  <2>3. ASSUME NEW s \in active'
        PROVE  ~Queued(commands', "StartBatching", s) /\ ~(Ending' /\ c.session = s)
    <3>1. s \in active => ~Queued(commands, "StartBatching", s)
      BY <1>2 DEF NotPhantom
    <3> QED
      BY <1>4, <1>8, <1>9, <2>3, <3>1 DEF Ends
  <2> QED
    BY <1>1, <1>4, <2>2, <2>3 DEF NotPhantom, Backward
<1>11. FoundAsked'
  BY <1>1, <1>2 DEF FoundAsked
<1> QED
  BY <1>5, <1>6, <1>7, <1>10, <1>11 DEF WaitInv

\* The request of an answer is found in the shared queue: it is the first.
LEMMA FoundWhere ==
  ASSUME NoTracking, None \notin QueueTypes, NEW s
  PROVE  /\ QueueFor(s) \in {"SESSION", None}
         /\ s # 0 /\ hasSession(s) /\ Requested("SESSION") # <<>> => QueueFor(s) = "SESSION"
<1>1. /\ mRequestQueues["TRACKING"].requests = <<>> /\ mRequestQueues["NIRESPONSE"].requests = <<>>
      /\ mRequestQueues["TRACKING"].session = 0 /\ mRequestQueues["NIRESPONSE"].session = 0
  BY DEF NoTracking, Requested, SessionOf
<1>2. SingleQueue(s) \in {"TRACKING", "NIRESPONSE", None}
  BY DEF SingleQueue
<1>3. s # 0 => SingleQueue(s) = None
  BY <1>1 DEF SingleQueue
<1> QED
  BY <1>1, <1>2, <1>3 DEF QueueFor, Requested

LEMMA FindBatchStep == ASSUME ClientInv, Waits, getRequestBySession PROVE WaitInv'
<1> DEFINE s == response.command.session
           rs == Requested("SESSION")
<1>1. /\ ClientTypeOK /\ DictionaryKept /\ NoTracking
      /\ BatchQueue /\ SessionsKnown /\ EndsLast /\ NotPhantom /\ FoundAsked /\ rs \in Seq(Requests)
  BY Batches
<1>2. /\ call = None /\ response # None /\ request = None
      /\ UNCHANGED <<mSessionBiDict, call, commands, active>>
  BY DEF getRequestBySession
<1>3. rs # <<>> /\ Head(rs) = response.command.asks /\ InOrder(Tail(rs), commands)
  BY <1>1, <1>2 DEF BatchQueue
<1>4. QueueFor(s) = "SESSION" /\ "SESSION" # None
  <2>1. s # 0 /\ hasSession(s)
    BY <1>1, <1>2 DEF SessionsKnown, BatchCommand, hasSession
  <2>2. None \notin QueueTypes
    BY NoneAssumption
  <2> QED
    BY <1>1, <1>3, <2>1, <2>2, FoundWhere DEF QueueTypes
<1>5. /\ request' = Head(rs) /\ response' = response
      /\ mRequestQueues' = [mRequestQueues EXCEPT !["SESSION"].requests = Tail(@)]
  BY <1>4 DEF getRequestBySession, Requested
<1>6. mRequestQueues'["SESSION"].requests = Tail(rs) /\ request' # None
  <2>1. mRequestQueues'["SESSION"].requests = Tail(rs) /\ Head(rs) \in Requests
    BY <1>1, <1>3, <1>5, HeadTaken DEF QueueTypes
  <2> QED
    BY <1>5, <2>1, NoneAssumption
<1> HIDE DEF rs
<1>7. BatchQueue'
  BY <1>2, <1>3, <1>5, <1>6 DEF BatchQueue, Requested
<1>8. FoundAsked'
  BY <1>3, <1>5 DEF FoundAsked
<1>9. SessionsKnown' /\ EndsLast' /\ NotPhantom'
  BY <1>1, <1>2, <1>5 DEF SessionsKnown, EndsLast, NotPhantom, Ending, endsSession, Forward, Backward
<1> QED
  BY <1>7, <1>8, <1>9 DEF WaitInv

\* The request is answered: a session that ends is forgotten.
LEMMA RespondStep == ASSUME ClientInv, Waits, onResponse PROVE WaitInv'
<1> DEFINE s == response.command.session
           d == mSessionBiDict
<1>1. /\ ClientTypeOK /\ DictionaryKept
      /\ BatchQueue /\ SessionsKnown /\ EndsLast /\ NotPhantom /\ FoundAsked /\ started \in Nat
  BY Batches
<1>2. /\ request # None /\ response # None /\ request.kind = response.command.kind
      /\ response' = None /\ request' = None
      /\ UNCHANGED <<mRequestQueues, call, commands, active>>
  <2>1. request # None /\ response # None /\ response.command \in Asked
    BY <1>1 DEF onResponse, ClientTypeOK
  <2> QED
    BY <1>1, <2>1, AskedTyping DEF onResponse, FoundAsked
<1>3. endsSession(request, response.ok) <=> Ending
  BY <1>2 DEF endsSession, Ending
<1>4. BatchQueue'
  BY <1>1, <1>2 DEF BatchQueue, Requested
<1>5. EndsLast' /\ FoundAsked'
  BY <1>1, <1>2 DEF EndsLast, FoundAsked
<1>6. ~Ending'
  BY <1>2 DEF Ending
<1>7. CASE Ending
  <2>1. commands = <<>> /\ call = None /\ DOMAIN commands = {}
    <3>1. response.command.kind \in Ends
      BY <1>1, <1>7 DEF Ending, endsSession, StartKinds, StopKinds, Ends, SessionsKnown, BatchCommand, BatchKinds
    <3> QED
      BY <1>1, <1>2, <3>1 DEF EndsLast
  <2>2. s \in DOMAIN d.backward /\ mSessionBiDict' = dictRmBySession(d, s)
    BY <1>1, <1>2, <1>3, <1>7 DEF onResponse, removeSession, hasSession, SessionsKnown, BatchCommand
  <2>3. /\ DOMAIN mSessionBiDict'.forward \subseteq DOMAIN d.forward
        /\ DOMAIN mSessionBiDict'.backward = DOMAIN d.backward \ {s}
        /\ \A i \in DOMAIN mSessionBiDict'.forward : mSessionBiDict'.forward[i] = d.forward[i]
    BY <1>1, <2>2, RemoveKeeps DEF DictionaryKept
  <2>4. s \notin active
    BY <1>1, <1>7 DEF NotPhantom
  <2> HIDE DEF s, d
  <2>5. SessionsKnown'
    BY <1>1, <1>2, <2>1, <2>3, <2>4 DEF SessionsKnown, Forward, Backward, d
  <2>6. NotPhantom'
    BY <1>1, <1>2, <1>6, <2>3 DEF NotPhantom, Backward, d, s
  <2> QED
    BY <1>4, <1>5, <2>5, <2>6 DEF WaitInv
<1>8. CASE ~Ending
  <2>1. mSessionBiDict' = d
    BY <1>3, <1>8 DEF onResponse
  <2>2. SessionsKnown' /\ NotPhantom'
    BY <1>1, <1>2, <1>6, <1>8, <2>1 DEF SessionsKnown, NotPhantom, Forward, Backward
  <2> QED
    BY <1>4, <1>5, <2>2 DEF WaitInv
<1> QED
  BY <1>7, <1>8

LEMMA BatchStep == ClientInv /\ [Next]_vars => BatchInv'
<1> SUFFICES ASSUME ClientInv, [Next]_vars, role = "batching"
             PROVE  NoTracking' /\ (hasty' = FALSE => WaitInv')
  BY RoleStays DEF BatchInv, WaitInv
<1>1. /\ ClientTypeOK /\ NoTracking /\ None \notin QueueTypes /\ hasty \in BOOLEAN
      /\ hasty = FALSE => WaitInv
      /\ hasty = FALSE => Waits
      /\ QueueTypes = {"TRACKING", "SESSION", "NIRESPONSE"}
  BY NoneAssumption DEF ClientInv, BatchInv, WaitInv, Waits, ClientTypeOK, QueueTypes
<1>2. ~locAPIStartTracking /\ ~locAPIStopTracking /\ ~locAPIUpdateTrackingOptions
      /\ \A id \in NiIds : ~locAPIGnssNiResponse(id)
  BY DEF locAPIStartTracking, locAPIStopTracking, locAPIUpdateTrackingOptions, locAPIGnssNiResponse
<1>3. ASSUME NEW q \in {"SESSION"}, \A p \in QueueTypes : p # q => mRequestQueues'[p] = mRequestQueues[p]
      PROVE  NoTracking'
  BY <1>1, <1>3 DEF NoTracking, SessionOf, Requested
<1>4. mRequestQueues' = mRequestQueues => NoTracking'
  BY <1>1 DEF NoTracking, SessionOf, Requested
<1>5. ASSUME NEW id \in BatchIds, locAPIStartSession(id) PROVE NoTracking' /\ (hasty' = FALSE => WaitInv')
  <2>1. PICK s \in Sessions : setSessionAndPush("SESSION", s, Request("StartBatching", s))
    BY <1>5 DEF locAPIStartSession
  <2>2. \A p \in QueueTypes : p # "SESSION" => mRequestQueues'[p] = mRequestQueues[p]
    BY <1>1, <2>1 DEF setSessionAndPush, ClientTypeOK
  <2> QED
    BY <1>3, <1>5, <2>2, StartSessionStep
<1>6. ASSUME NEW id \in BatchIds, NEW kind \in BatchKinds \ {"StartBatching"}, askAboutSession(kind, id)
      PROVE  NoTracking' /\ (hasty' = FALSE => WaitInv')
  <2>1. mRequestQueues' = mRequestQueues
    BY <1>6 DEF askAboutSession
  <2> QED
    BY <1>4, <1>6, <2>1, AskAboutStep
<1>7. CASE getExtById
  <2>1. mRequestQueues' = mRequestQueues /\ hasty' = hasty
    BY <1>7 DEF getExtById
  <2> QED
    BY <1>1, <1>4, <1>7, <2>1, LookUpStep
<1>8. CASE askAdapter
  <2>1. push("SESSION", Request(call.kind, call.session)) /\ hasty' = hasty
    BY <1>8 DEF askAdapter
  <2>2. \A p \in QueueTypes : p # "SESSION" => mRequestQueues'[p] = mRequestQueues[p]
    BY <1>1, <2>1 DEF push, ClientTypeOK
  <2> QED
    BY <1>1, <1>3, <1>8, <2>1, <2>2, AskAdapterStep
<1>9. CASE HandleCommand
  <2>1. mRequestQueues' = mRequestQueues /\ hasty' = hasty
    BY <1>9 DEF HandleCommand
  <2> QED
    BY <1>1, <1>4, <1>9, <2>1, HandleBatchStep
<1>10. CASE getRequestBySession
  <2> DEFINE q == QueueFor(response.command.session)
  <2>1. /\ hasty' = hasty
        /\ mRequestQueues' = mRequestQueues \/ mRequestQueues' = [mRequestQueues EXCEPT ![q].requests = Tail(@)]
        /\ q = None => mRequestQueues' = mRequestQueues
    BY <1>10 DEF getRequestBySession
  <2>2. q \in {"SESSION", None}
    BY <1>1, FoundWhere
  <2> HIDE DEF q
  <2>3. CASE q = None
    BY <1>1, <1>4, <1>10, <2>1, <2>3, FindBatchStep
  <2>4. CASE q = "SESSION"
    <3>1. \A p \in QueueTypes : p # "SESSION" => mRequestQueues'[p] = mRequestQueues[p]
      BY <1>1, <2>1, <2>4 DEF ClientTypeOK
    <3> QED
      BY <1>1, <1>3, <1>10, <2>1, <3>1, FindBatchStep
  <2> QED
    BY <2>2, <2>3, <2>4
<1>11. CASE onResponse
  <2>1. mRequestQueues' = mRequestQueues /\ hasty' = hasty
    BY <1>11 DEF onResponse
  <2> QED
    BY <1>1, <1>4, <1>11, <2>1, RespondStep
<1>12. CASE UNCHANGED vars
  <2>1. UNCHANGED <<mRequestQueues, mSessionBiDict, call, commands, active, response, request, hasty>>
    BY <1>12 DEF vars, clientState, adapterState
  <2>2. WaitInv => WaitInv'
    BY <2>1 DEF WaitInv, BatchQueue, SessionsKnown, EndsLast, NotPhantom, FoundAsked, Ending, endsSession,
                Requested, Forward, Backward
  <2> QED
    BY <1>1, <1>4, <2>1, <2>2
<1> QED
  BY <1>2, <1>5, <1>6, <1>7, <1>8, <1>9, <1>10, <1>11, <1>12
  DEF Next, ClientThreads, AdapterThread, locAPIStopSession, locAPIUpdateSessionOptions, locAPIGetBatchedLocations,
      BatchKinds

-----------------------------------------------------------------------------
(***************************************************************************)
(* The invariant and what follows from it.                                 *)
(***************************************************************************)
LEMMA InitClientInv == Init => ClientInv
<1> SUFFICES ASSUME Init PROVE ClientInv
  OBVIOUS
<1>1. /\ role \in {"gnss", "batching"} /\ mRequestQueues = [q \in QueueTypes |-> [session |-> 0, requests |-> <<>>]]
      /\ mTracking = FALSE /\ mSessionBiDict = [forward |-> <<>>, backward |-> <<>>] /\ call = None
      /\ commands = <<>> /\ active = {} /\ response = None /\ request = None
      /\ started = 0 /\ refused = {} /\ hasty = FALSE /\ MaxSession \in Nat
  BY RolesAssumption, BoundsAssumption DEF Init
<1>2. <<>> \in Seq(Requests) /\ <<>> \in Seq(Asked) /\ DOMAIN <<>> = {} /\ Len(<<>>) = 0
  OBVIOUS
<1>3. \A q \in QueueTypes : SessionOf(q) = 0 /\ Requested(q) = <<>>
  BY <1>1 DEF SessionOf, Requested
<1>4. {"TRACKING", "SESSION", "NIRESPONSE"} \subseteq QueueTypes
  BY DEF QueueTypes
<1>5. ClientTypeOK
  <2>1. [session |-> 0, requests |-> <<>>] \in [session : Nat, requests : Seq(Requests)]
    BY <1>2
  <2>2. mRequestQueues \in [QueueTypes -> [session : Nat, requests : Seq(Requests)]]
    BY <1>1, <2>1
  <2>3. commands \in Seq(Asked)
    BY <1>1, <1>2
  <2>4. started \in 0 .. MaxSession
    BY <1>1
  <2>6. mTracking \in BOOLEAN /\ hasty \in BOOLEAN
    BY Zenon DEF Init
  <2>5. response = None /\ request = None /\ call = None /\ role \in {"gnss", "batching"}
    BY <1>1
  <2> QED
    BY <2>2, <2>3, <2>4, <2>5, <2>6 DEF ClientTypeOK
<1>6. Forward = <<>> /\ Backward = <<>>
  BY <1>1 DEF Forward, Backward
<1>7. DictionaryKept /\ CallKept
  BY <1>1, <1>2 DEF DictionaryKept, CallKept, Consistent, LookedUp
<1>8. GnssInv
  <2>1. NoBatching /\ GnssQueues /\ FoundUnlessShared
    BY <1>1, <1>2, <1>3, <1>4, <1>6 DEF NoBatching, GnssQueues, FoundUnlessShared
  <2>2. StartsFirst(commands, active) /\ TrackingMatches
    BY <1>1, <1>2 DEF StartsFirst, TrackingMatches
  <2>3. StopsFollow
    BY <1>1, <1>2 DEF StopsFollow, Queued
  <2> QED
    BY <2>1, <2>2, <2>3 DEF GnssInv
<1>9. BatchInv
  <2>1. NoTracking
    BY <1>3, <1>4 DEF NoTracking
  <2>2. BatchQueue
    BY <1>1, <1>2, <1>3, <1>4 DEF BatchQueue, InOrder
  <2>3. SessionsKnown /\ EndsLast /\ NotPhantom /\ FoundAsked
    BY <1>1, <1>2, <1>6 DEF SessionsKnown, EndsLast, LastEnds, NotPhantom, FoundAsked
  <2> QED
    BY <2>1, <2>2, <2>3 DEF BatchInv
<1> QED
  BY <1>5, <1>7, <1>8, <1>9 DEF ClientInv

LEMMA NextClientInv == ClientInv /\ [Next]_vars => ClientInv'
  BY TypeStep, DictionaryStep, GnssStep, BatchStep DEF ClientInv

LEMMA InvMatches == ClientInv => AnswersMatch
<1> SUFFICES ASSUME ClientInv, request # None, hasty = FALSE, ~Shared(response.command.session)
             PROVE  request = response.command.asks
  <2>1. ClientInv => hasty \in BOOLEAN
    BY DEF ClientInv, ClientTypeOK
  <2> QED
    BY <2>1 DEF AnswersMatch
<1>1. role \in {"gnss", "batching"}
  BY DEF ClientInv, ClientTypeOK
<1> QED
  BY <1>1, Tracks, Batches DEF FoundAsked, FoundUnlessShared, Waits

LEMMA InvAgrees == ClientInv => SessionsAgree
<1> SUFFICES ASSUME ClientInv PROVE SessionsAgree
  OBVIOUS
<1>1. /\ role \in {"gnss", "batching"} /\ hasty \in BOOLEAN /\ Consistent(mSessionBiDict, started)
  BY DEF ClientInv, ClientTypeOK, DictionaryKept
<1>2. CASE role = "gnss"
  <2>1. /\ NoBatching /\ GnssQueues /\ StopsFollow /\ started \in 0 .. MaxSession /\ MaxSession \in Nat
    BY <1>2, Tracks
  <2>2. NoRunawaySession
    <3> SUFFICES ASSUME NEW s \in active PROVE Known(s) \/ UnderWay(StopKinds, s) \/ s \in refused
      BY DEF NoRunawaySession
    <3>1. s \in Sessions /\ SessionOf("TRACKING") = started
      BY <2>1 DEF GnssQueues, Sessions
    <3>2. CASE s = started
      BY <3>1, <3>2 DEF Known, SessionOf
    <3>3. CASE s # started
      <4>1. Queued(commands, "StopTracking", s) \/ s \in refused
        BY <2>1, <3>1, <3>3 DEF StopsFollow
      <4> QED
        BY <4>1 DEF Queued, UnderWay, StopKinds
    <3> QED
      BY <3>2, <3>3
  <2>3. NoPhantomSession /\ DictionaryInverse /\ NoRequestLeft
    BY <2>1 DEF NoBatching, NoPhantomSession, DictionaryInverse, NoRequestLeft, Forward, Backward, Requested
  <2> QED
    BY <2>2, <2>3 DEF SessionsAgree
<1>3. CASE role = "batching"
  <2>1. ASSUME hasty = FALSE
        PROVE  /\ BatchQueue /\ SessionsKnown /\ NotPhantom
               /\ Requested("SESSION") \in Seq(Requests)
    BY <1>3, <2>1, Batches DEF Waits
  <2>2. NoRunawaySession
    <3>1. hasty = FALSE => \A s \in active : hasSession(s)
      BY <2>1 DEF SessionsKnown, hasSession, Backward
    <3> QED
      BY <1>1, <3>1 DEF NoRunawaySession, Known
  <2>3. NoPhantomSession
    <3> SUFFICES ASSUME hasty = FALSE, NEW s \in DOMAIN mSessionBiDict.backward
                 PROVE  s \in active \/ UnderWay(StartKinds \cup StopKinds, s)
      BY <1>1 DEF NoPhantomSession
    <3>1. s \in active \/ Queued(commands, "StartBatching", s) \/ (Ending /\ response.command.session = s)
      BY <2>1 DEF NotPhantom, Backward
    <3>2. Queued(commands, "StartBatching", s) => UnderWay(StartKinds \cup StopKinds, s)
      BY DEF Queued, UnderWay, StartKinds
    <3>3. Ending /\ response.command.session = s => UnderWay(StartKinds \cup StopKinds, s)
      BY DEF Ending, endsSession, UnderWay
    <3> QED
      BY <3>1, <3>2, <3>3
  <2>4. DictionaryInverse
    <3>1. ASSUME NEW id \in DOMAIN mSessionBiDict.forward
          PROVE  \/ hasSession(sessionOf(id)) /\ mSessionBiDict.backward[sessionOf(id)] = id
                 \/ hasty = TRUE /\ sessionOf(id) = 0
      <4>1. hasty = FALSE => sessionOf(id) # 0
        BY <2>1 DEF SessionsKnown, Forward, sessionOf
      <4> QED
        BY <1>1, <4>1 DEF Consistent, sessionOf, hasSession
    <3>2. ASSUME NEW s \in DOMAIN mSessionBiDict.backward
          PROVE  hasId(mSessionBiDict.backward[s]) /\ sessionOf(mSessionBiDict.backward[s]) = s
      BY <1>1 DEF Consistent, hasId, sessionOf
    <3> QED
      BY <1>1, <3>1, <3>2 DEF DictionaryInverse
  <2>5. NoRequestLeft
    <3> SUFFICES ASSUME commands = <<>>, response = None, hasty = FALSE PROVE Requested("SESSION") = <<>>
      BY <1>1 DEF NoRequestLeft, Requested
    <3>1. InOrder(Requested("SESSION"), <<>>) /\ Requested("SESSION") \in Seq(Requests)
      BY <2>1 DEF BatchQueue
    <3>2. \A t \in Seq(Requests) : Len(t) = Len(<<>>) => t = <<>>
      OBVIOUS
    <3> QED
      BY <3>1, <3>2 DEF InOrder
  <2> QED
    BY <2>2, <2>3, <2>4, <2>5 DEF SessionsAgree
<1> QED
  BY <1>1, <1>2, <1>3

\* Every answer is given to the request that asked for it (getRequestBySession): whatever is
\* refused or never answered, for any number of sessions and any ids of notifications, if it does
\* not name an id that a session and a notification share, and a batching client waits for the
\* answers to its starts and stops.
THEOREM AnswersFindTheirRequest == Spec => []AnswersMatch
<1>1. ClientInv /\ [Next]_vars => ClientInv'
  BY NextClientInv
<1> QED
  BY <1>1, InitClientInv, InvMatches, PTL DEF Spec

\* The client's sessions and those the adapter runs are the same but for what is under way: no
\* session runs that the client cannot stop, none is refused as started that does not run, the
\* maps of the dictionary stay inverse (removeSession takes no lock on a call's look-up), and
\* no request is left over for the next session, shared ids or not.
THEOREM ClientFollowsAdapter == Spec => []SessionsAgree
<1>1. ClientInv /\ [Next]_vars => ClientInv'
  BY NextClientInv
<1> QED
  BY <1>1, InitClientInv, InvAgrees, PTL DEF Spec

-----------------------------------------------------------------------------
(***************************************************************************)
(* Geofences, for any ids, breach types and number of sessions.            *)
(***************************************************************************)
CallKinds == {"add", "remove", "pause", "resume"}
BiDicts == [session : [FenceIds -> Nat], id : [Fence!Sessions -> FenceIds \cup {0}],
            ext : [Fence!Sessions -> SUBSET Breaches]]
FenceCommand == [kind : CallKinds, session : Fence!Sessions, of : FenceIds]
FenceRequest == [kind : CallKinds, removed : BiDicts]

\* Calls on their way to the geofence adapter, and the one it has answered.
CallsQueued(cs) == {cs[k] : k \in DOMAIN cs}
Answered(r) == IF r = None THEN {} ELSE {[kind |-> r.kind, session |-> r.session, of |-> r.of]}
FencesCalled == CallsQueued(fenceCommands) \cup Answered(fenceResponse)

FenceTypes ==
  /\ next \in Nat /\ next <= MaxFences
  /\ mGeofenceBiDict \in BiDicts
  /\ fenceCommands \in Seq(FenceCommand) /\ mRequestQueue \in Seq(FenceRequest)
  /\ Answered(fenceResponse) \subseteq FenceCommand
  /\ fences = [s \in Fence!Sessions |-> fences[s]]
  /\ wanted \in [FenceIds -> SUBSET Breaches]
  /\ fenceHasty \in BOOLEAN

\* A request and the call it was made for.
Fits(q, c) == q.kind = c.kind /\ (c.kind = "remove" => q.removed.id[c.session] = c.of)

\* The queue of requests goes with the commands.
RequestsFit ==
  /\ Len(mRequestQueue) = Len(fenceCommands)
  /\ \A k \in DOMAIN fenceCommands : Fits(mRequestQueue[k], fenceCommands[k])
  /\ fenceResponse # None => Fits(fenceResponse.request, fenceResponse)

\* Id i and session s find each other, with the breach types asked for last.
Knows(d, w, i, s) == d.id[s] = i /\ d.session[i] = s /\ d.ext[s] = w[i]

\* The dictionary: an id and its session know each other; removed sessions have neither id nor breach types.
FenceDictAgrees(d) ==
  /\ \A i \in FenceIds : d.session[i] # 0 =>
       d.session[i] \in Fence!Sessions /\ d.session[i] <= next /\ Knows(d, wanted, i, d.session[i])
  /\ \A s \in Fence!Sessions : d.id[s] = 0 => d.ext[s] = {}
  /\ \A c \in CallsQueued(fenceCommands) : c.kind = "remove" => d.id[c.session] = 0

\* A geofence is known as long as a call for it is under way or the adapter monitors it.
Monitors(s) == fences[s] \in {"active", "paused"}
Leaves(s) == \E c \in CallsQueued(fenceCommands) : c.session = s /\ c.kind = "remove"
FencesKnown ==
  /\ \A c \in FencesCalled : c.kind # "remove" => Knows(mGeofenceBiDict, wanted, c.of, c.session)
  /\ \A s \in Fence!Sessions : Monitors(s) /\ ~Leaves(s) =>
       mGeofenceBiDict.id[s] # 0 /\ Knows(mGeofenceBiDict, wanted, mGeofenceBiDict.id[s], s)

FenceInv ==
  /\ FenceTypes /\ RequestsFit /\ FenceDictAgrees(mGeofenceBiDict)
  /\ \A c \in FencesCalled : c.session <= next
  /\ ~fenceHasty => FencesKnown
  /\ Fence!BreachKnown

LEMMA FenceAssumptions == FenceIds \subseteq Nat \ {0} /\ MaxFences \in Nat
  BY ClientsAssumption DEF Fence!IdAssumption, Fence!BoundAssumption

\* Queues that grow and shrink.
LEMMA FenceAppended ==
  ASSUME NEW q \in Seq(FenceCommand), NEW c \in FenceCommand, NEW p \in Seq(FenceRequest), NEW r \in FenceRequest,
         Len(p) = Len(q), \A k \in DOMAIN q : Fits(p[k], q[k]), Fits(r, c)
  PROVE  /\ Append(q, c) \in Seq(FenceCommand) /\ Append(p, r) \in Seq(FenceRequest)
         /\ CallsQueued(Append(q, c)) = CallsQueued(q) \cup {c}
         /\ Len(Append(p, r)) = Len(Append(q, c))
         /\ \A k \in DOMAIN Append(q, c) : Fits(Append(p, r)[k], Append(q, c)[k])
<1> DEFINE a == Append(q, c)
           b == Append(p, r)
           n == Len(q) + 1
<1>1. /\ a \in Seq(FenceCommand) /\ DOMAIN q = 1..Len(q) /\ DOMAIN a = DOMAIN q \cup {n} /\ a[n] = c
      /\ Len(a) = n /\ \A k \in DOMAIN q : a[k] = q[k]
  OBVIOUS
<1>2. b \in Seq(FenceRequest) /\ Len(b) = n /\ b[n] = r /\ \A k \in DOMAIN q : b[k] = p[k]
  OBVIOUS
<1> HIDE DEF a, b, n
<1>3. CallsQueued(a) = CallsQueued(q) \cup {c}
  BY <1>1 DEF CallsQueued
<1>4. \A k \in DOMAIN a : Fits(b[k], a[k])
  BY <1>1, <1>2
<1> QED
  BY <1>1, <1>2, <1>3, <1>4 DEF a, b

LEMMA FenceTaken ==
  ASSUME NEW q \in Seq(FenceCommand), q # <<>>, NEW p \in Seq(FenceRequest),
         Len(p) = Len(q), \A k \in DOMAIN q : Fits(p[k], q[k])
  PROVE  /\ Tail(q) \in Seq(FenceCommand) /\ Head(q) \in FenceCommand
         /\ p # <<>> /\ Tail(p) \in Seq(FenceRequest) /\ Head(p) \in FenceRequest
         /\ CallsQueued(q) = CallsQueued(Tail(q)) \cup {Head(q)}
         /\ Fits(Head(p), Head(q)) /\ Len(Tail(p)) = Len(Tail(q))
         /\ \A k \in DOMAIN Tail(q) : Fits(Tail(p)[k], Tail(q)[k])
<1> DEFINE t == Tail(q)
           u == Tail(p)
<1>1. /\ Len(q) \in Nat \ {0} /\ DOMAIN q = 1..Len(q) /\ Head(q) = q[1] /\ Head(q) \in FenceCommand
      /\ t \in Seq(FenceCommand) /\ DOMAIN t = 1..(Len(q) - 1) /\ Len(t) = Len(q) - 1
      /\ \A k \in 1..(Len(q) - 1) : t[k] = q[k + 1]
  OBVIOUS
<1>2. /\ p # <<>> /\ Head(p) = p[1] /\ Head(p) \in FenceRequest
      /\ u \in Seq(FenceRequest) /\ Len(u) = Len(q) - 1
      /\ \A k \in 1..(Len(q) - 1) : u[k] = p[k + 1]
  BY <1>1
<1> HIDE DEF t, u
<1>3. \A k \in DOMAIN q : k = 1 \/ (k - 1 \in DOMAIN t /\ t[k - 1] = q[k])
  BY <1>1
<1>4. \A k \in DOMAIN t : k + 1 \in DOMAIN q /\ t[k] = q[k + 1] /\ u[k] = p[k + 1]
  BY <1>1, <1>2
<1>5. 1 \in DOMAIN q
  BY <1>1
<1>6. CallsQueued(q) = CallsQueued(t) \cup {Head(q)}
  <2>1. \A x \in CallsQueued(q) : x \in CallsQueued(t) \cup {Head(q)}
    BY <1>1, <1>3 DEF CallsQueued
  <2>2. \A x \in CallsQueued(t) \cup {Head(q)} : x \in CallsQueued(q)
    BY <1>1, <1>4, <1>5 DEF CallsQueued
  <2> QED  BY <2>1, <2>2
<1>7. Fits(Head(p), Head(q)) /\ \A k \in DOMAIN t : Fits(u[k], t[k])
  BY <1>1, <1>2, <1>4, <1>5
<1> QED
  BY <1>1, <1>2, <1>6, <1>7 DEF t, u

LEMMA QueuedTyped == ASSUME NEW q \in Seq(FenceCommand) PROVE CallsQueued(q) \subseteq FenceCommand
  BY DEF CallsQueued

\* BiDict: set and rmBySession.
LEMMA DictSet ==
  ASSUME NEW d \in BiDicts, NEW i \in FenceIds, NEW s \in Fence!Sessions, NEW e \in SUBSET Breaches
  PROVE  /\ Fence!set(d, i, s, e) \in BiDicts
         /\ \A j \in FenceIds : Fence!set(d, i, s, e).session[j] = IF j = i THEN s ELSE d.session[j]
         /\ \A t \in Fence!Sessions : /\ Fence!set(d, i, s, e).id[t] = IF t = s THEN i ELSE d.id[t]
                                      /\ Fence!set(d, i, s, e).ext[t] = IF t = s THEN e ELSE d.ext[t]
<1> DEFINE n == Fence!set(d, i, s, e)
<1>1. s \in Nat
  BY FenceAssumptions DEF Fence!Sessions
<1>2. n = [session |-> [d.session EXCEPT ![i] = s], id |-> [d.id EXCEPT ![s] = i], ext |-> [d.ext EXCEPT ![s] = e]]
  <2>1. d = [session |-> d.session, id |-> d.id, ext |-> d.ext]
    BY DEF BiDicts
  <2> DEFINE x == d.session
             y == d.id
             z == d.ext
  <2> HIDE DEF x, y, z
  <2>2. d = [session |-> x, id |-> y, ext |-> z]
    BY <2>1 DEF x, y, z
  <2>3. n.session = [x EXCEPT ![i] = s] /\ n.id = [y EXCEPT ![s] = i] /\ n.ext = [z EXCEPT ![s] = e]
    BY <2>2 DEF Fence!set
  <2>4. n = [f \in {"session", "id", "ext"} |-> n[f]]
    BY <2>2 DEF Fence!set
  <2> HIDE DEF n
  <2>5. n = [session |-> [x EXCEPT ![i] = s], id |-> [y EXCEPT ![s] = i], ext |-> [z EXCEPT ![s] = e]]
    BY <2>3, <2>4
  <2> QED  BY <2>5 DEF x, y, z
<1> HIDE DEF n
<1>3. d.session \in [FenceIds -> Nat] /\ d.id \in [Fence!Sessions -> FenceIds \cup {0}]
      /\ d.ext \in [Fence!Sessions -> SUBSET Breaches]
  BY DEF BiDicts
<1>4. n \in BiDicts
  BY <1>1, <1>2, <1>3 DEF BiDicts
<1> QED
  BY <1>2, <1>3, <1>4 DEF n

LEMMA DictRemove ==
  ASSUME NEW d \in BiDicts, NEW s \in Fence!Sessions, d.id[s] \in FenceIds
  PROVE  /\ Fence!rmBySession(d, s) \in BiDicts
         /\ \A j \in FenceIds : Fence!rmBySession(d, s).session[j] = IF j = d.id[s] THEN 0 ELSE d.session[j]
         /\ \A t \in Fence!Sessions : /\ Fence!rmBySession(d, s).id[t] = IF t = s THEN 0 ELSE d.id[t]
                                      /\ Fence!rmBySession(d, s).ext[t] = IF t = s THEN {} ELSE d.ext[t]
<1> DEFINE n == Fence!rmBySession(d, s)
<1>2. n = [session |-> [d.session EXCEPT ![d.id[s]] = 0], id |-> [d.id EXCEPT ![s] = 0], ext |-> [d.ext EXCEPT ![s] = {}]]
  <2>1. d = [session |-> d.session, id |-> d.id, ext |-> d.ext]
    BY DEF BiDicts
  <2> DEFINE x == d.session
             y == d.id
             z == d.ext
  <2> HIDE DEF x, y, z
  <2>2. d = [session |-> x, id |-> y, ext |-> z]
    BY <2>1 DEF x, y, z
  <2>3. n.session = [x EXCEPT ![y[s]] = 0] /\ n.id = [y EXCEPT ![s] = 0] /\ n.ext = [z EXCEPT ![s] = {}]
    BY <2>2 DEF Fence!rmBySession
  <2>4. n = [f \in {"session", "id", "ext"} |-> n[f]]
    BY <2>2 DEF Fence!rmBySession
  <2> HIDE DEF n
  <2>5. n = [session |-> [x EXCEPT ![y[s]] = 0], id |-> [y EXCEPT ![s] = 0], ext |-> [z EXCEPT ![s] = {}]]
    BY <2>3, <2>4
  <2> QED  BY <2>5 DEF x, y, z
<1> HIDE DEF n
<1>3. d.session \in [FenceIds -> Nat] /\ d.id \in [Fence!Sessions -> FenceIds \cup {0}]
      /\ d.ext \in [Fence!Sessions -> SUBSET Breaches]
  BY DEF BiDicts
<1>4. n \in BiDicts
  BY <1>2, <1>3 DEF BiDicts
<1> QED
  BY <1>2, <1>3, <1>4 DEF n

LEMMA DictEmpty ==
  /\ Fence!emptyBiDict \in BiDicts
  /\ \A j \in FenceIds : Fence!emptyBiDict.session[j] = 0
  /\ \A t \in Fence!Sessions : Fence!emptyBiDict.id[t] = 0 /\ Fence!emptyBiDict.ext[t] = {}
  BY DEF Fence!emptyBiDict, BiDicts

LEMMA FencesStart == Fence!Init => FenceInv
<1> SUFFICES ASSUME Fence!Init PROVE FenceInv
  OBVIOUS
<1>1. /\ mRequestQueue = <<>> /\ mGeofenceBiDict = Fence!emptyBiDict /\ fenceCommands = <<>>
      /\ fences = [s \in Fence!Sessions |-> "unknown"]
      /\ next = 0 /\ fenceResponse = None /\ breach = [session |-> 0, id |-> 0, wanted |-> TRUE]
      /\ fenceHasty = FALSE /\ wanted = [i \in FenceIds |-> {}]
  BY DEF Fence!Init
<1>2. <<>> \in Seq(FenceCommand) /\ <<>> \in Seq(FenceRequest) /\ Len(mRequestQueue) = Len(fenceCommands)
      /\ DOMAIN fenceCommands = {}
  BY <1>1
<1>3. CallsQueued(fenceCommands) = {} /\ Answered(fenceResponse) = {} /\ FencesCalled = {}
  BY <1>1, <1>2 DEF CallsQueued, Answered, FencesCalled
<1>4. wanted \in [FenceIds -> SUBSET Breaches] /\ fences = [s \in Fence!Sessions |-> fences[s]]
  BY <1>1
<1>5. FenceTypes
  <2>1. next \in Nat /\ next <= MaxFences
    BY <1>1, FenceAssumptions
  <2>2. fenceHasty \in BOOLEAN
    BY <1>1
  <2> QED  BY <1>1, <1>2, <1>3, <1>4, <2>1, <2>2, DictEmpty DEF FenceTypes
<1>6. RequestsFit
  BY <1>1, <1>2 DEF RequestsFit
<1>7. FenceDictAgrees(mGeofenceBiDict)
  BY <1>1, <1>3, DictEmpty DEF FenceDictAgrees
<1>8. FencesKnown
  BY <1>1, <1>3 DEF FencesKnown, Monitors
<1>9. Fence!BreachKnown
  BY <1>1 DEF Fence!BreachKnown
<1> QED
  BY <1>3, <1>5, <1>6, <1>7, <1>8, <1>9 DEF FenceInv

\* A call for id i that waits for an answer.
LEMMA AwaitedIs ==
  ASSUME FenceTypes, NEW i
  PROVE  Fence!Awaited(i) <=> \E c \in FencesCalled : c.of = i
<1>1. (\E k \in DOMAIN fenceCommands : fenceCommands[k].of = i) <=> \E c \in CallsQueued(fenceCommands) : c.of = i
  BY DEF CallsQueued
<1>2. (fenceResponse # None /\ fenceResponse.of = i) <=> \E c \in Answered(fenceResponse) : c.of = i
  <2>1. CASE fenceResponse = None
    BY <2>1 DEF Answered
  <2>2. CASE fenceResponse # None
    <3> DEFINE a == [kind |-> fenceResponse.kind, session |-> fenceResponse.session, of |-> fenceResponse.of]
    <3>1. a.of = fenceResponse.of
      OBVIOUS
    <3>2. Answered(fenceResponse) = {a}
      BY <2>2 DEF Answered
    <3> HIDE DEF a
    <3> QED  BY <2>2, <3>1, <3>2
  <2> QED  BY <2>1, <2>2
<1> QED
  BY <1>1, <1>2 DEF Fence!Awaited, FencesCalled

LEMMA AddFenceKeeps ==
  ASSUME FenceInv, NEW i \in FenceIds, NEW types \in SUBSET Breaches, Fence!geofenceAdd(i, types)
  PROVE  FenceInv'
<1> DEFINE s == next + 1
           c == [kind |-> "add", session |-> s, of |-> i]
           r == [kind |-> "add", removed |-> Fence!emptyBiDict]
<1>1. /\ FenceTypes /\ RequestsFit /\ FenceDictAgrees(mGeofenceBiDict) /\ (\A x \in FencesCalled : x.session <= next)
      /\ (~fenceHasty => FencesKnown) /\ Fence!BreachKnown
  BY DEF FenceInv
<1>2. /\ next < MaxFences /\ next' = s
      /\ fenceCommands' = Append(fenceCommands, c) /\ mRequestQueue' = Append(mRequestQueue, r)
      /\ mGeofenceBiDict' = Fence!set(mGeofenceBiDict, i, s, types)
      /\ wanted' = [wanted EXCEPT ![i] = types]
      /\ UNCHANGED <<fences, fenceResponse, breach>>
  BY DEF Fence!geofenceAdd, Fence!command, Fence!request, Fence!queueKept
<1>3. /\ fenceHasty' \in BOOLEAN
      /\ ~fenceHasty' => /\ ~fenceHasty /\ ~Fence!Awaited(i)
                         /\ mGeofenceBiDict.session[i] # 0 => fences[mGeofenceBiDict.session[i]] = "gone"
  BY <1>1 DEF Fence!geofenceAdd, FenceTypes
<1>4. s \in Fence!Sessions /\ s \in Nat /\ next \in Nat
  BY <1>1, <1>2, FenceAssumptions DEF Fence!Sessions, FenceTypes
<1>5. c \in FenceCommand /\ r \in FenceRequest /\ Fits(r, c)
  BY <1>4, DictEmpty DEF FenceCommand, FenceRequest, CallKinds, Fits
<1>6. c.session = s /\ c.of = i /\ c.kind = "add" /\ s = next + 1
  OBVIOUS
<1> HIDE DEF c, r, s
<1>7. /\ fenceCommands' \in Seq(FenceCommand) /\ mRequestQueue' \in Seq(FenceRequest)
      /\ CallsQueued(fenceCommands') = CallsQueued(fenceCommands) \cup {c}
      /\ Len(mRequestQueue') = Len(fenceCommands')
      /\ \A k \in DOMAIN fenceCommands' : Fits(mRequestQueue'[k], fenceCommands'[k])
  <2>1. /\ fenceCommands \in Seq(FenceCommand) /\ mRequestQueue \in Seq(FenceRequest)
        /\ Len(mRequestQueue) = Len(fenceCommands)
        /\ \A k \in DOMAIN fenceCommands : Fits(mRequestQueue[k], fenceCommands[k])
    BY <1>1 DEF FenceTypes, RequestsFit
  <2>2. /\ Append(fenceCommands, c) \in Seq(FenceCommand) /\ Append(mRequestQueue, r) \in Seq(FenceRequest)
        /\ CallsQueued(Append(fenceCommands, c)) = CallsQueued(fenceCommands) \cup {c}
        /\ Len(Append(mRequestQueue, r)) = Len(Append(fenceCommands, c))
        /\ \A k \in DOMAIN Append(fenceCommands, c) : Fits(Append(mRequestQueue, r)[k], Append(fenceCommands, c)[k])
    BY <1>5, <2>1, FenceAppended
  <2> QED  BY <1>2, <2>2
<1> DEFINE d == mGeofenceBiDict
           e == mGeofenceBiDict'
<1>8. /\ d \in BiDicts /\ e \in BiDicts
      /\ \A j \in FenceIds : e.session[j] = IF j = i THEN s ELSE d.session[j]
      /\ \A t \in Fence!Sessions : /\ e.id[t] = IF t = s THEN i ELSE d.id[t]
                                   /\ e.ext[t] = IF t = s THEN types ELSE d.ext[t]
  BY <1>1, <1>2, <1>4, DictSet DEF FenceTypes
<1>9. FencesCalled' = FencesCalled \cup {c} /\ FencesCalled \subseteq FenceCommand
  BY <1>1, <1>2, <1>7, QueuedTyped DEF FencesCalled, FenceTypes
<1>10. /\ wanted' \in [FenceIds -> SUBSET Breaches] /\ \A j \in FenceIds : wanted'[j] = IF j = i THEN types ELSE wanted[j]
  BY <1>1, <1>2 DEF FenceTypes
<1>11. FenceTypes'
  BY <1>1, <1>2, <1>3, <1>4, <1>6, <1>7, <1>8, <1>10, FenceAssumptions DEF FenceTypes
<1>12. RequestsFit'
  BY <1>1, <1>2, <1>7 DEF RequestsFit
<1>13. i # 0 /\ \A x \in FencesCalled : x.session # s /\ x.session \in Fence!Sessions /\ x.of \in FenceIds
  BY <1>1, <1>4, <1>6, <1>9, FenceAssumptions DEF FenceCommand, Fence!Sessions
<1>14. FenceDictAgrees(mGeofenceBiDict)'
  <2>1. \A j \in FenceIds : e.session[j] # 0 =>
          e.session[j] \in Fence!Sessions /\ e.session[j] <= next' /\ Knows(e, wanted', j, e.session[j])
    <3> SUFFICES ASSUME NEW j \in FenceIds, e.session[j] # 0
                 PROVE  e.session[j] \in Fence!Sessions /\ e.session[j] <= next' /\ Knows(e, wanted', j, e.session[j])
      OBVIOUS
    <3>1. CASE j = i
      BY <1>2, <1>4, <1>8, <1>10, <3>1 DEF Knows
    <3>2. CASE j # i
      <4>1. d.session[j] # 0 /\ e.session[j] = d.session[j]
        BY <1>8, <3>2
      <4>2. d.session[j] \in Fence!Sessions /\ d.session[j] <= next /\ Knows(d, wanted, j, d.session[j])
        BY <1>1, <4>1 DEF FenceDictAgrees
      <4>3. d.session[j] # s /\ d.session[j] <= next'
        BY <1>2, <1>4, <1>6, <4>2 DEF Fence!Sessions
      <4> QED  BY <1>8, <1>10, <3>2, <4>1, <4>2, <4>3 DEF Knows
    <3> QED  BY <3>1, <3>2
  <2>2. \A t \in Fence!Sessions : e.id[t] = 0 => e.ext[t] = {}
    BY <1>1, <1>8, <1>13 DEF FenceDictAgrees
  <2>3. \A x \in CallsQueued(fenceCommands') : x.kind = "remove" => e.id[x.session] = 0
    BY <1>1, <1>6, <1>7, <1>8, <1>13 DEF FenceDictAgrees, FencesCalled
  <2> QED  BY <2>1, <2>2, <2>3 DEF FenceDictAgrees
<1>15. \A x \in FencesCalled' : x.session <= next'
  BY <1>1, <1>2, <1>4, <1>6, <1>9, <1>13 DEF Fence!Sessions
<1>16. ASSUME ~fenceHasty' PROVE FencesKnown'
  <2>1. FencesKnown /\ \A x \in FencesCalled : x.of # i
    BY <1>1, <1>3, <1>16, AwaitedIs
  <2>2. \A x \in FencesCalled' : x.kind # "remove" => Knows(e, wanted', x.of, x.session)
    <3> SUFFICES ASSUME NEW x \in FencesCalled', x.kind # "remove" PROVE Knows(e, wanted', x.of, x.session)
      OBVIOUS
    <3>1. CASE x = c
      BY <1>4, <1>6, <1>8, <1>10, <3>1 DEF Knows
    <3>2. CASE x # c
      <4>1. x \in FencesCalled /\ Knows(d, wanted, x.of, x.session) /\ x.of # i
        BY <1>9, <2>1, <3>2 DEF FencesKnown
      <4> QED  BY <1>8, <1>10, <1>13, <4>1 DEF Knows
    <3> QED  BY <3>1, <3>2
  <2>3. \A t \in Fence!Sessions : Monitors(t)' /\ ~Leaves(t)' => e.id[t] # 0 /\ Knows(e, wanted', e.id[t], t)
    <3> SUFFICES ASSUME NEW t \in Fence!Sessions, Monitors(t)', ~Leaves(t)'
                 PROVE  e.id[t] # 0 /\ Knows(e, wanted', e.id[t], t)
      OBVIOUS
    <3>1. CASE t = s
      BY <1>8, <1>10, <1>13, <3>1 DEF Knows
    <3>2. CASE t # s
      <4>1. Monitors(t) /\ ~Leaves(t)
        BY <1>2, <1>7 DEF Monitors, Leaves
      <4>2. d.id[t] # 0 /\ Knows(d, wanted, d.id[t], t) /\ d.id[t] \in FenceIds
        BY <1>8, <2>1, <4>1 DEF FencesKnown, BiDicts
      <4>3. d.id[t] # i
        BY <1>3, <1>13, <1>16, <4>1, <4>2, FenceAssumptions DEF Knows, Monitors, Fence!Sessions
      <4> QED  BY <1>8, <1>10, <3>2, <4>2, <4>3 DEF Knows
    <3> QED  BY <3>1, <3>2
  <2> QED  BY <2>2, <2>3 DEF FencesKnown
<1>17. Fence!BreachKnown'
  BY <1>1, <1>2, <1>3 DEF Fence!BreachKnown, FenceTypes
<1> QED
  BY <1>11, <1>12, <1>14, <1>15, <1>16, <1>17 DEF FenceInv

LEMMA CallFenceKeeps ==
  ASSUME FenceInv, NEW kind \in {"remove", "pause", "resume"}, NEW i \in FenceIds, NEW types \in SUBSET Breaches,
         Fence!call(kind, i, types)
  PROVE  FenceInv'
<1> DEFINE d == mGeofenceBiDict
           e == mGeofenceBiDict'
           s == mGeofenceBiDict.session[i]
           c == [kind |-> kind, session |-> s, of |-> i]
           m == IF kind = "remove" THEN Fence!set(Fence!emptyBiDict, i, s, mGeofenceBiDict.ext[s]) ELSE Fence!emptyBiDict
           r == [kind |-> kind, removed |-> m]
<1>1. /\ FenceTypes /\ RequestsFit /\ FenceDictAgrees(mGeofenceBiDict) /\ (\A x \in FencesCalled : x.session <= next)
      /\ (~fenceHasty => FencesKnown) /\ Fence!BreachKnown
  BY DEF FenceInv
<1>2. /\ s > 0
      /\ fenceCommands' = Append(fenceCommands, c) /\ mRequestQueue' = Append(mRequestQueue, r)
      /\ mGeofenceBiDict' = CASE kind = "remove" -> Fence!rmBySession(mGeofenceBiDict, s)
                              [] kind = "resume" -> Fence!set(mGeofenceBiDict, i, s, types)
                              [] kind = "pause"  -> mGeofenceBiDict
      /\ wanted' = IF kind = "resume" THEN [wanted EXCEPT ![i] = types] ELSE wanted
      /\ fenceHasty' = (fenceHasty \/ Fence!Awaited(i))
      /\ UNCHANGED <<fences, next, fenceResponse, breach>>
  BY DEF Fence!call, Fence!command, Fence!request, Fence!removed
<1>3. d \in BiDicts /\ i # 0 /\ s \in Nat /\ s # 0
  BY <1>1, <1>2, FenceAssumptions DEF FenceTypes, BiDicts
<1>4. s \in Fence!Sessions /\ s <= next /\ Knows(d, wanted, i, s) /\ d.id[s] = i /\ d.ext[s] \in SUBSET Breaches
  BY <1>1, <1>3 DEF FenceDictAgrees, Knows, BiDicts
<1>5. c \in FenceCommand /\ r \in FenceRequest /\ Fits(r, c)
  <2>1. m \in BiDicts /\ (kind = "remove" => m.id[s] = i)
    BY <1>4, DictEmpty, DictSet
  <2> HIDE DEF m
  <2> QED  BY <1>4, <2>1 DEF FenceCommand, FenceRequest, CallKinds, Fits
<1>6. c.session = s /\ c.of = i /\ c.kind = kind
  OBVIOUS
<1> HIDE DEF c, r, m, s
<1>7. /\ fenceCommands' \in Seq(FenceCommand) /\ mRequestQueue' \in Seq(FenceRequest)
      /\ CallsQueued(fenceCommands') = CallsQueued(fenceCommands) \cup {c}
      /\ Len(mRequestQueue') = Len(fenceCommands')
      /\ \A k \in DOMAIN fenceCommands' : Fits(mRequestQueue'[k], fenceCommands'[k])
  <2>1. /\ fenceCommands \in Seq(FenceCommand) /\ mRequestQueue \in Seq(FenceRequest)
        /\ Len(mRequestQueue) = Len(fenceCommands)
        /\ \A k \in DOMAIN fenceCommands : Fits(mRequestQueue[k], fenceCommands[k])
    BY <1>1 DEF FenceTypes, RequestsFit
  <2>2. /\ Append(fenceCommands, c) \in Seq(FenceCommand) /\ Append(mRequestQueue, r) \in Seq(FenceRequest)
        /\ CallsQueued(Append(fenceCommands, c)) = CallsQueued(fenceCommands) \cup {c}
        /\ Len(Append(mRequestQueue, r)) = Len(Append(fenceCommands, c))
        /\ \A k \in DOMAIN Append(fenceCommands, c) : Fits(Append(mRequestQueue, r)[k], Append(fenceCommands, c)[k])
    BY <1>5, <2>1, FenceAppended
  <2> QED  BY <1>2, <2>2
\* What the call does to the dictionary: the entry leaves it, or has other breach types.
<1>8. /\ e \in BiDicts
      /\ \A j \in FenceIds : j # i => e.session[j] = d.session[j] /\ wanted'[j] = wanted[j]
      /\ \A t \in Fence!Sessions : t # s => e.id[t] = d.id[t] /\ e.ext[t] = d.ext[t]
      /\ kind = "remove" => e.session[i] = 0 /\ e.id[s] = 0 /\ e.ext[s] = {}
      /\ kind # "remove" => e.session[i] = s /\ Knows(e, wanted', i, s)
      /\ wanted' \in [FenceIds -> SUBSET Breaches]
  <2>0. wanted \in [FenceIds -> SUBSET Breaches]
    BY <1>1 DEF FenceTypes
  <2>1. CASE kind = "remove"
    <3>1. e = Fence!rmBySession(d, s) /\ wanted' = wanted
      BY <1>2, <2>1
    <3>2. /\ e \in BiDicts
          /\ \A j \in FenceIds : e.session[j] = IF j = i THEN 0 ELSE d.session[j]
          /\ \A t \in Fence!Sessions : /\ e.id[t] = IF t = s THEN 0 ELSE d.id[t]
                                       /\ e.ext[t] = IF t = s THEN {} ELSE d.ext[t]
      BY <1>3, <1>4, <3>1, DictRemove
    <3> QED  BY <1>4, <2>0, <2>1, <3>1, <3>2
  <2>2. CASE kind = "resume"
    <3>1. e = Fence!set(d, i, s, types) /\ wanted' = [wanted EXCEPT ![i] = types]
      BY <1>2, <2>2
    <3> QED  BY <1>3, <1>4, <2>0, <2>2, <3>1, DictSet DEF Knows
  <2>3. CASE kind = "pause"
    <3>1. e = d /\ wanted' = wanted
      BY <1>2, <2>3
    <3> QED  BY <1>3, <1>4, <2>0, <2>3, <3>1 DEF Knows
  <2> QED  BY <2>1, <2>2, <2>3
<1>9. /\ FencesCalled' = FencesCalled \cup {c} /\ FencesCalled \subseteq FenceCommand
      /\ \A x \in FencesCalled : x.session \in Fence!Sessions /\ x.of \in FenceIds
  BY <1>1, <1>2, <1>7, QueuedTyped DEF FencesCalled, FenceTypes, FenceCommand
<1>10. FenceTypes'
  BY <1>1, <1>2, <1>7, <1>8 DEF FenceTypes
<1>11. RequestsFit'
  BY <1>1, <1>2, <1>7 DEF RequestsFit
<1>12. FenceDictAgrees(mGeofenceBiDict)'
  <2>1. \A j \in FenceIds : e.session[j] # 0 =>
          e.session[j] \in Fence!Sessions /\ e.session[j] <= next' /\ Knows(e, wanted', j, e.session[j])
    <3> SUFFICES ASSUME NEW j \in FenceIds, e.session[j] # 0
                 PROVE  e.session[j] \in Fence!Sessions /\ e.session[j] <= next' /\ Knows(e, wanted', j, e.session[j])
      OBVIOUS
    <3>1. CASE j = i
      BY <1>2, <1>4, <1>8, <3>1
    <3>2. CASE j # i
      <4>1. /\ e.session[j] = d.session[j] /\ d.session[j] # 0
            /\ d.session[j] \in Fence!Sessions /\ d.session[j] <= next /\ Knows(d, wanted, j, d.session[j])
        BY <1>1, <1>8, <3>2 DEF FenceDictAgrees
      <4> QED  BY <1>2, <1>4, <1>8, <3>2, <4>1 DEF Knows
    <3> QED  BY <3>1, <3>2
  <2>2. \A t \in Fence!Sessions : e.id[t] = 0 => e.ext[t] = {}
    BY <1>1, <1>3, <1>8 DEF FenceDictAgrees, Knows
  <2>3. \A x \in CallsQueued(fenceCommands') : x.kind = "remove" => e.id[x.session] = 0
    <3>1. \A x \in CallsQueued(fenceCommands) : x.kind = "remove" => d.id[x.session] = 0 /\ x.session \in Fence!Sessions
      BY <1>1, <1>9 DEF FenceDictAgrees, FencesCalled
    <3> QED  BY <1>3, <1>4, <1>6, <1>7, <1>8, <3>1
  <2> QED  BY <2>1, <2>2, <2>3 DEF FenceDictAgrees
<1>13. \A x \in FencesCalled' : x.session <= next'
  BY <1>1, <1>2, <1>4, <1>6, <1>9
<1>14. ASSUME ~fenceHasty' PROVE FencesKnown'
  <2>1. FencesKnown /\ \A x \in FencesCalled : x.of # i
    BY <1>1, <1>2, <1>14, AwaitedIs
  <2>2. \A x \in FencesCalled' : x.kind # "remove" => Knows(e, wanted', x.of, x.session)
    <3> SUFFICES ASSUME NEW x \in FencesCalled', x.kind # "remove" PROVE Knows(e, wanted', x.of, x.session)
      OBVIOUS
    <3>1. CASE x = c
      BY <1>6, <1>8, <3>1
    <3>2. CASE x # c
      <4>1. x \in FencesCalled /\ Knows(d, wanted, x.of, x.session) /\ x.of # i
        BY <1>9, <2>1, <3>2 DEF FencesKnown
      <4> QED  BY <1>4, <1>8, <1>9, <4>1 DEF Knows
    <3> QED  BY <3>1, <3>2
  <2>3. \A t \in Fence!Sessions : Monitors(t)' /\ ~Leaves(t)' => e.id[t] # 0 /\ Knows(e, wanted', e.id[t], t)
    <3> SUFFICES ASSUME NEW t \in Fence!Sessions, Monitors(t)', ~Leaves(t)'
                 PROVE  e.id[t] # 0 /\ Knows(e, wanted', e.id[t], t)
      OBVIOUS
    <3>1. CASE t = s
      BY <1>3, <1>6, <1>7, <1>8, <3>1 DEF Knows, Leaves
    <3>2. CASE t # s
      <4>1. Monitors(t) /\ ~Leaves(t)
        BY <1>2, <1>7 DEF Monitors, Leaves
      <4>2. d.id[t] # 0 /\ Knows(d, wanted, d.id[t], t) /\ d.id[t] \in FenceIds
        BY <1>3, <2>1, <4>1 DEF FencesKnown, BiDicts
      <4> QED  BY <1>4, <1>8, <3>2, <4>2 DEF Knows
    <3> QED  BY <3>1, <3>2
  <2> QED  BY <2>2, <2>3 DEF FencesKnown
<1>15. Fence!BreachKnown'
  BY <1>1, <1>2 DEF Fence!BreachKnown, FenceTypes
<1> QED
  BY <1>10, <1>11, <1>12, <1>13, <1>14, <1>15 DEF FenceInv

\* The adapter answers the oldest command, which is still under way until the client has been told.
LEMMA AnswerFenceKeeps == ASSUME FenceInv, Fence!onCollectiveResponseCb PROVE FenceInv'
<1> DEFINE d == mGeofenceBiDict
           c == Head(fenceCommands)
<1>1. /\ FenceTypes /\ RequestsFit /\ FenceDictAgrees(mGeofenceBiDict) /\ (\A x \in FencesCalled : x.session <= next)
      /\ (~fenceHasty => FencesKnown) /\ Fence!BreachKnown
  BY DEF FenceInv
<1>2. /\ fenceResponse = None /\ fenceCommands # <<>> /\ fenceCommands' = Tail(fenceCommands)
      /\ UNCHANGED <<mGeofenceBiDict, next, breach, fenceHasty, wanted>>
  BY DEF Fence!onCollectiveResponseCb
<1>3. /\ fenceCommands' \in Seq(FenceCommand) /\ c \in FenceCommand
      /\ mRequestQueue # <<>> /\ Tail(mRequestQueue) \in Seq(FenceRequest)
      /\ CallsQueued(fenceCommands) = CallsQueued(fenceCommands') \cup {c}
      /\ Fits(Head(mRequestQueue), c) /\ Len(Tail(mRequestQueue)) = Len(fenceCommands')
      /\ \A k \in DOMAIN fenceCommands' : Fits(Tail(mRequestQueue)[k], fenceCommands'[k])
  <2>1. /\ fenceCommands \in Seq(FenceCommand) /\ mRequestQueue \in Seq(FenceRequest)
        /\ Len(mRequestQueue) = Len(fenceCommands)
        /\ \A k \in DOMAIN fenceCommands : Fits(mRequestQueue[k], fenceCommands[k])
    BY <1>1 DEF FenceTypes, RequestsFit
  <2> QED  BY <1>2, <2>1, FenceTaken
<1>4. /\ mRequestQueue' = Tail(mRequestQueue)
      /\ fenceResponse' = [kind |-> c.kind, session |-> c.session, of |-> c.of, request |-> Head(mRequestQueue)]
  BY <1>3 DEF Fence!onCollectiveResponseCb
<1>5. /\ fences' = [s \in Fence!Sessions |-> fences'[s]]
      /\ \A s \in Fence!Sessions : s # c.session => fences'[s] = fences[s]
      /\ c.kind = "remove" => fences'[c.session] \notin {"active", "paused"}
  <2>0. fences = [s \in Fence!Sessions |-> fences[s]] /\ c.session \in Fence!Sessions
    BY <1>1, <1>3 DEF FenceTypes, FenceCommand
  <2>1. PICK v : fences' = [fences EXCEPT ![c.session] = v] /\ (c.kind = "remove" => v \notin {"active", "paused"})
    <3>1. PICK ok \in BOOLEAN :
            fences' = IF ok THEN [fences EXCEPT ![c.session] = Fence!after(c.kind)]
                      ELSE [fences EXCEPT ![c.session] =
                        CASE c.kind = "add" -> "gone"
                          [] c.kind = "remove" /\ fences[c.session] \in {"active", "paused"} -> "left"
                          [] OTHER -> fences[c.session]]
      BY DEF Fence!onCollectiveResponseCb
    <3>2. c.kind = "remove" => Fence!after(c.kind) = "gone"
      BY DEF Fence!after
    <3> HIDE DEF c
    <3>3. CASE ok
      BY <3>1, <3>2, <3>3
    <3>4. CASE ~ok
      <4> DEFINE v == CASE c.kind = "add" -> "gone"
                        [] c.kind = "remove" /\ fences[c.session] \in {"active", "paused"} -> "left"
                        [] OTHER -> fences[c.session]
      <4>1. fences' = [fences EXCEPT ![c.session] = v]
        BY <3>1, <3>4
      <4>2. c.kind = "remove" => v \notin {"active", "paused"}
        OBVIOUS
      <4> HIDE DEF v
      <4> QED  BY <4>1, <4>2
    <3> QED  BY <3>3, <3>4
  <2> HIDE DEF c
  <2> QED  BY <2>0, <2>1
<1>6. c.session \in Fence!Sessions /\ c.of \in FenceIds /\ c.of # 0 /\ c \in FencesCalled
  BY <1>3, FenceAssumptions DEF FenceCommand, FencesCalled
<1>7. c = [kind |-> c.kind, session |-> c.session, of |-> c.of]
  BY <1>3 DEF FenceCommand
<1> HIDE DEF c
<1>8. Answered(fenceResponse') \subseteq {c}
  BY <1>4, <1>7 DEF Answered
<1>9. FencesCalled' \subseteq FencesCalled
  BY <1>2, <1>3, <1>8 DEF FencesCalled
<1>10. FenceTypes'
  BY <1>1, <1>2, <1>3, <1>4, <1>5, <1>8 DEF FenceTypes
<1>11. RequestsFit'
  BY <1>3, <1>4 DEF RequestsFit, Fits
<1>12. FenceDictAgrees(mGeofenceBiDict)'
  BY <1>1, <1>2, <1>3 DEF FenceDictAgrees
<1>13. ASSUME ~fenceHasty' PROVE FencesKnown'
  <2>1. FencesKnown
    BY <1>1, <1>2, <1>13
  <2>2. \A x \in FencesCalled' : x.kind # "remove" => Knows(d', wanted', x.of, x.session)
    BY <1>2, <1>9, <2>1 DEF FencesKnown
  <2>3. \A t \in Fence!Sessions : Monitors(t)' /\ ~Leaves(t)' => d'.id[t] # 0 /\ Knows(d', wanted', d'.id[t], t)
    <3> SUFFICES ASSUME NEW t \in Fence!Sessions, Monitors(t)', ~Leaves(t)'
                 PROVE  d.id[t] # 0 /\ Knows(d, wanted, d.id[t], t)
      BY <1>2
    <3>1. CASE t = c.session
      <4>1. Knows(d, wanted, c.of, c.session)
        BY <1>5, <1>6, <2>1, <3>1 DEF FencesKnown, Monitors
      <4> QED  BY <1>6, <3>1, <4>1 DEF Knows
    <3>2. CASE t # c.session
      BY <1>3, <1>5, <2>1, <3>2 DEF FencesKnown, Monitors, Leaves
    <3> QED  BY <3>1, <3>2
  <2> QED  BY <2>2, <2>3 DEF FencesKnown
<1>14. Fence!BreachKnown' /\ \A x \in FencesCalled' : x.session <= next'
  BY <1>1, <1>2, <1>9 DEF Fence!BreachKnown, FenceTypes
<1> QED
  BY <1>10, <1>11, <1>12, <1>13, <1>14 DEF FenceInv

LEMMA TellFenceKeeps == ASSUME FenceInv, Fence!onCollectiveResponse PROVE FenceInv'
<1>1. /\ FenceTypes /\ RequestsFit /\ FenceDictAgrees(mGeofenceBiDict) /\ (\A x \in FencesCalled : x.session <= next)
      /\ (~fenceHasty => FencesKnown) /\ Fence!BreachKnown
  BY DEF FenceInv
<1>2. /\ fenceResponse' = None
      /\ UNCHANGED <<mRequestQueue, mGeofenceBiDict, fenceCommands, fences, next, breach, fenceHasty, wanted>>
  BY DEF Fence!onCollectiveResponse
<1>3. Answered(fenceResponse') = {} /\ FencesCalled' \subseteq FencesCalled
  BY <1>2 DEF Answered, FencesCalled
<1>4. FenceTypes' /\ RequestsFit'
  BY <1>1, <1>2, <1>3 DEF FenceTypes, RequestsFit
<1>5. FenceDictAgrees(mGeofenceBiDict)' /\ (~fenceHasty' => FencesKnown')
  BY <1>1, <1>2, <1>3 DEF FenceDictAgrees, FencesKnown, Monitors, Leaves
<1>6. Fence!BreachKnown' /\ \A x \in FencesCalled' : x.session <= next'
  BY <1>1, <1>2, <1>3 DEF Fence!BreachKnown, FenceTypes
<1> QED
  BY <1>4, <1>5, <1>6 DEF FenceInv

\* A breach is told of a geofence that is subscribed to, so it is in the dictionary and its removal
\* is not under way.
LEMMA BreachFenceKeeps ==
  ASSUME FenceInv, NEW s \in Fence!Sessions, NEW type \in Breaches, Fence!beforeGeofenceBreachCb(s, type)
  PROVE  FenceInv'
<1> DEFINE i == mGeofenceBiDict.id[s]
<1>1. /\ FenceTypes /\ RequestsFit /\ FenceDictAgrees(mGeofenceBiDict) /\ (\A x \in FencesCalled : x.session <= next)
      /\ (~fenceHasty => FencesKnown)
  BY DEF FenceInv
<1>2. /\ fences[s] = "active" /\ type \in mGeofenceBiDict.ext[s]
      /\ breach' = [session |-> s, id |-> i, wanted |-> type \in wanted[i]]
      /\ UNCHANGED <<mRequestQueue, mGeofenceBiDict, fenceCommands, fences, next, fenceResponse, fenceHasty, wanted>>
  BY DEF Fence!beforeGeofenceBreachCb, Fence!subscribed
<1>3. FenceTypes' /\ RequestsFit' /\ FencesCalled' = FencesCalled
  BY <1>1, <1>2 DEF FenceTypes, RequestsFit, FencesCalled
<1>4. FenceDictAgrees(mGeofenceBiDict)' /\ (~fenceHasty' => FencesKnown')
  BY <1>1, <1>2, <1>3 DEF FenceDictAgrees, FencesKnown, Monitors, Leaves
<1>5. ASSUME ~fenceHasty PROVE i # 0 /\ type \in wanted[i]
  <2>1. i # 0
    BY <1>1, <1>2 DEF FenceDictAgrees
  <2>2. Monitors(s) /\ ~Leaves(s)
    BY <1>1, <1>2, <2>1 DEF Monitors, Leaves, FenceDictAgrees
  <2>3. Knows(mGeofenceBiDict, wanted, i, s)
    BY <1>1, <1>5, <2>2 DEF FencesKnown
  <2> QED  BY <1>2, <2>1, <2>3 DEF Knows
<1>6. Fence!BreachKnown'
  <2>1. breach'.id = i /\ breach'.wanted = (type \in wanted[i])
    BY <1>2
  <2> HIDE DEF i
  <2>2. CASE fenceHasty
    BY <1>2, <2>2 DEF Fence!BreachKnown
  <2>3. CASE ~fenceHasty
    BY <1>5, <2>1, <2>3 DEF Fence!BreachKnown
  <2> QED  BY <2>2, <2>3
<1> QED
  BY <1>1, <1>2, <1>3, <1>4, <1>6 DEF FenceInv

LEMMA FencesKept == FenceInv /\ [Fence!Next]_(Fence!vars) => FenceInv'
<1> SUFFICES ASSUME FenceInv, [Fence!Next]_(Fence!vars) PROVE FenceInv'
  OBVIOUS
<1>1. ASSUME NEW i \in FenceIds, NEW types \in SUBSET Breaches, Fence!geofenceAdd(i, types) PROVE FenceInv'
  BY <1>1, AddFenceKeeps
<1>2. ASSUME NEW i \in FenceIds, NEW types \in SUBSET Breaches, Fence!geofenceResume(i, types) PROVE FenceInv'
  BY <1>2, CallFenceKeeps DEF Fence!geofenceResume
<1>3. ASSUME NEW i \in FenceIds, Fence!geofencePause(i) PROVE FenceInv'
  BY <1>3, CallFenceKeeps DEF Fence!geofencePause
<1>4. ASSUME NEW i \in FenceIds, Fence!geofenceRemove(i) PROVE FenceInv'
  BY <1>4, CallFenceKeeps DEF Fence!geofenceRemove
<1>5. CASE UNCHANGED Fence!vars
  <2>1. UNCHANGED <<mRequestQueue, mGeofenceBiDict, fenceCommands, fences, next, fenceResponse, breach, fenceHasty, wanted>>
    BY <1>5 DEF Fence!vars
  <2>2. FenceTypes' /\ RequestsFit' /\ FencesCalled' = FencesCalled
    BY <2>1 DEF FenceInv, FenceTypes, RequestsFit, FencesCalled
  <2>3. FenceDictAgrees(mGeofenceBiDict)' /\ (~fenceHasty' => FencesKnown')
    BY <2>1, <2>2 DEF FenceInv, FenceDictAgrees, FencesKnown, Monitors, Leaves
  <2>4. Fence!BreachKnown' /\ \A x \in FencesCalled' : x.session <= next'
    BY <2>1, <2>2 DEF FenceInv, Fence!BreachKnown, FenceTypes
  <2> QED  BY <2>2, <2>3, <2>4 DEF FenceInv
<1> QED
  BY <1>1, <1>2, <1>3, <1>4, <1>5, AnswerFenceKeeps, TellFenceKeeps, BreachFenceKeeps DEF Fence!Next

LEMMA FencesAreNamed == FenceInv => Fence!GeofencesNamed
<1> SUFFICES ASSUME FenceInv PROVE Fence!GeofencesNamed
  OBVIOUS
<1>1. Fence!GeofenceAnswersMatch
  BY DEF FenceInv, RequestsFit, Fits, Fence!GeofenceAnswersMatch
<1>2. Fence!AnswersNameTheirGeofence
  <2> SUFFICES ASSUME fenceResponse # None, ~fenceHasty PROVE Fence!answeredId(fenceResponse) = fenceResponse.of
    BY DEF Fence!AnswersNameTheirGeofence
  <2> DEFINE c == [kind |-> fenceResponse.kind, session |-> fenceResponse.session, of |-> fenceResponse.of]
  <2>1. c \in FencesCalled /\ c.kind = fenceResponse.kind /\ c.session = fenceResponse.session /\ c.of = fenceResponse.of
    BY DEF FencesCalled, Answered
  <2> HIDE DEF c
  <2>2. Fits(fenceResponse.request, fenceResponse) /\ FencesKnown
    BY DEF FenceInv, RequestsFit
  <2>3. fenceResponse.kind # "remove" => mGeofenceBiDict.id[fenceResponse.session] = fenceResponse.of
    BY <2>1, <2>2 DEF FencesKnown, Knows
  <2> QED  BY <2>2, <2>3 DEF Fits, Fence!answeredId
<1>3. Fence!GeofenceReachable
  <2> SUFFICES ASSUME ~fenceHasty, NEW s \in Fence!Sessions, Monitors(s),
                      ~\E k \in DOMAIN fenceCommands : fenceCommands[k].session = s /\ fenceCommands[k].kind = "remove"
               PROVE  /\ mGeofenceBiDict.id[s] # 0
                      /\ mGeofenceBiDict.session[mGeofenceBiDict.id[s]] = s
                      /\ mGeofenceBiDict.ext[s] = wanted[mGeofenceBiDict.id[s]]
    BY DEF Fence!GeofenceReachable, Monitors
  <2>1. ~Leaves(s)
    BY DEF Leaves, CallsQueued
  <2> QED  BY <2>1 DEF FenceInv, FencesKnown, Knows
<1> QED
  BY <1>1, <1>2, <1>3 DEF FenceInv, Fence!GeofencesNamed

\* Adapter and framework mean the same geofence, in answers and in breaches, for any ids, breach
\* types and number of sessions and commands (LocationAPIClientBase, BiDict, beforeGeofenceBreachCb):
\* the property that the run clients checks, proved for every value of its constants.
THEOREM GeofencesStayNamed == ClientsSpec => []GeofencesNamed
<1> DEFINE I == part = "fences" => FenceInv
<1>1. ClientsInit => I
  BY FencesStart DEF ClientsInit
<1>2. I /\ [ClientsNext]_allVars => I'
  <2> SUFFICES ASSUME I, [ClientsNext]_allVars, part' = "fences" PROVE FenceInv'
    OBVIOUS
  <2>1. CASE part = "fences"
    <3>1. [Fence!Next]_(Fence!vars)
      BY <2>1 DEF ClientsNext, allVars, fenceVars, Fence!vars
    <3> QED  BY <2>1, <3>1, FencesKept
  <2>2. CASE part # "fences"
    BY <2>2 DEF ClientsNext, allVars
  <2> QED  BY <2>1, <2>2
<1>3. I => GeofencesNamed
  BY FencesAreNamed DEF GeofencesNamed
<1> QED
  BY <1>1, <1>2, <1>3, PTL DEF ClientsSpec
===============================================================================
