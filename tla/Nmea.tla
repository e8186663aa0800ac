-------------------------------- MODULE Nmea --------------------------------
(***************************************************************************)
(* NMEA sentences made of position and satellite reports                   *)
(* (gps/utils/loc_nmea.cpp).                                               *)
(*                                                                         *)
(* A sentence is the record of the fields that depend on one another;      *)
(* figures that are only printed, and the checksum, are left out.  A mask  *)
(* of satellites is the set of the numbers of its bits, the lowest is 1.   *)
(***************************************************************************)
EXTENDS Integers, Sequences, FiniteSets, FiniteSetsExt, SequencesExt

Constellations == <<"GPS", "GLONASS", "GALILEO", "QZSS", "BEIDOU">>
Types == Range(Constellations)
GLONASS_SV_ID_OFFSET == 64
MAX_SATELLITES_IN_USE == 12

\* used and count give a mask and a number for each constellation.
sv_meta_init(used, count, svType, needCombine) ==
  [svType |-> svType,
   talker |-> IF needCombine /\ Cardinality({t \in Types : used[t] # {}}) > 1 THEN "GN"
              ELSE [GPS |-> "GP", GLONASS |-> "GL", GALILEO |-> "GA", QZSS |-> "PQ", BEIDOU |-> "PQ"][svType],
   mask |-> used[svType],
   svCount |-> count[svType],
   svIdOffset |-> IF svType = "GLONASS" THEN GLONASS_SV_ID_OFFSET ELSE 0,
   signalId |-> [GPS |-> 1, GLONASS |-> 1, GALILEO |-> 7, QZSS |-> 0, BEIDOU |-> 0][svType],
   systemId |-> [GPS |-> 1, GLONASS |-> 2, GALILEO |-> 3, BEIDOU |-> 4, QZSS |-> 5][svType]]

\* The elements of s at the places in I, in their order.
selected(s, I) ==
  LET upTo[n \in 0..Len(s)] ==
        IF n = 0 THEN <<>> ELSE IF n \in I THEN Append(upTo[n - 1], s[n]) ELSE upTo[n - 1]
  IN upTo[Len(s)]

ofType(svs, svType) == selected(svs, {i \in DOMAIN svs : svs[i].type = svType})

generate_GSA(meta) ==
  LET bits       == selected([i \in 1..32 |-> i], meta.mask)
      svUsedList == [i \in DOMAIN bits |-> bits[i] + meta.svIdOffset]
      svUsedCount == Len(bits) IN
  IF svUsedCount = 0 /\ meta.svType # "GPS" THEN <<>>
  ELSE <<[id |-> "GSA", talker |-> meta.talker, systemId |-> meta.systemId,
          fixType |-> IF svUsedCount = 0 THEN 1 ELSE IF svUsedCount <= 3 THEN 2 ELSE 3,
          svs |-> SubSeq(svUsedList, 1, Min({12, svUsedCount}))]>>

\* Mutant: the last sentence is only written when it is full.
fullOnly(svCount) == svCount \div 4

sentenceCount(svCount) == svCount \div 4 + (IF svCount % 4 # 0 THEN 1 ELSE 0)

\* svs: the satellites of the report, of all constellations.
generate_GSV(svs, meta) ==
  LET own == ofType(svs, meta.svType)
      n   == sentenceCount(meta.svCount) IN
  IF meta.svCount = 0
  THEN <<[id |-> "GSV", talker |-> meta.talker, of |-> 1, number |-> 1, svCount |-> 0, svs |-> <<>>]>>
  ELSE [i \in 1..n |->
         [id |-> "GSV", talker |-> meta.talker, of |-> n, number |-> i, svCount |-> meta.svCount,
          svs |-> [k \in 1..Min({4, Len(own) - 4 * (i - 1)}) |->
                     own[4 * (i - 1) + k].svId + meta.svIdOffset]]]

\* Mode of VTG and RMC and quality of GGA.
mode(p) == CASE ~p.latLong -> "N"
             [] p.latLong /\ p.differential -> "D"
             [] p.latLong /\ ~p.differential /\ p.tech = {"SENSORS"} -> "E"
             [] p.latLong /\ ~p.differential /\ p.tech # {"SENSORS"} -> "A"
gpsQuality(p) == [N |-> 0, D |-> 2, E |-> 6, A |-> 1][mode(p)]

VTG(talker, p) == [id |-> "VTG", talker |-> talker, mode |-> mode(p)]
RMC(talker, p) == [id |-> "RMC", talker |-> talker, mode |-> mode(p)]
GGA(talker, p, svUsedCount) ==
  [id |-> "GGA", talker |-> talker, quality |-> gpsQuality(p),
   svUsedCount |-> Min({MAX_SATELLITES_IN_USE, svUsedCount})]

\* The masks hold 64 bits and are read as 32; QZSS reads the mask of BeiDou and BeiDou that of QZSS.
usedMasks(p) ==
  LET source == [t \in Types |-> CASE t = "QZSS" -> "BEIDOU" [] t = "BEIDOU" -> "QZSS"
                                   [] t \notin {"QZSS", "BEIDOU"} -> t] IN
  [t \in Types |-> IF p.hasUsed THEN {i \in p.used[source[t]] : i <= 32} ELSE {}]

\* Mutant: the talker of a constellation stays its own in a combined fix.
talkerAlone(used) ==
  LET with == {i \in 1..3 : used[Constellations[i]] # {}} IN
  IF with = {} THEN "GP"
  ELSE sv_meta_init(used, [t \in Types |-> 0], Constellations[Max(with)], FALSE).talker

\* The talker of VTG, RMC and GGA: the one of the last GSA of the first three with satellites.
talkerOf(used) ==
  LET with == {i \in 1..3 : used[Constellations[i]] # {}} IN
  IF with = {} THEN "GP"
  ELSE sv_meta_init(used, [t \in Types |-> 0], Constellations[Max(with)], TRUE).talker

\* Mutant: QZSS and BeiDou do not count.
countOfThree(used) == Cardinality(used["GPS"]) + Cardinality(used["GLONASS"]) + Cardinality(used["GALILEO"])

countUsed(used) ==
  Cardinality(used["GPS"]) + Cardinality(used["GLONASS"]) + Cardinality(used["GALILEO"])
  + Cardinality(used["QZSS"]) + Cardinality(used["BEIDOU"])

blank == <<[id |-> "GSA", talker |-> "GP", systemId |-> 0, fixType |-> 1, svs |-> <<>>],
           [id |-> "GSA", talker |-> "GN", systemId |-> 0, fixType |-> 1, svs |-> <<>>],
           [id |-> "GSA", talker |-> "PQ", systemId |-> 0, fixType |-> 1, svs |-> <<>>],
           [id |-> "VTG", talker |-> "GP", mode |-> "N"],
           [id |-> "RMC", talker |-> "GP", mode |-> "N"],
           [id |-> "GGA", talker |-> "GP", quality |-> 0, svUsedCount |-> 0]>>

generate_pos(p, generate_nmea) ==
  LET used   == usedMasks(p)
      gsa(t) == generate_GSA(sv_meta_init(used, [x \in Types |-> 0], t, t \notin {"QZSS", "BEIDOU"}))
      talker == talkerOf(used) IN
  IF generate_nmea
  THEN gsa("GPS") \o gsa("GLONASS") \o gsa("GALILEO") \o gsa("QZSS") \o gsa("BEIDOU")
       \o <<VTG(talker, p), RMC(talker, p), GGA(talker, p, countUsed(used))>>
  ELSE blank

generate_sv(svs) ==
  LET none   == [t \in Types |-> {}]
      count  == [t \in Types |-> Len(ofType(svs, t))]
      gsv(t) == generate_GSV(svs, sv_meta_init(none, count, t, FALSE)) IN
  gsv("GPS") \o gsv("GLONASS") \o gsv("GALILEO") \o gsv("QZSS") \o gsv("BEIDOU")
=============================================================================
