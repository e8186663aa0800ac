------------------------------ MODULE Reports ------------------------------
(***************************************************************************)
(* Positions, satellites and NMEA on their way from the engine to the      *)
(* clients (the report handlers of gps/gnss/GnssAdapter.cpp).              *)
(*                                                                         *)
(* The engine's thread offers a report to the ULP, which may take it and   *)
(* hand it back later as its own; any other report is posted to the        *)
(* message thread.  There a position that deserves it goes to the clients, *)
(* its satellites are remembered for the next satellite report, and NMEA   *)
(* sentences are made of both while somebody tracks.                       *)
(***************************************************************************)
EXTENDS Nmea, Functions

CONSTANTS Trackers,      \* the clients with a tracking callback
          Positions,     \* positions the engine reports
          Satellites,    \* satellite reports: sequences of [type, svId, used]
          INTERMEDIATE_POS,
          ByAp,          \* NMEA_PROVIDER is NMEA_PROVIDER_AP
          UlpListens,    \* a ULP proxy may take reports
          MaxReports     \* bound: reports of the engine

ReportAssumption ==
  /\ Satellites \subseteq Seq([type : Types, svId : Nat \ {0}, used : BOOLEAN])
  /\ \A p \in Positions : p.hasUsed \in BOOLEAN /\ p.used \in [Types -> SUBSET (1..64)]
  /\ INTERMEDIATE_POS \in BOOLEAN /\ MaxReports \in Nat

VARIABLES mTrackingSessions,   \* not empty
          mGnssSvIdUsedInPosAvail,
          mGnssSvIdUsedInPosition,
          msgs,          \* to the message thread
          ulp,           \* reports the ULP has taken
          sent,          \* reports of the engine so far
          log,           \* ghost: the reports handled, with what became of them
          nmea           \* sentences of the last report handled

vars == <<mTrackingSessions, mGnssSvIdUsedInPosAvail, mGnssSvIdUsedInPosition, msgs, ulp, sent, log, nmea>>
NoSvs == [t \in Types |-> {}]

-----------------------------------------------------------------------------
(***************************************************************************)
(* The engine's thread and the ULP.                                        *)
(***************************************************************************)
\* Mutant: the ULP's answer is taken for granted.
reportLost(r) ==
  \/ UlpListens /\ UNCHANGED <<ulp, msgs>>
  \/ msgs' = Append(msgs, r) /\ UNCHANGED ulp

report(r) ==
  \/ UlpListens /\ ulp' = Append(ulp, r) /\ UNCHANGED msgs
  \/ msgs' = Append(msgs, r) /\ UNCHANGED ulp

\* LocApiBase::reportPosition, with one GnssAdapter.
reportPositionEvent ==
  /\ sent < MaxReports
  /\ \E p \in Positions : report([n |-> sent + 1, kind |-> "position", p |-> p])
  /\ sent' = sent + 1
  /\ UNCHANGED <<mTrackingSessions, mGnssSvIdUsedInPosAvail, mGnssSvIdUsedInPosition, log, nmea>>

reportSvEvent ==
  /\ sent < MaxReports
  /\ \E svs \in Satellites : report([n |-> sent + 1, kind |-> "sv", svs |-> svs])
  /\ sent' = sent + 1
  /\ UNCHANGED <<mTrackingSessions, mGnssSvIdUsedInPosAvail, mGnssSvIdUsedInPosition, log, nmea>>

\* Mutant: a report the ULP gives back may be given to it again.
fromUlpAgain ==
  /\ ulp # <<>>
  /\ msgs' = Append(msgs, Head(ulp))
  /\ ulp' = IF msgs = <<>> THEN ulp ELSE Tail(ulp)
  /\ UNCHANGED <<mTrackingSessions, mGnssSvIdUsedInPosAvail, mGnssSvIdUsedInPosition, sent, log, nmea>>

fromUlp ==
  /\ ulp # <<>>
  /\ msgs' = Append(msgs, Head(ulp))
  /\ ulp' = Tail(ulp)
  /\ UNCHANGED <<mTrackingSessions, mGnssSvIdUsedInPosAvail, mGnssSvIdUsedInPosition, sent, log, nmea>>

(***************************************************************************)
(* The message thread.                                                     *)
(***************************************************************************)
\* Mutant: an intermediate fix is as good as a final one.
anyFix(p) == p.status # "FAILURE" /\ p.tech \cap {"SATELLITE", "SENSORS", "HYBRID"} # {}

needReport(p) ==
  \/ p.status = "SUCCESS" /\ p.tech \cap {"SATELLITE", "SENSORS", "HYBRID"} # {}
  \/ p.status = "INTERMEDIATE" /\ INTERMEDIATE_POS /\ p.accurate

makesNmea == ByAp /\ mTrackingSessions

reportPosition(r) ==
  LET reported == needReport(r.p) IN
  /\ IF reported /\ r.p.hasUsed
     THEN mGnssSvIdUsedInPosAvail' = TRUE /\ mGnssSvIdUsedInPosition' = r.p.used
     ELSE UNCHANGED <<mGnssSvIdUsedInPosAvail, mGnssSvIdUsedInPosition>>
  /\ nmea' = IF makesNmea THEN generate_pos(r.p, reported /\ ~r.p.blank) ELSE <<>>
  /\ log' = Append(log, [n |-> r.n, kind |-> "position", p |-> r.p,
                         to |-> IF reported THEN Trackers ELSE {}])

\* mask & (1 << (svId - 1)): 1 is an int of 32 bits, so that the last bit extends to those above
\* and a larger shift is undefined, which the caller resolves.
hits(mask, svId) ==
  \/ svId <= 31 /\ svId \in mask
  \/ svId = 32 /\ \E i \in mask : i >= 32

\* Mutant: the satellites of a position are kept for all reports that follow.
availKept == UNCHANGED mGnssSvIdUsedInPosAvail
availReset == mGnssSvIdUsedInPosAvail' = FALSE

\* marked: the satellites flagged as used in the fix; a flag the engine has set stays.
reportSv(r) ==
  LET mask(t) == IF mGnssSvIdUsedInPosAvail THEN mGnssSvIdUsedInPosition[t] ELSE {}
      renamed == [i \in DOMAIN r.svs |->
                    IF r.svs[i].type = "QZSS" THEN [r.svs[i] EXCEPT !.svId = @ + 192] ELSE r.svs[i]] IN
  /\ \E undefined \in SUBSET {i \in DOMAIN r.svs : r.svs[i].svId > 32} :
       log' = Append(log, [n |-> r.n, kind |-> "sv", svs |-> r.svs,
                           marked |-> undefined \union
                             {i \in DOMAIN r.svs : hits(mask(r.svs[i].type), r.svs[i].svId) \/ r.svs[i].used}])
  /\ nmea' = IF makesNmea THEN generate_sv(renamed) ELSE <<>>
  /\ availReset
  /\ UNCHANGED mGnssSvIdUsedInPosition

handle ==
  /\ msgs # <<>>
  /\ msgs' = Tail(msgs)
  /\ \/ Head(msgs).kind = "position" /\ reportPosition(Head(msgs))
     \/ Head(msgs).kind = "sv" /\ reportSv(Head(msgs))
  /\ UNCHANGED <<mTrackingSessions, ulp, sent>>

\* Sessions start and end between reports.
startOrStop ==
  /\ mTrackingSessions' = ~mTrackingSessions
  /\ UNCHANGED <<mGnssSvIdUsedInPosAvail, mGnssSvIdUsedInPosition, msgs, ulp, sent, log, nmea>>

-----------------------------------------------------------------------------
Init ==
  /\ mTrackingSessions = FALSE
  /\ mGnssSvIdUsedInPosAvail = FALSE
  /\ mGnssSvIdUsedInPosition = NoSvs
  /\ msgs = <<>>
  /\ ulp = <<>>
  /\ sent = 0
  /\ log = <<>>
  /\ nmea = <<>>

Next == reportPositionEvent \/ reportSvEvent \/ fromUlp \/ handle \/ startOrStop

Spec == Init /\ [][Next]_vars

-----------------------------------------------------------------------------
(***************************************************************************)
(* Properties.                                                             *)
(***************************************************************************)
\* The report handled last, and the sentences made of it.
Handled == log # <<>>
Newest == Last(log)
Sentences(id) == selected(nmea, {i \in DOMAIN nmea : nmea[i].id = id})

\* The positions handed to the clients since the last satellite report, and the satellites of a
\* constellation that the newest of them used.
PositionsSince ==
  {i \in 1..Len(log) - 1 :
     /\ log[i].kind = "position" /\ needReport(log[i].p) /\ log[i].p.hasUsed
     /\ \A k \in i..Len(log) - 1 : log[k].kind # "sv"}
UsedInNewest(t) == IF PositionsSince = {} THEN {} ELSE log[Max(PositionsSince)].p.used[t]

\* A satellite is flagged as used in the fix when the newest position handed to the clients since
\* the last satellite report says so, or the engine had flagged it, and only then
\* (GnssAdapter::reportPosition and reportSv, two handlers that share one flag and one mask).
\* Only for the numbers that fit the shift.  A flag of the engine is never cleared: MarkedOnlyIfUsed.
UsedInFixTruthful ==
  Handled /\ Newest.kind = "sv" =>
    \A i \in DOMAIN Newest.svs :
      Newest.svs[i].svId <= 31 =>
        (i \in Newest.marked <=> Newest.svs[i].used \/ Newest.svs[i].svId \in UsedInNewest(Newest.svs[i].type))

\* A satellite that the previous fix did not use is not flagged (GnssAdapter.cpp:2228: "else clear the
\* USED_IN_FIX flag").  The code only sets the flag: the engine's own stays.
MarkedOnlyIfUsed ==
  Handled /\ Newest.kind = "sv" =>
    \A i \in Newest.marked :
      Newest.svs[i].svId <= 31 => Newest.svs[i].svId \in UsedInNewest(Newest.svs[i].type)

\* However the ULP delays reports, each is in one place: handled, before the message thread or held by the
\* ULP (the return of reportPositionEvent when the ULP consumes it, the fromUlp argument of the handlers).
HandledOnce ==
  LET all == log \o msgs \o ulp IN
  Len(all) = sent /\ {all[i].n : i \in DOMAIN all} = 1..sent

\* Clients get no position that is neither a final fix by satellites or sensors nor an
\* intermediate one the configuration accepts, and none of a failed session (needReport).
OnlyGoodFixes ==
  \A i \in DOMAIN log : log[i].kind = "position" /\ log[i].to # {} =>
    \/ log[i].p.status = "SUCCESS" /\ log[i].p.tech \cap {"SATELLITE", "SENSORS", "HYBRID"} # {}
    \/ log[i].p.status = "INTERMEDIATE" /\ INTERMEDIATE_POS

\* The GSV sentences of a report list every satellite of the three constellations that have a
\* talker of their own once, at most four a sentence, numbered from one to the number of sentences
\* (loc_nmea_generate_GSV splits and counts separately).
GsvListsAll ==
  Handled /\ Newest.kind = "sv" /\ nmea # <<>> =>
    \A t \in {"GPS", "GLONASS", "GALILEO"} :
      LET talker == [GPS |-> "GP", GLONASS |-> "GL", GALILEO |-> "GA"][t]
          own    == ofType(Newest.svs, t)
          gsv    == selected(nmea, {i \in DOMAIN nmea : nmea[i].talker = talker}) IN
      /\ FlattenSeq([i \in DOMAIN gsv |-> gsv[i].svs])
           = [i \in DOMAIN own |-> own[i].svId + (IF t = "GLONASS" THEN 64 ELSE 0)]
      /\ \A i \in DOMAIN gsv : gsv[i].number = i /\ gsv[i].of = Len(gsv) /\ Len(gsv[i].svs) <= 4

\* The number of satellites GGA gives is what the GSA sentences list, as long as no sentence is
\* full, and the satellites of GPS, GLONASS and Galileo are listed under their own system
\* (loc_nmea_generate_pos; those of QZSS and BeiDou are under one another's).
GgaCountsGsa ==
  Handled /\ Newest.kind = "position" /\ Sentences("GGA") # <<>> =>
    LET gsa    == Sentences("GSA")
        listed == Len(FlattenSeq([i \in DOMAIN gsa |-> gsa[i].svs]))
        gga    == Sentences("GGA")[1] IN
    /\ (\A i \in DOMAIN gsa : Len(gsa[i].svs) < 12) => gga.svUsedCount = Min({12, listed})
    /\ gga.quality # 0 => \A i \in DOMAIN gsa : gsa[i].systemId \in 1..3 =>
         Range(gsa[i].svs) \subseteq
           {n + (IF gsa[i].systemId = 2 THEN 64 ELSE 0) : n \in Newest.p.used[Constellations[gsa[i].systemId]]}

\* VTG, RMC and GGA of one fix have one talker, GN exactly when satellites of several
\* constellations are used.  Premise: one of GPS, GLONASS and Galileo is (loc_nmea_generate_pos:
\* QZSS and BeiDou alone leave the talker at GP).
TalkerSaysCombined ==
  Handled /\ Newest.kind = "position" /\ Sentences("GGA") # <<>> /\ nmea # blank =>
    LET used == usedMasks(Newest.p) IN
    \A t \in {"GPS", "GLONASS", "GALILEO"} : used[t] # {} =>
      (Sentences("GGA")[1].talker = "GN" <=> \E x \in Types \ {t} : used[x] # {})

\* What clients are told of positions and satellites.
ReportsTruthful == UsedInFixTruthful /\ HandledOnce /\ OnlyGoodFixes

\* The sentences of one report agree with it and with each other.
SentencesAgree == GsvListsAll /\ GgaCountsGsa /\ TalkerSaysCombined
=============================================================================
