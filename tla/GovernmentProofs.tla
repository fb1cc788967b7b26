-------------------------- MODULE GovernmentProofs --------------------------
(***************************************************************************)
(* What is proved of the jobs of government data: the daily averages of    *)
(* station streams and the ingest of the EEA.                              *)
(***************************************************************************)
EXTENDS Government, Extrema

-----------------------------------------------------------------------------
(* The parts. *)

\* A step of a behaviour is a step of the part it is about.
LEMMA GovernmentSteps ==
  ASSUME [GovernmentNext]_all
  PROVE  /\ part' = part
         /\ part \in AveragesParts => [Averages!Next]_(Averages!vars)
         /\ part \in EeaParts => [Eea!Next]_(Eea!vars)
<1>1. CASE UNCHANGED all
  <2>1. UNCHANGED Averages!vars
    BY <1>1 DEF all, Averages!vars, Averages!importing, Averages!calculating,
      Averages!rebuilding, Averages!streams
  <2>2. UNCHANGED Eea!vars
    BY <1>1 DEF all, Eea!vars, Eea!disk, Eea!staging, Eea!stored, Eea!memory
  <2>3. part' = part
    BY <1>1 DEF all
  <2> QED
    BY <2>1, <2>2, <2>3
<1>2. CASE GovernmentNext
  BY <1>2, GovernmentConstants DEF GovernmentNext, AveragesPart, EeaPart
<1> QED
  BY <1>1, <1>2

\* A part's minimum is the library's.
LEMMA StationMinOfNaturals ==
  ASSUME NEW S \in SUBSET Nat, S # {}
  PROVE  /\ Averages!Min(S) \in S
         /\ \A y \in S : Averages!Min(S) <= y
BY MinOfNaturals DEF Averages!Min, Min

LEMMA EeaMinOfNaturals ==
  ASSUME NEW S \in SUBSET Nat, S # {}
  PROVE  /\ Eea!Min(S) \in S
         /\ \A y \in S : Eea!Min(S) <= y
BY MinOfNaturals DEF Eea!Min, Min

-----------------------------------------------------------------------------
(* The daily averages of station streams. *)

StationGroup == [zone : Averages!Zones, streams : SUBSET Streams]
StationHistory == [zone : Averages!Zones, streams : SUBSET Streams, first : SUBSET Averages!Instants]
StationSteps == {"idle", "upserting", "updating", "pushing", "creating", "done", "dead"}

StationImportTypes ==
  /\ ipc \in [Imports -> StationSteps]
  /\ row \in [Imports -> Points \cup {Nowhere}]
  /\ changes \in [Imports -> SUBSET Streams]
  /\ rezoned \in [Imports -> SUBSET Streams]
StationCalculatorTypes ==
  /\ cpc \in [Calculators -> {"idle", "averaging"}]
  /\ todo \in [Calculators -> SUBSET StationGroup]
  /\ picked \in [Calculators -> SUBSET Streams]
StationRebuildTypes ==
  /\ rpc \in [Rebuilds -> {"none", "queued", "rebuilding", "done", "dead"}]
  /\ asked \in [Rebuilds -> SUBSET Streams]
  /\ groups \in [Rebuilds -> SUBSET StationHistory]
  /\ open \in [Rebuilds -> SUBSET StationHistory]
  /\ doomed \in [Rebuilds -> SUBSET (Streams \X Averages!Days)]
StationRowTypes ==
  /\ now \in Averages!Instants
  /\ station \in Points \cup {Nowhere}
  /\ point \in [Streams -> Points \cup {Nowhere}]
  /\ measured \in [Streams -> [Averages!Instants -> Nat]]
  /\ fresh \in [Streams -> {"new", "recent", "old"}]
  /\ daily \in [Streams -> [Averages!Days -> SUBSET (Averages!Instants \X Nat)]]
  /\ misled \in SUBSET Streams
  /\ faults \in Nat
StationTypeOK ==
  /\ StationImportTypes
  /\ StationCalculatorTypes
  /\ StationRebuildTypes
  /\ StationRowTypes

\* Imports run one after the other.
StationSequential ==
  \A i \in Imports : ipc[i] # "idle" =>
    /\ row[i] \in Points
    /\ \A j \in Imports : j < i => ipc[j] \in {"done", "dead"}

\* What the import under way knows of the streams.
StationSits ==
  \A i \in Imports :
    /\ ipc[i] = "updating" =>
         /\ station = row[i] /\ changes[i] = Averages!Changed(row[i])
         /\ rezoned[i] = Averages!Rezoned(row[i])
    /\ ipc[i] \in {"pushing", "creating"} => \A s \in Averages!Stored : point[s] = row[i]
    /\ ipc[i] \in {"pushing", "creating"} => station = row[i]
    /\ ipc[i] = "done" /\ (\A j \in Imports : j > i => ipc[j] = "idle") =>
         \A s \in Streams : point[s] = station

\* Nobody has to do with streams that are not stored, or with others than he was told.
StationKnown ==
  /\ \A i \in Imports : rezoned[i] \subseteq Averages!Stored
  /\ \A i \in Imports : rezoned[i] # {} => ipc[i] \in {"updating", "pushing", "dead"}
  /\ \A c \in Calculators : picked[c] \subseteq Averages!Stored
  /\ \A c \in Calculators : \A g \in todo[c] : g.streams \subseteq Averages!Stored
  /\ \A c \in Calculators : cpc[c] = "idle" => picked[c] = {} /\ todo[c] = {}
  /\ \A r \in Rebuilds : rpc[r] # "none" => asked[r] \subseteq Averages!Stored
  /\ \A r \in Rebuilds : \A g \in groups[r] : g.streams \subseteq asked[r]
  /\ \A r \in Rebuilds : open[r] \subseteq groups[r]
  /\ \A r \in Rebuilds : \A g, h \in open[r] : g = h
  /\ \A r \in Rebuilds : rpc[r] # "rebuilding" => groups[r] = {}
  /\ \A r \in Rebuilds : \A s \in Streams : \A d \in Averages!Days :
       <<s, d>> \in doomed[r] => \E g \in open[r] : s \in g.streams

\* Nothing is measured of a stream that is not stored, or in the future.
StationMeasured ==
  /\ \A s \in Streams : \A t \in Averages!Instants :
       measured[s][t] # 0 => s \in Averages!Stored /\ t <= now
  /\ \A s \in Streams \ Averages!Stored : \A d \in Averages!Days : daily[s][d] = {}

\* A rebuild goes back behind all measurements of its streams, if it knows of any.
StationBegins ==
  \A r \in Rebuilds : \A g \in groups[r] : g.first # {} =>
    /\ Averages!Min(g.first) <= now
    /\ \A s \in g.streams : \A t \in Averages!Instants :
         measured[s][t] # 0 => t > Averages!Min(g.first) - DayLength

\* Streams whose zone has changed and whose averages of before nobody has yet deleted.
StationOwed(s) ==
  \/ \E i \in Imports : ipc[i] \in {"pushing", "dead"} /\ s \in rezoned[i]
  \/ \E r \in Rebuilds : rpc[r] \in {"queued", "dead"} /\ s \in asked[r]
  \/ \E r \in Rebuilds : \E g \in groups[r] \ open[r] : s \in g.streams
StationUnderway(s) == \E r \in Rebuilds : \E g \in open[r] : s \in g.streams
StationDoomed(s, d) == \E r \in Rebuilds : <<s, d>> \in doomed[r]

\* The first day of a stream that a calculation averages.
StationRecently(s) == Averages!Day(Averages!RecentSince(Averages!Zone(s)) + 1, Averages!Zone(s))

\* There is no average of a date without measurements, but one about to be deleted;
StationStrays(s) == \A d \in Averages!Days : daily[s][d] # {} /\ Averages!True(s,
  d) = {} => StationDoomed(s, d)

\* every other average is true, or the next calculation will see to it;
StationWhole(s) ==
  \A d \in Averages!Days : Averages!True(s, d) # {} =>
    daily[s][d] = Averages!True(s, d) \/ (fresh[s] = "new" /\ d >= StationRecently(s))

\* and what a calculation that is through, or half way, has averaged is true.
StationHasAveraged(c, s) == s \in picked[c] /\ \A g \in todo[c] : s \notin g.streams
StationCounted(s) == fresh[s] = "recent" \/ \E c \in Calculators : StationHasAveraged(c, s)
StationLately(s) ==
  \A d \in Averages!Days : Averages!True(s,
    d) # {} /\ d >= StationRecently(s) => daily[s][d] = Averages!True(s, d)

StationTruthful(s) ==
  /\ ~StationOwed(s) => StationStrays(s)
  /\ ~StationOwed(s) /\ ~StationUnderway(s) => StationWhole(s)
  /\ StationCounted(s) => StationLately(s)
StationAllTruthful == \A s \in Averages!Stored \ misled : StationTruthful(s)

StationIInv ==
  /\ StationTypeOK
  /\ StationSequential
  /\ StationSits
  /\ StationKnown
  /\ StationMeasured
  /\ StationBegins
  /\ StationAllTruthful

-----------------------------------------------------------------------------
(* Days. *)

LEMMA StationDivMod ==
  ASSUME NEW a \in Int, NEW n \in Nat \ {0}
  PROVE  /\ a \div n \in Int /\ a % n \in 0..(n - 1)
         /\ a = n * (a \div n) + (a % n)
OBVIOUS

LEMMA StationApart ==
  ASSUME NEW x \in Int, NEW y \in Int, NEW n \in Nat, x < y
  PROVE  n * x + n <= n * y
<1>1. n * (y - x - 1) >= 0
  <2>1. y - x - 1 \in Nat
    OBVIOUS
  <2> QED
    BY <2>1
<1>2. n * (y - x - 1) = n * y - n * x - n
  OBVIOUS
<1> DEFINE a == n * x
           b == n * y
<1>3. a \in Int /\ b \in Int
  OBVIOUS
<1> HIDE DEF a, b
<1> QED
  BY <1>1, <1>2, <1>3 DEF a, b

LEMMA StationAtLeastOnce ==
  ASSUME NEW k \in Nat \ {0}, NEW n \in Nat
  PROVE  k * n >= n /\ k * n \in Nat
<1>1. (k - 1) * n >= 0
  <2>1. k - 1 \in Nat
    OBVIOUS
  <2> QED
    BY <2>1
<1>2. (k - 1) * n = k * n - n
  OBVIOUS
<1> QED
  BY <1>1, <1>2

LEMMA StationZonesAre ==
  ASSUME Averages!AveragesAssumption, NEW z \in Averages!Zones
  PROVE  Offset[z] \in Nat /\ DayLength \in Nat \ {0}
BY DEF Averages!AveragesAssumption

\* A day begins at a boundary: what comes after its beginning is of that day or a later
\* one, and what is of an earlier day comes before.
LEMMA StationDayBegins ==
  ASSUME Averages!AveragesAssumption, NEW z \in Averages!Zones, NEW x \in Int, NEW u \in Int
  PROVE  /\ Averages!BeginningOfDay(x, z) \in Int /\ Averages!BeginningOfDay(x, z) <= x
         /\ Averages!Day(u, z) \in Int
         /\ u > Averages!BeginningOfDay(x, z) <=> Averages!Day(u,
              z) >= Averages!Day(Averages!BeginningOfDay(x, z) + 1, z)
<1> DEFINE n == DayLength
           o == Offset[z]
           q == (x + o) \div n
           k == (u + o - 1) \div n
           m == (x + o - ((x + o) % n)) \div n
<1>1. o \in Nat /\ n \in Nat \ {0}
  BY StationZonesAre
<1> HIDE DEF n, o
<1>2. q \in Int /\ (x + o) % n \in 0..(n - 1) /\ x + o = n * q + ((x + o) % n)
  BY <1>1, StationDivMod
<1>3. k \in Int /\ (u + o - 1) % n \in 0..(n - 1) /\ u + o - 1 = n * k + ((u + o - 1) % n)
  BY <1>1, StationDivMod
<1>4. m = q
  <2> DEFINE e == x + o - ((x + o) % n)
  <2>1. e \in Int /\ e = n * q
    BY <1>1, <1>2
  <2>2. e \div n \in Int /\ e % n \in 0..(n - 1) /\ e = n * (e \div n) + (e % n)
    BY <1>1, <2>1, StationDivMod
  <2> HIDE DEF q, e
  <2> DEFINE l == e \div n
  <2>3. l \in Int /\ e = n * l + (e % n)
    BY <2>2
  <2> HIDE DEF l
  <2>4. ~(l < q)
    <3> SUFFICES ASSUME l < q PROVE FALSE
      OBVIOUS
    <3>1. n * l + n <= n * q
      BY <1>1, <1>2, <2>3, StationApart
    <3> DEFINE a == n * l
               b == n * q
    <3>2. a \in Int /\ b \in Int
      BY <1>1, <1>2, <2>3
    <3>3. a + n <= b /\ e = b /\ e = a + (e % n)
      BY <2>1, <2>3, <3>1
    <3> HIDE DEF a, b
    <3> QED
      BY <1>1, <2>2, <3>2, <3>3
  <2>5. ~(q < l)
    <3> SUFFICES ASSUME q < l PROVE FALSE
      OBVIOUS
    <3>1. n * q + n <= n * l
      BY <1>1, <1>2, <2>3, StationApart
    <3> DEFINE a == n * l
               b == n * q
    <3>2. a \in Int /\ b \in Int
      BY <1>1, <1>2, <2>3
    <3>3. b + n <= a /\ e = b /\ e = a + (e % n)
      BY <2>1, <2>3, <3>1
    <3> HIDE DEF a, b
    <3> QED
      BY <1>1, <2>2, <3>2, <3>3
  <2> QED
    BY <1>2, <2>1, <2>3, <2>4, <2>5 DEF l, e
<1>5. /\ Averages!BeginningOfDay(x, z) = x - ((x + o) % n)
      /\ Averages!Day(u, z) = k
      /\ Averages!Day(Averages!BeginningOfDay(x, z) + 1, z) = m
  <2>1. x - ((x + o) % n) + 1 + o - 1 = x + o - ((x + o) % n)
    BY <1>1, <1>2
  <2> QED
    BY <2>1 DEF Averages!BeginningOfDay, Averages!Day, n, o
<1> DEFINE b == Averages!BeginningOfDay(x, z)
<1>6. b \in Int /\ b <= x /\ b + o = n * q
  BY <1>1, <1>2, <1>5
<1> HIDE DEF b, q, k, m
<1>7. ASSUME u > b, k < q PROVE FALSE
  <2>1. n * k + n <= n * q
    BY <1>1, <1>2, <1>3, <1>7, StationApart
  <2> DEFINE c == n * k
             d == n * q
  <2>2. c \in Int /\ d \in Int
    BY <1>1, <1>2, <1>3
  <2>3. c + n <= d /\ b + o = d /\ u + o - 1 = c + ((u + o - 1) % n)
    BY <1>3, <1>6, <2>1
  <2> HIDE DEF c, d
  <2> QED
    BY <1>1, <1>3, <1>6, <1>7, <2>2, <2>3
<1>8. ASSUME u <= b, k >= q PROVE FALSE
  <2> DEFINE c == n * k
             d == n * q
  <2>1. c \in Int /\ d \in Int
    BY <1>1, <1>2, <1>3
  <2>2. c >= d
    <3>1. CASE k = q
      BY <3>1, <2>1
    <3>2. CASE q < k
      <4>1. n * q + n <= n * k
        BY <1>1, <1>2, <1>3, <3>2, StationApart
      <4> QED
        BY <1>1, <2>1, <4>1
    <3> QED
      BY <1>2, <1>3, <1>8, <3>1, <3>2
  <2>3. b + o = d /\ u + o - 1 = c + ((u + o - 1) % n)
    BY <1>3, <1>6
  <2> HIDE DEF c, d
  <2> QED
    BY <1>1, <1>3, <1>6, <1>8, <2>1, <2>2, <2>3
<1>9. u > b <=> k >= q
  BY <1>2, <1>3, <1>6, <1>7, <1>8
<1> QED
  BY <1>3, <1>4, <1>5, <1>6, <1>9 DEF b

-----------------------------------------------------------------------------
(* Types. *)

LEMMA StationDailyTypes ==
  ASSUME StationRowTypes, NEW s \in Streams, NEW z, NEW since, NEW d
  PROVE  Averages!DailyRows(s, z, since, d) \in SUBSET (Averages!Instants \X Nat)
BY DEF Averages!DailyRows, Averages!RowsAt, StationRowTypes

LEMMA StationGroupTypes ==
  ASSUME Averages!AveragesAssumption, StationRowTypes, NEW ss \in SUBSET Averages!Stored
  PROVE  Averages!GroupByZone(ss) \in SUBSET StationGroup
<1>1. \A s \in ss : Averages!Zone(s) \in Averages!Zones
  BY DEF Averages!Stored, Averages!Zone, Averages!Zones, StationRowTypes
<1>2. ss \in SUBSET Streams
  BY DEF Averages!Stored
<1> QED
  BY <1>1, <1>2 DEF Averages!GroupByZone, StationGroup

LEMMA StationUpsertTypes ==
  ASSUME StationRowTypes, NEW group, NEW since, NEW deleted, Averages!UpsertDaily(group, since, deleted)
  PROVE  daily' \in [Streams -> [Averages!Days -> SUBSET (Averages!Instants \X Nat)]]
<1> DEFINE D(s, d) == IF <<s, d>> \in Averages!Averaged(group, since) THEN Averages!DailyRows(s,
  group.zone, since, d)
                      ELSE IF <<s, d>> \in deleted THEN {} ELSE daily[s][d]
<1>1. daily' = [s \in Streams |-> [d \in Averages!Days |-> D(s, d)]]
  BY DEF Averages!UpsertDaily
<1>2. \A s \in Streams : \A d \in Averages!Days : D(s, d) \in SUBSET (Averages!Instants \X Nat)
  BY StationDailyTypes DEF StationRowTypes
<1> HIDE DEF D
<1> QED
  BY <1>1, <1>2

LEMMA StationNextPush ==
  ASSUME Averages!AveragesAssumption, Averages!Unpushed # {}
  PROVE  Averages!Min(Averages!Unpushed) \in Rebuilds /\ rpc[Averages!Min(Averages!Unpushed)] = "none"
<1>1. Averages!Unpushed \in SUBSET Nat
  BY DEF Averages!Unpushed, Averages!AveragesAssumption
<1>2. Averages!Min(Averages!Unpushed) \in Averages!Unpushed
  BY <1>1, StationMinOfNaturals
<1> QED
  BY <1>2 DEF Averages!Unpushed

LEMMA StationInitHolds == Averages!AveragesAssumption /\ Averages!Init => StationIInv
<1> SUFFICES ASSUME Averages!AveragesAssumption, Averages!Init PROVE StationIInv
  OBVIOUS
<1>1. StationImportTypes /\ StationCalculatorTypes /\ StationRebuildTypes
  BY DEF Averages!Init, StationImportTypes, StationCalculatorTypes, StationRebuildTypes,
      StationSteps
<1>2. StationRowTypes
  BY DEF Averages!Init, StationRowTypes, Averages!AveragesAssumption
<1>3. Averages!Stored = {}
  BY DEF Averages!Init, Averages!Stored
<1>4. StationSequential /\ StationSits
  BY DEF Averages!Init, StationSequential, StationSits
<1>5. StationKnown
  BY DEF Averages!Init, StationKnown
<1>6. StationMeasured /\ StationBegins
  BY <1>3 DEF Averages!Init, StationMeasured, StationBegins
<1>7. StationAllTruthful
  BY <1>3 DEF StationAllTruthful
<1> QED
  BY <1>1, <1>2, <1>4, <1>5, <1>6, <1>7 DEF StationIInv, StationTypeOK

LEMMA StationImportTypesNext ==
  Averages!AveragesAssumption /\ StationIInv /\ [Averages!Next]_(Averages!vars)
    => StationImportTypes'
<1> SUFFICES ASSUME Averages!AveragesAssumption, StationIInv, [Averages!Next]_(Averages!vars)
             PROVE  StationImportTypes'
  OBVIOUS
<1> StationImportTypes /\ StationRowTypes
  BY DEF StationIInv, StationTypeOK
<1>1. CASE UNCHANGED Averages!vars
  BY <1>1 DEF Averages!vars, StationImportTypes, Averages!importing
<1>2. ASSUME NEW i \in Imports, Averages!FetchList(i) PROVE StationImportTypes'
  BY <1>2 DEF Averages!FetchList, StationImportTypes, StationSteps
<1>3. ASSUME NEW i \in Imports, Averages!UpsertStation(i) PROVE StationImportTypes'
  <2>1. Averages!Changed(row[i]) \in SUBSET Streams /\ Averages!Rezoned(row[i]) \in SUBSET Streams
    BY DEF Averages!Changed, Averages!Rezoned, Averages!Stored
  <2> QED
    BY <1>3, <2>1 DEF Averages!UpsertStation, StationImportTypes, StationSteps
<1>4. ASSUME NEW i \in Imports, Averages!UpdateStreams(i) PROVE StationImportTypes'
  BY <1>4 DEF Averages!UpdateStreams, StationImportTypes, StationSteps
<1>5. ASSUME NEW i \in Imports, Averages!PushRebuild(i) PROVE StationImportTypes'
  BY <1>5 DEF Averages!PushRebuild, StationImportTypes, StationSteps
<1>6. ASSUME NEW i \in Imports, Averages!CreateStreams(i) PROVE StationImportTypes'
  BY <1>6 DEF Averages!CreateStreams, StationImportTypes, StationSteps
<1>7. ASSUME NEW i \in Imports, Averages!FailImport(i) PROVE StationImportTypes'
  BY <1>7 DEF Averages!FailImport, StationImportTypes, StationSteps
<1>8. ASSUME NEW c \in Calculators, Averages!ReadRecent(c) PROVE StationImportTypes'
  BY <1>8 DEF Averages!ReadRecent, StationImportTypes, Averages!importing
<1>9. ASSUME NEW c \in Calculators, NEW group \in todo[c], Averages!Average(c, group)
      PROVE  StationImportTypes'
  BY <1>9 DEF Averages!Average, StationImportTypes, Averages!importing
<1>10. ASSUME NEW c \in Calculators, Averages!FinishAverages(c) PROVE StationImportTypes'
  BY <1>10 DEF Averages!FinishAverages, StationImportTypes, Averages!importing
<1>11. ASSUME NEW c \in Calculators, Averages!FailCalculator(c) PROVE StationImportTypes'
  BY <1>11 DEF Averages!FailCalculator, StationImportTypes, Averages!importing
<1>12. ASSUME NEW r \in Rebuilds, Averages!ReadHistory(r) PROVE StationImportTypes'
  BY <1>12 DEF Averages!ReadHistory, StationImportTypes, Averages!importing
<1>13. ASSUME NEW r \in Rebuilds, NEW group \in groups[r], Averages!DeleteHistory(r, group)
       PROVE  StationImportTypes'
  BY <1>13 DEF Averages!DeleteHistory, StationImportTypes, Averages!importing
<1>14. ASSUME NEW r \in Rebuilds, NEW group \in open[r], Averages!InsertHistory(r, group)
       PROVE  StationImportTypes'
  BY <1>14 DEF Averages!InsertHistory, StationImportTypes, Averages!importing
<1>15. ASSUME NEW r \in Rebuilds, Averages!FailRebuild(r) PROVE StationImportTypes'
  BY <1>15 DEF Averages!FailRebuild, StationImportTypes, Averages!importing
<1>16. ASSUME NEW s \in Streams, NEW t \in Averages!Instants, Averages!LoadMeasurement(s, t)
       PROVE  StationImportTypes'
  BY <1>16 DEF Averages!LoadMeasurement, StationImportTypes, Averages!importing
<1>17. CASE Averages!Tick
  BY <1>17 DEF Averages!Tick, StationImportTypes, Averages!importing
<1> QED
  BY <1>1, <1>2, <1>3, <1>4, <1>5, <1>6, <1>7, <1>8, <1>9,
    <1>10, <1>11, <1>12, <1>13, <1>14, <1>15, <1>16, <1>17 DEF Averages!Next, Averages!Import,
      Averages!Calculate, Averages!Rebuild

LEMMA StationCalculatorTypesNext ==
  Averages!AveragesAssumption /\ StationIInv /\ [Averages!Next]_(Averages!vars)
    => StationCalculatorTypes'
<1> SUFFICES ASSUME Averages!AveragesAssumption, StationIInv, [Averages!Next]_(Averages!vars)
             PROVE  StationCalculatorTypes'
  OBVIOUS
<1> StationCalculatorTypes /\ StationImportTypes /\ StationRowTypes
  BY DEF StationIInv, StationTypeOK
<1>1. CASE UNCHANGED Averages!vars
  BY <1>1 DEF Averages!vars, StationCalculatorTypes, Averages!calculating
<1>2. ASSUME NEW i \in Imports, Averages!FetchList(i) PROVE StationCalculatorTypes'
  BY <1>2 DEF Averages!FetchList, StationCalculatorTypes, Averages!calculating
<1>3. ASSUME NEW i \in Imports, Averages!UpsertStation(i) PROVE StationCalculatorTypes'
  BY <1>3 DEF Averages!UpsertStation, StationCalculatorTypes, Averages!calculating
<1>4. ASSUME NEW i \in Imports, Averages!UpdateStreams(i) PROVE StationCalculatorTypes'
  BY <1>4 DEF Averages!UpdateStreams, Averages!Touch, StationCalculatorTypes
<1>5. ASSUME NEW i \in Imports, Averages!PushRebuild(i) PROVE StationCalculatorTypes'
  BY <1>5 DEF Averages!PushRebuild, StationCalculatorTypes, Averages!calculating
<1>6. ASSUME NEW i \in Imports, Averages!CreateStreams(i) PROVE StationCalculatorTypes'
  BY <1>6 DEF Averages!CreateStreams, Averages!Touch, StationCalculatorTypes
<1>7. ASSUME NEW i \in Imports, Averages!FailImport(i) PROVE StationCalculatorTypes'
  BY <1>7 DEF Averages!FailImport, StationCalculatorTypes, Averages!calculating
<1>8. ASSUME NEW c \in Calculators, Averages!ReadRecent(c) PROVE StationCalculatorTypes'
  <2> DEFINE recent == {s \in Averages!Stored : fresh[s] # "old"}
  <2>1. recent \in SUBSET Averages!Stored /\ recent \in SUBSET Streams
    BY DEF Averages!Stored
  <2>2. Averages!GroupByZone(recent) \in SUBSET StationGroup
    BY <2>1, StationGroupTypes
  <2>3. /\ todo' = [todo EXCEPT ![c] = Averages!GroupByZone(recent)]
        /\ picked' = [picked EXCEPT ![c] = recent]
        /\ cpc' = [cpc EXCEPT ![c] = "averaging"]
    BY <1>8 DEF Averages!ReadRecent
  <2> HIDE DEF recent
  <2> QED
    BY <2>1, <2>2, <2>3 DEF StationCalculatorTypes
<1>9. ASSUME NEW c \in Calculators, NEW group \in todo[c], Averages!Average(c, group)
      PROVE  StationCalculatorTypes'
  BY <1>9 DEF Averages!Average, StationCalculatorTypes
<1>10. ASSUME NEW c \in Calculators, Averages!FinishAverages(c) PROVE StationCalculatorTypes'
  BY <1>10 DEF Averages!FinishAverages, StationCalculatorTypes
<1>11. ASSUME NEW c \in Calculators, Averages!FailCalculator(c) PROVE StationCalculatorTypes'
  BY <1>11 DEF Averages!FailCalculator, StationCalculatorTypes
<1>12. ASSUME NEW r \in Rebuilds, Averages!ReadHistory(r) PROVE StationCalculatorTypes'
  BY <1>12 DEF Averages!ReadHistory, StationCalculatorTypes, Averages!calculating
<1>13. ASSUME NEW r \in Rebuilds, NEW group \in groups[r], Averages!DeleteHistory(r, group)
       PROVE  StationCalculatorTypes'
  BY <1>13 DEF Averages!DeleteHistory, StationCalculatorTypes, Averages!calculating
<1>14. ASSUME NEW r \in Rebuilds, NEW group \in open[r], Averages!InsertHistory(r, group)
       PROVE  StationCalculatorTypes'
  BY <1>14 DEF Averages!InsertHistory, StationCalculatorTypes, Averages!calculating
<1>15. ASSUME NEW r \in Rebuilds, Averages!FailRebuild(r) PROVE StationCalculatorTypes'
  BY <1>15 DEF Averages!FailRebuild, StationCalculatorTypes, Averages!calculating
<1>16. ASSUME NEW s \in Streams, NEW t \in Averages!Instants, Averages!LoadMeasurement(s, t)
       PROVE  StationCalculatorTypes'
  BY <1>16 DEF Averages!LoadMeasurement, Averages!Touch, StationCalculatorTypes
<1>17. CASE Averages!Tick
  BY <1>17 DEF Averages!Tick, StationCalculatorTypes, Averages!calculating
<1> QED
  BY <1>1, <1>2, <1>3, <1>4, <1>5, <1>6, <1>7, <1>8, <1>9,
    <1>10, <1>11, <1>12, <1>13, <1>14, <1>15, <1>16, <1>17 DEF Averages!Next, Averages!Import,
      Averages!Calculate, Averages!Rebuild

LEMMA StationRebuildTypesNext ==
  Averages!AveragesAssumption /\ StationIInv /\ [Averages!Next]_(Averages!vars)
    => StationRebuildTypes'
<1> SUFFICES ASSUME Averages!AveragesAssumption, StationIInv, [Averages!Next]_(Averages!vars)
             PROVE  StationRebuildTypes'
  OBVIOUS
<1> StationRebuildTypes /\ StationImportTypes /\ StationRowTypes /\ StationKnown
  BY DEF StationIInv, StationTypeOK
<1>1. CASE UNCHANGED Averages!vars
  BY <1>1 DEF Averages!vars, StationRebuildTypes, Averages!rebuilding
<1>2. ASSUME NEW i \in Imports, Averages!FetchList(i) PROVE StationRebuildTypes'
  BY <1>2 DEF Averages!FetchList, StationRebuildTypes, Averages!rebuilding
<1>3. ASSUME NEW i \in Imports, Averages!UpsertStation(i) PROVE StationRebuildTypes'
  BY <1>3 DEF Averages!UpsertStation, StationRebuildTypes, Averages!rebuilding
<1>4. ASSUME NEW i \in Imports, Averages!UpdateStreams(i) PROVE StationRebuildTypes'
  BY <1>4 DEF Averages!UpdateStreams, StationRebuildTypes, Averages!rebuilding
<1>5. ASSUME NEW i \in Imports, Averages!PushRebuild(i) PROVE StationRebuildTypes'
  <2>1. CASE UNCHANGED Averages!rebuilding
    BY <2>1 DEF Averages!rebuilding, StationRebuildTypes
  <2>2. CASE ~UNCHANGED Averages!rebuilding
    BY <1>5, <2>2, StationNextPush DEF Averages!PushRebuild, StationRebuildTypes, StationImportTypes
  <2> QED
    BY <2>1, <2>2
<1>6. ASSUME NEW i \in Imports, Averages!CreateStreams(i) PROVE StationRebuildTypes'
  BY <1>6 DEF Averages!CreateStreams, StationRebuildTypes, Averages!rebuilding
<1>7. ASSUME NEW i \in Imports, Averages!FailImport(i) PROVE StationRebuildTypes'
  BY <1>7 DEF Averages!FailImport, StationRebuildTypes, Averages!rebuilding
<1>8. ASSUME NEW c \in Calculators, Averages!ReadRecent(c) PROVE StationRebuildTypes'
  BY <1>8 DEF Averages!ReadRecent, StationRebuildTypes, Averages!rebuilding
<1>9. ASSUME NEW c \in Calculators, NEW group \in todo[c], Averages!Average(c, group)
      PROVE  StationRebuildTypes'
  BY <1>9 DEF Averages!Average, StationRebuildTypes, Averages!rebuilding
<1>10. ASSUME NEW c \in Calculators, Averages!FinishAverages(c) PROVE StationRebuildTypes'
  BY <1>10 DEF Averages!FinishAverages, StationRebuildTypes, Averages!rebuilding
<1>11. ASSUME NEW c \in Calculators, Averages!FailCalculator(c) PROVE StationRebuildTypes'
  BY <1>11 DEF Averages!FailCalculator, StationRebuildTypes, Averages!rebuilding
<1>12. ASSUME NEW r \in Rebuilds, Averages!ReadHistory(r) PROVE StationRebuildTypes'
  <2> DEFINE H(g) == [zone |-> g.zone, streams |-> g.streams,
                      first |-> {t \in Averages!Instants : \E s \in g.streams : measured[s][t] # 0}]
  <2>1. asked[r] \in SUBSET Averages!Stored
    BY <1>12 DEF Averages!ReadHistory, StationKnown
  <2>2. Averages!GroupByZone(asked[r]) \in SUBSET StationGroup
    BY <2>1, StationGroupTypes
  <2>3. \A g \in Averages!GroupByZone(asked[r]) : H(g) \in StationHistory
    BY <2>2 DEF StationGroup, StationHistory
  <2>4. /\ groups' = [groups EXCEPT ![r] = {H(g) : g \in Averages!GroupByZone(asked[r])}]
        /\ rpc' = [rpc EXCEPT ![r] = "rebuilding"]
        /\ UNCHANGED <<asked, open, doomed>>
    BY <1>12 DEF Averages!ReadHistory
  <2> HIDE DEF H
  <2> QED
    BY <2>3, <2>4 DEF StationRebuildTypes
<1>13. ASSUME NEW r \in Rebuilds, NEW group \in groups[r], Averages!DeleteHistory(r, group)
       PROVE  StationRebuildTypes'
  <2>1. Averages!Deletable(group) \in SUBSET (Streams \X Averages!Days) /\ group \in StationHistory
    BY DEF Averages!Deletable, StationRebuildTypes, StationHistory
  <2> QED
    BY <1>13, <2>1 DEF Averages!DeleteHistory, StationRebuildTypes
<1>14. ASSUME NEW r \in Rebuilds, NEW group \in open[r], Averages!InsertHistory(r, group)
       PROVE  StationRebuildTypes'
  BY <1>14 DEF Averages!InsertHistory, StationRebuildTypes
<1>15. ASSUME NEW r \in Rebuilds, Averages!FailRebuild(r) PROVE StationRebuildTypes'
  BY <1>15 DEF Averages!FailRebuild, StationRebuildTypes
<1>16. ASSUME NEW s \in Streams, NEW t \in Averages!Instants, Averages!LoadMeasurement(s, t)
       PROVE  StationRebuildTypes'
  BY <1>16 DEF Averages!LoadMeasurement, StationRebuildTypes, Averages!rebuilding
<1>17. CASE Averages!Tick
  BY <1>17 DEF Averages!Tick, StationRebuildTypes, Averages!rebuilding
<1> QED
  BY <1>1, <1>2, <1>3, <1>4, <1>5, <1>6, <1>7, <1>8, <1>9,
    <1>10, <1>11, <1>12, <1>13, <1>14, <1>15, <1>16, <1>17 DEF Averages!Next, Averages!Import,
      Averages!Calculate, Averages!Rebuild

LEMMA StationRowTypesNext ==
  Averages!AveragesAssumption /\ StationIInv /\ [Averages!Next]_(Averages!vars)
    => StationRowTypes'
<1> SUFFICES ASSUME Averages!AveragesAssumption, StationIInv, [Averages!Next]_(Averages!vars)
             PROVE  StationRowTypes'
  OBVIOUS
<1> StationRowTypes /\ StationImportTypes /\ StationCalculatorTypes /\ StationRebuildTypes
  BY DEF StationIInv, StationTypeOK
<1>1. CASE UNCHANGED Averages!vars
  BY <1>1 DEF Averages!vars, StationRowTypes, Averages!streams
<1>2. ASSUME NEW i \in Imports, Averages!FetchList(i) PROVE StationRowTypes'
  BY <1>2 DEF Averages!FetchList, StationRowTypes, Averages!streams
<1>3. ASSUME NEW i \in Imports, Averages!UpsertStation(i) PROVE StationRowTypes'
  BY <1>3 DEF Averages!UpsertStation, StationRowTypes, StationImportTypes, Averages!streams
<1>4. ASSUME NEW i \in Imports, Averages!UpdateStreams(i) PROVE StationRowTypes'
  BY <1>4 DEF Averages!UpdateStreams, Averages!Touch, StationRowTypes, StationImportTypes,
      Averages!streams
<1>5. ASSUME NEW i \in Imports, Averages!PushRebuild(i) PROVE StationRowTypes'
  BY <1>5 DEF Averages!PushRebuild, StationRowTypes, Averages!streams
<1>6. ASSUME NEW i \in Imports, Averages!CreateStreams(i) PROVE StationRowTypes'
  BY <1>6 DEF Averages!CreateStreams, Averages!Touch, StationRowTypes, StationImportTypes,
      Averages!streams
<1>7. ASSUME NEW i \in Imports, Averages!FailImport(i) PROVE StationRowTypes'
  BY <1>7 DEF Averages!FailImport, StationRowTypes, Averages!streams
<1>8. ASSUME NEW c \in Calculators, Averages!ReadRecent(c) PROVE StationRowTypes'
  BY <1>8 DEF Averages!ReadRecent, StationRowTypes, Averages!streams
<1>9. ASSUME NEW c \in Calculators, NEW group \in todo[c], Averages!Average(c, group)
      PROVE  StationRowTypes'
  <2>1. daily' \in [Streams -> [Averages!Days -> SUBSET (Averages!Instants \X Nat)]]
    BY <1>9, StationUpsertTypes DEF Averages!Average
  <2>2. misled' \in SUBSET Streams
    BY <1>9 DEF Averages!Average, Averages!OldZone, StationRowTypes, StationCalculatorTypes,
        StationGroup
  <2> QED
    BY <1>9, <2>1, <2>2 DEF Averages!Average, StationRowTypes, Averages!streams
<1>10. ASSUME NEW c \in Calculators, Averages!FinishAverages(c) PROVE StationRowTypes'
  BY <1>10 DEF Averages!FinishAverages, StationRowTypes, Averages!streams
<1>11. ASSUME NEW c \in Calculators, Averages!FailCalculator(c) PROVE StationRowTypes'
  BY <1>11 DEF Averages!FailCalculator, StationRowTypes, Averages!streams
<1>12. ASSUME NEW r \in Rebuilds, Averages!ReadHistory(r) PROVE StationRowTypes'
  BY <1>12 DEF Averages!ReadHistory, StationRowTypes, Averages!streams
<1>13. ASSUME NEW r \in Rebuilds, NEW group \in groups[r], Averages!DeleteHistory(r, group)
       PROVE  StationRowTypes'
  BY <1>13 DEF Averages!DeleteHistory, StationRowTypes, Averages!streams
<1>14. ASSUME NEW r \in Rebuilds, NEW group \in open[r], Averages!InsertHistory(r, group)
       PROVE  StationRowTypes'
  <2>1. daily' \in [Streams -> [Averages!Days -> SUBSET (Averages!Instants \X Nat)]]
    BY <1>14, StationUpsertTypes DEF Averages!InsertHistory
  <2>2. misled' \in SUBSET Streams
    BY <1>14 DEF Averages!InsertHistory, Averages!Healed, Averages!OldZone, Averages!SinceBegun,
        StationRowTypes, StationRebuildTypes, StationHistory
  <2> QED
    BY <1>14, <2>1, <2>2 DEF Averages!InsertHistory, StationRowTypes, Averages!streams
<1>15. ASSUME NEW r \in Rebuilds, Averages!FailRebuild(r) PROVE StationRowTypes'
  BY <1>15 DEF Averages!FailRebuild, StationRowTypes, Averages!streams
<1>16. ASSUME NEW s \in Streams, NEW t \in Averages!Instants, Averages!LoadMeasurement(s, t)
       PROVE  StationRowTypes'
  <2>1. measured' \in [Streams -> [Averages!Instants -> Nat]]
    BY <1>16 DEF Averages!LoadMeasurement, StationRowTypes
  <2> QED
    BY <1>16, <2>1 DEF Averages!LoadMeasurement, Averages!Touch, StationRowTypes, Averages!streams
<1>17. CASE Averages!Tick
  BY <1>17 DEF Averages!Tick, StationRowTypes, Averages!streams, Averages!Instants,
      Averages!AveragesAssumption
<1> QED
  BY <1>1, <1>2, <1>3, <1>4, <1>5, <1>6, <1>7, <1>8, <1>9,
    <1>10, <1>11, <1>12, <1>13, <1>14, <1>15, <1>16, <1>17 DEF Averages!Next, Averages!Import,
      Averages!Calculate, Averages!Rebuild

-----------------------------------------------------------------------------
(* The import. *)

\* While an import is under way, those before it are over and those after it not begun.
LEMMA StationOneImport ==
  ASSUME Averages!AveragesAssumption, StationSequential, NEW i \in Imports,
         ipc[i] \notin {"done", "dead"},
         ipc[i] = "idle" => \A j \in Imports : j < i => ipc[j] \in {"done", "dead"},
         NEW j \in Imports, j # i
  PROVE  (j < i /\ ipc[j] \in {"done", "dead"}) \/ (j > i /\ ipc[j] = "idle")
<1>1. i \in Nat /\ j \in Nat
  BY DEF Averages!AveragesAssumption
<1>2. CASE j < i
  BY <1>2 DEF StationSequential
<1>3. CASE i < j
  <2>1. ipc[j] # "idle" => ipc[i] \in {"done", "dead"}
    BY <1>3 DEF StationSequential
  <2> QED
    BY <1>1, <1>3, <2>1
<1> QED
  BY <1>1, <1>2, <1>3

LEMMA StationSequentialNext ==
  Averages!AveragesAssumption /\ StationIInv /\ [Averages!Next]_(Averages!vars)
    => StationSequential'
<1> SUFFICES ASSUME Averages!AveragesAssumption, StationIInv, [Averages!Next]_(Averages!vars)
             PROVE  StationSequential'
  OBVIOUS
<1> StationSequential /\ StationImportTypes
  BY DEF StationIInv, StationTypeOK
<1>1. CASE UNCHANGED Averages!vars
  BY <1>1 DEF Averages!vars, StationSequential, Averages!importing
<1>2. ASSUME NEW i \in Imports, Averages!FetchList(i) PROVE StationSequential'
  BY <1>2, StationOneImport DEF Averages!FetchList, StationSequential, StationImportTypes,
      Averages!AveragesAssumption
<1>3. ASSUME NEW i \in Imports, Averages!UpsertStation(i) PROVE StationSequential'
  BY <1>3, StationOneImport DEF Averages!UpsertStation, StationSequential, StationImportTypes,
      Averages!AveragesAssumption
<1>4. ASSUME NEW i \in Imports, Averages!UpdateStreams(i) PROVE StationSequential'
  BY <1>4, StationOneImport DEF Averages!UpdateStreams, StationSequential, StationImportTypes,
      Averages!AveragesAssumption
<1>5. ASSUME NEW i \in Imports, Averages!PushRebuild(i) PROVE StationSequential'
  BY <1>5, StationOneImport DEF Averages!PushRebuild, StationSequential, StationImportTypes,
      Averages!AveragesAssumption
<1>6. ASSUME NEW i \in Imports, Averages!CreateStreams(i) PROVE StationSequential'
  BY <1>6, StationOneImport DEF Averages!CreateStreams, StationSequential, StationImportTypes,
      Averages!AveragesAssumption
<1>7. ASSUME NEW i \in Imports, Averages!FailImport(i) PROVE StationSequential'
  BY <1>7, StationOneImport DEF Averages!FailImport, StationSequential, StationImportTypes,
      Averages!AveragesAssumption
<1>8. ASSUME NEW c \in Calculators, Averages!ReadRecent(c) PROVE StationSequential'
  BY <1>8 DEF Averages!ReadRecent, StationSequential, Averages!importing
<1>9. ASSUME NEW c \in Calculators, NEW group \in todo[c], Averages!Average(c, group)
      PROVE  StationSequential'
  BY <1>9 DEF Averages!Average, StationSequential, Averages!importing
<1>10. ASSUME NEW c \in Calculators, Averages!FinishAverages(c) PROVE StationSequential'
  BY <1>10 DEF Averages!FinishAverages, StationSequential, Averages!importing
<1>11. ASSUME NEW c \in Calculators, Averages!FailCalculator(c) PROVE StationSequential'
  BY <1>11 DEF Averages!FailCalculator, StationSequential, Averages!importing
<1>12. ASSUME NEW r \in Rebuilds, Averages!ReadHistory(r) PROVE StationSequential'
  BY <1>12 DEF Averages!ReadHistory, StationSequential, Averages!importing
<1>13. ASSUME NEW r \in Rebuilds, NEW group \in groups[r], Averages!DeleteHistory(r, group)
       PROVE  StationSequential'
  BY <1>13 DEF Averages!DeleteHistory, StationSequential, Averages!importing
<1>14. ASSUME NEW r \in Rebuilds, NEW group \in open[r], Averages!InsertHistory(r, group)
       PROVE  StationSequential'
  BY <1>14 DEF Averages!InsertHistory, StationSequential, Averages!importing
<1>15. ASSUME NEW r \in Rebuilds, Averages!FailRebuild(r) PROVE StationSequential'
  BY <1>15 DEF Averages!FailRebuild, StationSequential, Averages!importing
<1>16. ASSUME NEW s \in Streams, NEW t \in Averages!Instants, Averages!LoadMeasurement(s, t)
       PROVE  StationSequential'
  BY <1>16 DEF Averages!LoadMeasurement, StationSequential, Averages!importing
<1>17. CASE Averages!Tick
  BY <1>17 DEF Averages!Tick, StationSequential, Averages!importing
<1> QED
  BY <1>1, <1>2, <1>3, <1>4, <1>5, <1>6, <1>7, <1>8, <1>9,
    <1>10, <1>11, <1>12, <1>13, <1>14, <1>15, <1>16, <1>17 DEF Averages!Next, Averages!Import,
      Averages!Calculate, Averages!Rebuild

LEMMA StationSitsNext ==
  Averages!AveragesAssumption /\ StationIInv /\ [Averages!Next]_(Averages!vars)
    => StationSits'
<1> SUFFICES ASSUME Averages!AveragesAssumption, StationIInv, [Averages!Next]_(Averages!vars)
             PROVE  StationSits'
  OBVIOUS
<1> StationSequential /\ StationSits /\ StationImportTypes /\ StationRowTypes
  BY DEF StationIInv, StationTypeOK
<1>1. CASE UNCHANGED Averages!vars
  BY <1>1 DEF Averages!vars, StationSits, Averages!importing, Averages!streams, Averages!Changed,
      Averages!Rezoned, Averages!Stored, Averages!Zone
<1>2. ASSUME NEW i \in Imports, Averages!FetchList(i) PROVE StationSits'
  <2>1. \A j \in Imports : j # i =>
          (j < i /\ ipc[j] \in {"done", "dead"}) \/ (j > i /\ ipc[j] = "idle")
    BY <1>2, StationOneImport DEF Averages!FetchList
  <2>2. /\ \A j \in Imports : j # i => ipc'[j] = ipc[j]
        /\ ipc'[i] = "upserting"
    BY <1>2 DEF Averages!FetchList, StationImportTypes
  <2>3. ASSUME NEW j \in Imports, j # i
        PROVE  /\ ipc'[j] \notin {"updating", "pushing", "creating"}
               /\ ipc'[j] = "done" => i > j /\ ipc'[i] # "idle"
    BY <2>1, <2>2, <2>3 DEF Averages!AveragesAssumption
  <2> QED
    BY <2>2, <2>3 DEF StationSits
<1>3. ASSUME NEW i \in Imports, Averages!UpsertStation(i) PROVE StationSits'
  <2>1. \A j \in Imports : j # i =>
          (j < i /\ ipc[j] \in {"done", "dead"}) \/ (j > i /\ ipc[j] = "idle")
    BY <1>3, StationOneImport DEF Averages!UpsertStation
  <2>2. /\ \A j \in Imports : j # i => ipc'[j] = ipc[j]
        /\ ipc'[i] = "updating"
    BY <1>3 DEF Averages!UpsertStation, StationImportTypes
  <2>3. ASSUME NEW j \in Imports, j # i
        PROVE  /\ ipc'[j] \notin {"updating", "pushing", "creating"}
               /\ ipc'[j] = "done" => i > j /\ ipc'[i] # "idle"
    BY <2>1, <2>2, <2>3 DEF Averages!AveragesAssumption
  <2>4. /\ station' = row'[i] /\ changes'[i] = Averages!Changed(row[i])
        /\ rezoned'[i] = Averages!Rezoned(row[i])
        /\ row' = row /\ point' = point
    BY <1>3 DEF Averages!UpsertStation, StationImportTypes, Averages!streams
  <2>5. changes'[i] = Averages!Changed(row[i])' /\ rezoned'[i] = Averages!Rezoned(row[i])'
    BY <2>4 DEF Averages!Changed, Averages!Rezoned, Averages!Stored, Averages!Zone
  <2> QED
    BY <2>2, <2>3, <2>4, <2>5 DEF StationSits
<1>4. ASSUME NEW i \in Imports, Averages!UpdateStreams(i) PROVE StationSits'
  <2>1. \A j \in Imports : j # i =>
          (j < i /\ ipc[j] \in {"done", "dead"}) \/ (j > i /\ ipc[j] = "idle")
    BY <1>4, StationOneImport DEF Averages!UpdateStreams
  <2>2. /\ \A j \in Imports : j # i => ipc'[j] = ipc[j]
        /\ ipc'[i] = "pushing"
    BY <1>4 DEF Averages!UpdateStreams, StationImportTypes
  <2>3. ASSUME NEW j \in Imports, j # i
        PROVE  /\ ipc'[j] \notin {"updating", "pushing", "creating"}
               /\ ipc'[j] = "done" => i > j /\ ipc'[i] # "idle"
    BY <2>1, <2>2, <2>3 DEF Averages!AveragesAssumption
  <2>4. /\ station = row[i] /\ changes[i] = Averages!Changed(row[i])
        /\ row' = row /\ station' = station
        /\ point' = [s \in Streams |-> IF s \in changes[i] THEN row[i] ELSE point[s]]
    BY <1>4 DEF Averages!UpdateStreams, StationSits
  <2>5. \A s \in Averages!Stored' : point'[s] = row'[i]
    BY <2>4 DEF Averages!Changed, Averages!Stored
  <2> QED
    BY <2>2, <2>3, <2>4, <2>5 DEF StationSits
<1>5. ASSUME NEW i \in Imports, Averages!PushRebuild(i) PROVE StationSits'
  <2>1. \A j \in Imports : j # i =>
          (j < i /\ ipc[j] \in {"done", "dead"}) \/ (j > i /\ ipc[j] = "idle")
    BY <1>5, StationOneImport DEF Averages!PushRebuild
  <2>2. /\ \A j \in Imports : j # i => ipc'[j] = ipc[j]
        /\ ipc'[i] = "creating"
    BY <1>5 DEF Averages!PushRebuild, StationImportTypes
  <2>3. ASSUME NEW j \in Imports, j # i
        PROVE  /\ ipc'[j] \notin {"updating", "pushing", "creating"}
               /\ ipc'[j] = "done" => i > j /\ ipc'[i] # "idle"
    BY <2>1, <2>2, <2>3 DEF Averages!AveragesAssumption
  <2>4. /\ station = row[i] /\ \A s \in Averages!Stored : point[s] = row[i]
        /\ row' = row /\ station' = station /\ point' = point
    BY <1>5 DEF Averages!PushRebuild, StationSits, Averages!streams
  <2>5. \A s \in Averages!Stored' : point'[s] = row'[i]
    BY <2>4 DEF Averages!Stored
  <2> QED
    BY <2>2, <2>3, <2>4, <2>5 DEF StationSits
<1>6. ASSUME NEW i \in Imports, Averages!CreateStreams(i) PROVE StationSits'
  <2>1. \A j \in Imports : j # i =>
          (j < i /\ ipc[j] \in {"done", "dead"}) \/ (j > i /\ ipc[j] = "idle")
    BY <1>6, StationOneImport DEF Averages!CreateStreams
  <2>2. /\ \A j \in Imports : j # i => ipc'[j] = ipc[j]
        /\ ipc'[i] = "done"
    BY <1>6 DEF Averages!CreateStreams, StationImportTypes
  <2>3. ASSUME NEW j \in Imports, j # i
        PROVE  /\ ipc'[j] \notin {"updating", "pushing", "creating"}
               /\ ipc'[j] = "done" => i > j /\ ipc'[i] # "idle"
    BY <2>1, <2>2, <2>3 DEF Averages!AveragesAssumption
  <2>4. /\ station = row[i] /\ \A s \in Averages!Stored : point[s] = row[i]
        /\ station' = station
        /\ point' = [s \in Streams |-> IF s \in Averages!Stored THEN point[s] ELSE row[i]]
    BY <1>6 DEF Averages!CreateStreams, StationSits
  <2>5. \A s \in Streams : point'[s] = station'
    BY <2>4
  <2> QED
    BY <2>2, <2>3, <2>4, <2>5 DEF StationSits
<1>7. ASSUME NEW i \in Imports, Averages!FailImport(i) PROVE StationSits'
  <2>1. \A j \in Imports : j # i =>
          (j < i /\ ipc[j] \in {"done", "dead"}) \/ (j > i /\ ipc[j] = "idle")
    BY <1>7, StationOneImport DEF Averages!FailImport
  <2>2. /\ \A j \in Imports : j # i => ipc'[j] = ipc[j]
        /\ ipc'[i] = "dead"
    BY <1>7 DEF Averages!FailImport, StationImportTypes
  <2>3. ASSUME NEW j \in Imports, j # i
        PROVE  /\ ipc'[j] \notin {"updating", "pushing", "creating"}
               /\ ipc'[j] = "done" => i > j /\ ipc'[i] # "idle"
    BY <2>1, <2>2, <2>3 DEF Averages!AveragesAssumption
  <2> QED
    BY <2>2, <2>3 DEF StationSits
<1>8. ASSUME NEW c \in Calculators, Averages!ReadRecent(c) PROVE StationSits'
  <2>1. UNCHANGED <<station, point, ipc, row, changes, rezoned>>
    BY <1>8 DEF Averages!ReadRecent, Averages!importing, Averages!streams, Averages!Touch
  <2> QED
    BY <2>1 DEF StationSits, Averages!Changed, Averages!Rezoned, Averages!Stored, Averages!Zone
<1>9. ASSUME NEW c \in Calculators, NEW group \in todo[c], Averages!Average(c, group) PROVE StationSits'
  <2>1. UNCHANGED <<station, point, ipc, row, changes, rezoned>>
    BY <1>9 DEF Averages!Average, Averages!importing, Averages!streams, Averages!Touch
  <2> QED
    BY <2>1 DEF StationSits, Averages!Changed, Averages!Rezoned, Averages!Stored, Averages!Zone
<1>10. ASSUME NEW c \in Calculators, Averages!FinishAverages(c) PROVE StationSits'
  <2>1. UNCHANGED <<station, point, ipc, row, changes, rezoned>>
    BY <1>10 DEF Averages!FinishAverages, Averages!importing, Averages!streams, Averages!Touch
  <2> QED
    BY <2>1 DEF StationSits, Averages!Changed, Averages!Rezoned, Averages!Stored, Averages!Zone
<1>11. ASSUME NEW c \in Calculators, Averages!FailCalculator(c) PROVE StationSits'
  <2>1. UNCHANGED <<station, point, ipc, row, changes, rezoned>>
    BY <1>11 DEF Averages!FailCalculator, Averages!importing, Averages!streams, Averages!Touch
  <2> QED
    BY <2>1 DEF StationSits, Averages!Changed, Averages!Rezoned, Averages!Stored, Averages!Zone
<1>12. ASSUME NEW r \in Rebuilds, Averages!ReadHistory(r) PROVE StationSits'
  <2>1. UNCHANGED <<station, point, ipc, row, changes, rezoned>>
    BY <1>12 DEF Averages!ReadHistory, Averages!importing, Averages!streams, Averages!Touch
  <2> QED
    BY <2>1 DEF StationSits, Averages!Changed, Averages!Rezoned, Averages!Stored, Averages!Zone
<1>13. ASSUME NEW r \in Rebuilds, NEW group \in groups[r], Averages!DeleteHistory(r, group)
       PROVE  StationSits'
  <2>1. UNCHANGED <<station, point, ipc, row, changes, rezoned>>
    BY <1>13 DEF Averages!DeleteHistory, Averages!importing, Averages!streams, Averages!Touch
  <2> QED
    BY <2>1 DEF StationSits, Averages!Changed, Averages!Rezoned, Averages!Stored, Averages!Zone
<1>14. ASSUME NEW r \in Rebuilds, NEW group \in open[r], Averages!InsertHistory(r, group)
       PROVE  StationSits'
  <2>1. UNCHANGED <<station, point, ipc, row, changes, rezoned>>
    BY <1>14 DEF Averages!InsertHistory, Averages!importing, Averages!streams, Averages!Touch
  <2> QED
    BY <2>1 DEF StationSits, Averages!Changed, Averages!Rezoned, Averages!Stored, Averages!Zone
<1>15. ASSUME NEW r \in Rebuilds, Averages!FailRebuild(r) PROVE StationSits'
  <2>1. UNCHANGED <<station, point, ipc, row, changes, rezoned>>
    BY <1>15 DEF Averages!FailRebuild, Averages!importing, Averages!streams, Averages!Touch
  <2> QED
    BY <2>1 DEF StationSits, Averages!Changed, Averages!Rezoned, Averages!Stored, Averages!Zone
<1>16. ASSUME NEW s \in Streams, NEW t \in Averages!Instants, Averages!LoadMeasurement(s, t)
       PROVE  StationSits'
  <2>1. UNCHANGED <<station, point, ipc, row, changes, rezoned>>
    BY <1>16 DEF Averages!LoadMeasurement, Averages!importing, Averages!streams, Averages!Touch
  <2> QED
    BY <2>1 DEF StationSits, Averages!Changed, Averages!Rezoned, Averages!Stored, Averages!Zone
<1>17. CASE Averages!Tick
  <2>1. UNCHANGED <<station, point, ipc, row, changes, rezoned>>
    BY <1>17 DEF Averages!Tick, Averages!importing, Averages!streams, Averages!Touch
  <2> QED
    BY <2>1 DEF StationSits, Averages!Changed, Averages!Rezoned, Averages!Stored, Averages!Zone
<1> QED
  BY <1>1, <1>2, <1>3, <1>4, <1>5, <1>6, <1>7, <1>8, <1>9,
    <1>10, <1>11, <1>12, <1>13, <1>14, <1>15, <1>16, <1>17 DEF Averages!Next, Averages!Import,
      Averages!Calculate, Averages!Rebuild

LEMMA StationStoredGrows ==
  Averages!AveragesAssumption /\ StationIInv /\ [Averages!Next]_(Averages!vars)
    => Averages!Stored \subseteq Averages!Stored'
<1> SUFFICES ASSUME Averages!AveragesAssumption, StationIInv, [Averages!Next]_(Averages!vars)
             PROVE  Averages!Stored \subseteq Averages!Stored'
  OBVIOUS
<1> StationSits /\ StationSequential
  BY DEF StationIInv, StationTypeOK
<1>1. CASE UNCHANGED point
  BY <1>1 DEF Averages!Stored
<1>2. ASSUME NEW i \in Imports, Averages!UpdateStreams(i)
      PROVE  Averages!Stored \subseteq Averages!Stored'
  <2>1. changes[i] = Averages!Changed(row[i]) /\ row[i] \in Points
    BY <1>2 DEF Averages!UpdateStreams, StationSits, StationSequential
  <2> QED
    BY <1>2, <2>1 DEF Averages!UpdateStreams, Averages!Stored, Averages!AveragesAssumption
<1>3. ASSUME NEW i \in Imports, Averages!CreateStreams(i)
      PROVE  Averages!Stored \subseteq Averages!Stored'
  BY <1>3 DEF Averages!CreateStreams, Averages!Stored
<1>4. CASE UNCHANGED Averages!vars
  BY <1>1, <1>4 DEF Averages!vars, Averages!streams
<1> QED
  BY <1>1, <1>2, <1>3, <1>4 DEF Averages!Next, Averages!Import, Averages!Calculate,
      Averages!Rebuild, Averages!FetchList, Averages!UpsertStation,
    Averages!PushRebuild, Averages!FailImport, Averages!ReadRecent, Averages!Average,
      Averages!FinishAverages, Averages!FailCalculator, Averages!ReadHistory,
    Averages!DeleteHistory, Averages!InsertHistory, Averages!FailRebuild, Averages!LoadMeasurement,
      Averages!Tick, Averages!streams

LEMMA StationKnownNext ==
  Averages!AveragesAssumption /\ StationIInv /\ [Averages!Next]_(Averages!vars)
    => StationKnown'
<1> SUFFICES ASSUME Averages!AveragesAssumption, StationIInv, [Averages!Next]_(Averages!vars)
             PROVE  StationKnown'
  OBVIOUS
<1> /\ StationSits /\ StationKnown /\ StationTypeOK /\ StationImportTypes
    /\ StationCalculatorTypes /\ StationRebuildTypes /\ StationRowTypes
  BY DEF StationIInv, StationTypeOK
<1> DEFINE
      KnownImports ==
        /\ \A i \in Imports : rezoned[i] \subseteq Averages!Stored
        /\ \A i \in Imports : rezoned[i] # {} => ipc[i] \in {"updating", "pushing", "dead"}
      KnownCalculators ==
        /\ \A c \in Calculators : picked[c] \subseteq Averages!Stored
        /\ \A c \in Calculators : \A g \in todo[c] : g.streams \subseteq Averages!Stored
        /\ \A c \in Calculators : cpc[c] = "idle" => picked[c] = {} /\ todo[c] = {}
      KnownRebuilds ==
        /\ \A r \in Rebuilds : rpc[r] # "none" => asked[r] \subseteq Averages!Stored
        /\ \A r \in Rebuilds : \A g \in groups[r] : g.streams \subseteq asked[r]
        /\ \A r \in Rebuilds : open[r] \subseteq groups[r]
        /\ \A r \in Rebuilds : \A g, h \in open[r] : g = h
        /\ \A r \in Rebuilds : rpc[r] # "rebuilding" => groups[r] = {}
        /\ \A r \in Rebuilds : \A s \in Streams : \A d \in Averages!Days :
             <<s, d>> \in doomed[r] => \E g \in open[r] : s \in g.streams
<1>0. KnownImports /\ KnownCalculators /\ KnownRebuilds
  BY DEF StationKnown
<1>a. SUFFICES KnownImports' /\ KnownCalculators' /\ KnownRebuilds'
  BY DEF StationKnown
<1>b. Averages!Stored \subseteq Averages!Stored'
  BY StationStoredGrows
<1>1. CASE UNCHANGED Averages!vars
  <2>1. KnownImports'
    BY <1>1, <1>0, <1>b DEF Averages!vars, Averages!importing
  <2>2. KnownCalculators'
    BY <1>1, <1>0, <1>b DEF Averages!vars, Averages!calculating
  <2>3. KnownRebuilds'
    BY <1>1, <1>0, <1>b DEF Averages!vars, Averages!rebuilding
  <2> QED
    BY <2>1, <2>2, <2>3
<1>2. ASSUME NEW i \in Imports, Averages!FetchList(i)
      PROVE  KnownImports' /\ KnownCalculators' /\ KnownRebuilds'
  <2>1. KnownImports'
    BY <1>2, <1>0, <1>b DEF Averages!FetchList, StationImportTypes
  <2>2. KnownCalculators'
    BY <1>2, <1>0, <1>b DEF Averages!FetchList, Averages!calculating
  <2>3. KnownRebuilds'
    BY <1>2, <1>0, <1>b DEF Averages!FetchList, Averages!rebuilding
  <2> QED
    BY <2>1, <2>2, <2>3
<1>3. ASSUME NEW i \in Imports, Averages!UpsertStation(i)
      PROVE  KnownImports' /\ KnownCalculators' /\ KnownRebuilds'
  <2>1. KnownImports'
    BY <1>3, <1>0, <1>b DEF Averages!UpsertStation, StationImportTypes, Averages!Changed,
        Averages!Rezoned
  <2>2. KnownCalculators'
    BY <1>3, <1>0, <1>b DEF Averages!UpsertStation, Averages!calculating
  <2>3. KnownRebuilds'
    BY <1>3, <1>0, <1>b DEF Averages!UpsertStation, Averages!rebuilding
  <2> QED
    BY <2>1, <2>2, <2>3
<1>4. ASSUME NEW i \in Imports, Averages!UpdateStreams(i)
      PROVE  KnownImports' /\ KnownCalculators' /\ KnownRebuilds'
  <2>1. KnownImports'
    BY <1>4, <1>0, <1>b DEF Averages!UpdateStreams, StationImportTypes
  <2>2. KnownCalculators'
    BY <1>4, <1>0, <1>b DEF Averages!UpdateStreams, Averages!Touch, StationCalculatorTypes
  <2>3. KnownRebuilds'
    BY <1>4, <1>0, <1>b DEF Averages!UpdateStreams, Averages!rebuilding
  <2> QED
    BY <2>1, <2>2, <2>3
<1>5. ASSUME NEW i \in Imports, Averages!PushRebuild(i)
      PROVE  KnownImports' /\ KnownCalculators' /\ KnownRebuilds'
  <2>1. KnownImports'
    BY <1>5, <1>0, <1>b DEF Averages!PushRebuild, StationImportTypes
  <2>2. KnownCalculators'
    BY <1>5, <1>0, <1>b DEF Averages!PushRebuild, Averages!calculating
  <2>3. KnownRebuilds'
    <3>1. CASE UNCHANGED Averages!rebuilding
      BY <1>0, <1>b, <3>1 DEF Averages!rebuilding
    <3>2. CASE ~UNCHANGED Averages!rebuilding
      <4> DEFINE q == Averages!Min(Averages!Unpushed)
      <4>1. /\ q \in Rebuilds /\ rpc[q] = "none"
            /\ rpc' = [rpc EXCEPT ![q] = "queued"]
            /\ asked' = [asked EXCEPT ![q] = rezoned[i]]
            /\ UNCHANGED <<groups, open, doomed>>
        BY <1>5, <3>2, StationNextPush DEF Averages!PushRebuild
      <4> HIDE DEF q
      <4>2. groups[q] = {}
        BY <1>0, <4>1
      <4>3. \A r \in Rebuilds : r # q => rpc'[r] = rpc[r] /\ asked'[r] = asked[r]
        BY <4>1 DEF StationRebuildTypes
      <4>4. rpc'[q] = "queued" /\ asked'[q] = rezoned[i]
        BY <4>1 DEF StationRebuildTypes
      <4> QED
        BY <1>0, <1>b, <4>1, <4>2, <4>3, <4>4
    <3> QED
      BY <3>1, <3>2
  <2> QED
    BY <2>1, <2>2, <2>3
<1>6. ASSUME NEW i \in Imports, Averages!CreateStreams(i)
      PROVE  KnownImports' /\ KnownCalculators' /\ KnownRebuilds'
  <2>1. KnownImports'
    BY <1>6, <1>0, <1>b DEF Averages!CreateStreams, StationImportTypes
  <2>2. KnownCalculators'
    BY <1>6, <1>0, <1>b DEF Averages!CreateStreams, Averages!Touch, StationCalculatorTypes
  <2>3. KnownRebuilds'
    BY <1>6, <1>0, <1>b DEF Averages!CreateStreams, Averages!rebuilding
  <2> QED
    BY <2>1, <2>2, <2>3
<1>7. ASSUME NEW i \in Imports, Averages!FailImport(i)
      PROVE  KnownImports' /\ KnownCalculators' /\ KnownRebuilds'
  <2>1. KnownImports'
    BY <1>7, <1>0, <1>b DEF Averages!FailImport, StationImportTypes
  <2>2. KnownCalculators'
    BY <1>7, <1>0, <1>b DEF Averages!FailImport, Averages!calculating
  <2>3. KnownRebuilds'
    BY <1>7, <1>0, <1>b DEF Averages!FailImport, Averages!rebuilding
  <2> QED
    BY <2>1, <2>2, <2>3
<1>8. ASSUME NEW c \in Calculators, Averages!ReadRecent(c)
      PROVE  KnownImports' /\ KnownCalculators' /\ KnownRebuilds'
  <2>1. KnownImports'
    BY <1>8, <1>0, <1>b DEF Averages!ReadRecent, Averages!importing
  <2>2. KnownCalculators'
    <3> DEFINE recent == {s \in Averages!Stored : fresh[s] # "old"}
    <3>1. /\ todo' = [todo EXCEPT ![c] = Averages!GroupByZone(recent)]
          /\ picked' = [picked EXCEPT ![c] = recent]
          /\ cpc' = [cpc EXCEPT ![c] = "averaging"]
      BY <1>8 DEF Averages!ReadRecent
    <3>2. \A g \in Averages!GroupByZone(recent) : g.streams \subseteq Averages!Stored
      BY DEF Averages!GroupByZone
    <3> QED
      BY <1>0, <1>b, <3>1, <3>2 DEF StationCalculatorTypes
  <2>3. KnownRebuilds'
    BY <1>8, <1>0, <1>b DEF Averages!ReadRecent, Averages!rebuilding
  <2> QED
    BY <2>1, <2>2, <2>3
<1>9. ASSUME NEW c \in Calculators, NEW group \in todo[c], Averages!Average(c, group)
      PROVE  KnownImports' /\ KnownCalculators' /\ KnownRebuilds'
  <2>1. KnownImports'
    BY <1>9, <1>0, <1>b DEF Averages!Average, Averages!importing
  <2>2. KnownCalculators'
    BY <1>9, <1>0, <1>b DEF Averages!Average, StationCalculatorTypes
  <2>3. KnownRebuilds'
    BY <1>9, <1>0, <1>b DEF Averages!Average, Averages!rebuilding
  <2> QED
    BY <2>1, <2>2, <2>3
<1>10. ASSUME NEW c \in Calculators, Averages!FinishAverages(c)
       PROVE  KnownImports' /\ KnownCalculators' /\ KnownRebuilds'
  <2>1. KnownImports'
    BY <1>10, <1>0, <1>b DEF Averages!FinishAverages, Averages!importing
  <2>2. KnownCalculators'
    BY <1>10, <1>0, <1>b DEF Averages!FinishAverages, StationCalculatorTypes
  <2>3. KnownRebuilds'
    BY <1>10, <1>0, <1>b DEF Averages!FinishAverages, Averages!rebuilding
  <2> QED
    BY <2>1, <2>2, <2>3
<1>11. ASSUME NEW c \in Calculators, Averages!FailCalculator(c)
       PROVE  KnownImports' /\ KnownCalculators' /\ KnownRebuilds'
  <2>1. KnownImports'
    BY <1>11, <1>0, <1>b DEF Averages!FailCalculator, Averages!importing
  <2>2. KnownCalculators'
    BY <1>11, <1>0, <1>b DEF Averages!FailCalculator, StationCalculatorTypes
  <2>3. KnownRebuilds'
    BY <1>11, <1>0, <1>b DEF Averages!FailCalculator, Averages!rebuilding
  <2> QED
    BY <2>1, <2>2, <2>3
<1>12. ASSUME NEW r \in Rebuilds, Averages!ReadHistory(r)
       PROVE  KnownImports' /\ KnownCalculators' /\ KnownRebuilds'
  <2>1. KnownImports'
    BY <1>12, <1>0, <1>b DEF Averages!ReadHistory, Averages!importing
  <2>2. KnownCalculators'
    BY <1>12, <1>0, <1>b DEF Averages!ReadHistory, Averages!calculating
  <2>3. KnownRebuilds'
    <3> DEFINE H(g) == [zone |-> g.zone, streams |-> g.streams,
                        first |-> {t \in Averages!Instants : \E s \in g.streams : measured[s][t] # 0}]
    <3>1. /\ groups' = [groups EXCEPT ![r] = {H(g) : g \in Averages!GroupByZone(asked[r])}]
          /\ rpc' = [rpc EXCEPT ![r] = "rebuilding"] /\ rpc[r] = "queued"
          /\ UNCHANGED <<asked, open, doomed>>
      BY <1>12 DEF Averages!ReadHistory
    <3>2. \A g \in Averages!GroupByZone(asked[r]) : H(g).streams \subseteq asked[r]
      BY DEF Averages!GroupByZone
    <3>3. open[r] = {}
      BY <1>0, <3>1
    <3> HIDE DEF H
    <3> QED
      BY <1>0, <1>b, <3>1, <3>2, <3>3 DEF StationRebuildTypes
  <2> QED
    BY <2>1, <2>2, <2>3
<1>13. ASSUME NEW r \in Rebuilds, NEW group \in groups[r], Averages!DeleteHistory(r, group)
       PROVE  KnownImports' /\ KnownCalculators' /\ KnownRebuilds'
  <2>1. KnownImports'
    BY <1>13, <1>0, <1>b DEF Averages!DeleteHistory, Averages!importing
  <2>2. KnownCalculators'
    BY <1>13, <1>0, <1>b DEF Averages!DeleteHistory, Averages!calculating
  <2>3. KnownRebuilds'
    <3>1. \A s \in Streams : \A d \in Averages!Days : <<s,
             d>> \in Averages!Deletable(group) => s \in group.streams
      BY DEF Averages!Deletable
    <3> QED
      BY <1>13, <1>0, <1>b, <3>1 DEF Averages!DeleteHistory, StationRebuildTypes
  <2> QED
    BY <2>1, <2>2, <2>3
<1>14. ASSUME NEW r \in Rebuilds, NEW group \in open[r], Averages!InsertHistory(r, group)
       PROVE  KnownImports' /\ KnownCalculators' /\ KnownRebuilds'
  <2>1. KnownImports'
    BY <1>14, <1>0, <1>b DEF Averages!InsertHistory, Averages!importing
  <2>2. KnownCalculators'
    BY <1>14, <1>0, <1>b DEF Averages!InsertHistory, Averages!calculating
  <2>3. KnownRebuilds'
    <3>1. /\ group \in groups[r] /\ open' = [open EXCEPT ![r] = {}] /\ asked' = asked
          /\ doomed' = [doomed EXCEPT ![r] = {}] /\ groups' = [groups EXCEPT ![r] = @ \ {group}]
          /\ rpc' = [rpc EXCEPT ![r] = IF groups[r] = {group} THEN "done" ELSE @]
      BY <1>14, <1>0 DEF Averages!InsertHistory
    <3>2. rpc[r] = "rebuilding"
      BY <1>0, <3>1
    <3> QED
      BY <1>0, <1>b, <3>1, <3>2 DEF StationRebuildTypes
  <2> QED
    BY <2>1, <2>2, <2>3
<1>15. ASSUME NEW r \in Rebuilds, Averages!FailRebuild(r)
       PROVE  KnownImports' /\ KnownCalculators' /\ KnownRebuilds'
  <2>1. KnownImports'
    BY <1>15, <1>0, <1>b DEF Averages!FailRebuild, Averages!importing
  <2>2. KnownCalculators'
    BY <1>15, <1>0, <1>b DEF Averages!FailRebuild, Averages!calculating
  <2>3. KnownRebuilds'
    BY <1>15, <1>0, <1>b DEF Averages!FailRebuild, StationRebuildTypes
  <2> QED
    BY <2>1, <2>2, <2>3
<1>16. ASSUME NEW s \in Streams, NEW t \in Averages!Instants, Averages!LoadMeasurement(s, t)
       PROVE  KnownImports' /\ KnownCalculators' /\ KnownRebuilds'
  <2>1. KnownImports'
    BY <1>16, <1>0, <1>b DEF Averages!LoadMeasurement, Averages!importing
  <2>2. KnownCalculators'
    BY <1>16, <1>0, <1>b DEF Averages!LoadMeasurement, Averages!Touch, StationCalculatorTypes
  <2>3. KnownRebuilds'
    BY <1>16, <1>0, <1>b DEF Averages!LoadMeasurement, Averages!rebuilding
  <2> QED
    BY <2>1, <2>2, <2>3
<1>17. CASE Averages!Tick
  <2>1. KnownImports'
    BY <1>17, <1>0, <1>b DEF Averages!Tick, Averages!importing
  <2>2. KnownCalculators'
    BY <1>17, <1>0, <1>b DEF Averages!Tick, Averages!calculating
  <2>3. KnownRebuilds'
    BY <1>17, <1>0, <1>b DEF Averages!Tick, Averages!rebuilding
  <2> QED
    BY <2>1, <2>2, <2>3
<1> QED
  BY <1>1, <1>2, <1>3, <1>4, <1>5, <1>6, <1>7, <1>8, <1>9,
    <1>10, <1>11, <1>12, <1>13, <1>14, <1>15, <1>16, <1>17 DEF Averages!Next, Averages!Import,
      Averages!Calculate, Averages!Rebuild

-----------------------------------------------------------------------------
(* The two statements. *)

LEMMA StationInstantsAre == Averages!Instants \in SUBSET Nat /\ \A t \in Averages!Instants : t \in Int
BY DEF Averages!Instants

LEMMA StationUpsertIs ==
  ASSUME NEW group, NEW since, NEW deleted, Averages!UpsertDaily(group, since, deleted),
         NEW s \in Streams, NEW d \in Averages!Days
  PROVE  daily'[s][d] =
           IF s \in group.streams /\ Averages!DailyRows(s, group.zone, since, d) # {}
             THEN Averages!DailyRows(s, group.zone, since, d)
           ELSE IF <<s, d>> \in deleted THEN {} ELSE daily[s][d]
<1>1. daily'[s][d] =
        IF <<s, d>> \in Averages!Averaged(group, since) THEN Averages!DailyRows(s, group.zone, since, d)
        ELSE IF <<s, d>> \in deleted THEN {} ELSE daily[s][d]
  BY DEF Averages!UpsertDaily
<1>2. <<s, d>> \in Averages!Averaged(group, since) <=>
        s \in group.streams /\ Averages!DailyRows(s, group.zone, since, d) # {}
  BY DEF Averages!Averaged
<1> QED
  BY <1>1, <1>2

LEMMA StationAverageIs ==
  ASSUME NEW group, NEW since, Averages!UpsertDaily(group, since, {}),
         NEW s \in Streams, NEW d \in Averages!Days
  PROVE  daily'[s][d] =
           IF s \in group.streams /\ Averages!DailyRows(s, group.zone, since, d) # {}
             THEN Averages!DailyRows(s, group.zone, since, d) ELSE daily[s][d]
<1>1. daily'[s][d] =
        IF <<s, d>> \in Averages!Averaged(group, since) THEN Averages!DailyRows(s, group.zone, since, d)
        ELSE IF <<s, d>> \in {} THEN {} ELSE daily[s][d]
  BY DEF Averages!UpsertDaily
<1>2. <<s, d>> \in Averages!Averaged(group, since) <=>
        s \in group.streams /\ Averages!DailyRows(s, group.zone, since, d) # {}
  BY DEF Averages!Averaged
<1> QED
  BY <1>1, <1>2

\* A calculation takes each day as a whole, or not at all.
LEMMA StationRecentRows ==
  ASSUME Averages!AveragesAssumption, StationRowTypes, NEW s \in Averages!Stored,
    NEW d \in Averages!Days
  PROVE  Averages!DailyRows(s, Averages!Zone(s), Averages!RecentSince(Averages!Zone(s)), d) =
           IF d >= StationRecently(s) THEN Averages!True(s, d) ELSE {}
<1> DEFINE z == Averages!Zone(s)
           since == Averages!RecentSince(z)
           M == {t \in Averages!Instants : measured[s][t] # 0 /\ Averages!Day(t, z) = d}
           N == {t \in Averages!Instants : measured[s][t] # 0 /\ t > since /\ Averages!Day(t, z) = d}
<1>1. z \in Averages!Zones
  BY DEF Averages!Stored, Averages!Zone, Averages!Zones, StationRowTypes
<1>2. now - Lookback * DayLength \in Int
  BY StationAtLeastOnce, StationInstantsAre DEF Averages!AveragesAssumption, StationRowTypes
<1>3. ASSUME NEW t \in Averages!Instants
      PROVE  t > since <=> Averages!Day(t, z) >= StationRecently(s)
  BY <1>1, <1>2, StationDayBegins, StationInstantsAre DEF Averages!RecentSince, StationRecently
<1>4. CASE d >= StationRecently(s)
  <2>1. N = M
    BY <1>3, <1>4
  <2> QED
    BY <1>4, <2>1 DEF Averages!DailyRows, Averages!True
<1>5. CASE ~(d >= StationRecently(s))
  <2>1. N = {}
    BY <1>3, <1>5
  <2>2. Averages!RowsAt(s, N) = {}
    BY <2>1 DEF Averages!RowsAt
  <2> QED
    BY <1>5, <2>2 DEF Averages!DailyRows
<1> QED
  BY <1>4, <1>5

\* A rebuild takes all days, unless it knows of no measurement of a stream that has some.
LEMMA StationHistoryRows ==
  ASSUME Averages!AveragesAssumption, StationRowTypes, StationRebuildTypes, StationBegins,
    NEW r \in Rebuilds,
         NEW group \in groups[r], NEW s \in group.streams, s \in Averages!Stored,
         group.zone = Averages!Zone(s), s \notin Averages!SinceBegun(group), NEW d \in Averages!Days
  PROVE  Averages!DailyRows(s, group.zone, Averages!HistorySince(group), d) = Averages!True(s, d)
<1> DEFINE z == Averages!Zone(s)
           since == Averages!HistorySince(group)
           M == {t \in Averages!Instants : measured[s][t] # 0 /\ Averages!Day(t, z) = d}
           N == {t \in Averages!Instants : measured[s][t] # 0 /\ t > since /\ Averages!Day(t, z) = d}
<1>1. M = N
  <2>1. CASE group.first = {}
    <3>1. \A t \in Averages!Instants : measured[s][t] = 0
      BY <2>1 DEF Averages!SinceBegun
    <3> QED
      BY <3>1
  <2>2. CASE group.first # {}
    <3>0. group \in StationHistory
      BY DEF StationRebuildTypes
    <3>1. group.first \in SUBSET Nat
      BY <3>0, StationInstantsAre DEF StationHistory
    <3>2. Averages!Min(group.first) \in Nat
      BY <2>2, <3>1, StationMinOfNaturals
    <3>3. z \in Averages!Zones
      BY DEF Averages!Stored, Averages!Zone, Averages!Zones, StationRowTypes
    <3>4. Averages!Min(group.first) - DayLength \in Int
      BY <3>2 DEF Averages!AveragesAssumption
    <3>5. since \in Int /\ since <= Averages!Min(group.first) - DayLength
      BY <2>2, <3>3, <3>4, StationDayBegins DEF Averages!HistorySince
    <3>6. \A t \in Averages!Instants : measured[s][t] # 0 => t > Averages!Min(group.first) - DayLength
      BY <2>2 DEF StationBegins
    <3>7. ASSUME NEW t \in Averages!Instants, measured[s][t] # 0
          PROVE  t > since
      <4>1. t > Averages!Min(group.first) - DayLength /\ t \in Int
        BY <3>6, <3>7, StationInstantsAre
      <4> HIDE DEF since
      <4> QED
        BY <3>4, <3>5, <4>1
    <3> QED
      BY <3>7
  <2> QED
    BY <2>1, <2>2
<1> QED
  BY <1>1 DEF Averages!DailyRows, Averages!True

-----------------------------------------------------------------------------
(* Measurements. *)
LEMMA StationStillMeasured ==
  ASSUME StationMeasured, Averages!Stored \subseteq Averages!Stored', UNCHANGED <<measured, daily>>,
         now \in Int, now' \in Int, now' >= now
  PROVE  StationMeasured'
<1>1. ASSUME NEW s \in Streams, NEW t \in Averages!Instants, measured'[s][t] # 0
      PROVE  s \in Averages!Stored' /\ t <= now'
  BY <1>1, StationInstantsAre DEF StationMeasured
<1>2. ASSUME NEW s \in Streams \ Averages!Stored', NEW d \in Averages!Days
      PROVE  daily'[s][d] = {}
  BY DEF StationMeasured
<1> QED
  BY <1>1, <1>2 DEF StationMeasured

LEMMA StationMeasuredNext ==
  Averages!AveragesAssumption /\ StationIInv /\ [Averages!Next]_(Averages!vars)
    => StationMeasured'
<1> SUFFICES ASSUME Averages!AveragesAssumption, StationIInv, [Averages!Next]_(Averages!vars)
             PROVE  StationMeasured'
  OBVIOUS
<1> /\ StationRowTypes /\ StationKnown /\ StationMeasured /\ StationCalculatorTypes
    /\ StationRebuildTypes
  BY DEF StationIInv, StationTypeOK
<1>0. Averages!Stored \subseteq Averages!Stored'
  BY StationStoredGrows
<1>1. CASE UNCHANGED Averages!vars
  <2>1. UNCHANGED <<measured, daily>> /\ now' >= now /\ now \in Int /\ now' \in Int
    BY <1>1, StationInstantsAre DEF Averages!vars, Averages!vars, Averages!streams, StationRowTypes
  <2> QED
    BY <1>0, <2>1, StationStillMeasured
<1>2. ASSUME NEW i \in Imports, Averages!FetchList(i) PROVE StationMeasured'
  <2>1. UNCHANGED <<measured, daily>> /\ now' >= now /\ now \in Int /\ now' \in Int
    BY <1>2, StationInstantsAre DEF Averages!FetchList, Averages!vars, Averages!streams,
        StationRowTypes
  <2> QED
    BY <1>0, <2>1, StationStillMeasured
<1>3. ASSUME NEW i \in Imports, Averages!UpsertStation(i) PROVE StationMeasured'
  <2>1. UNCHANGED <<measured, daily>> /\ now' >= now /\ now \in Int /\ now' \in Int
    BY <1>3, StationInstantsAre DEF Averages!UpsertStation, Averages!vars, Averages!streams,
        StationRowTypes
  <2> QED
    BY <1>0, <2>1, StationStillMeasured
<1>4. ASSUME NEW i \in Imports, Averages!UpdateStreams(i) PROVE StationMeasured'
  <2>1. UNCHANGED <<measured, daily>> /\ now' >= now /\ now \in Int /\ now' \in Int
    BY <1>4, StationInstantsAre DEF Averages!UpdateStreams, Averages!vars, Averages!streams,
        StationRowTypes
  <2> QED
    BY <1>0, <2>1, StationStillMeasured
<1>5. ASSUME NEW i \in Imports, Averages!PushRebuild(i) PROVE StationMeasured'
  <2>1. UNCHANGED <<measured, daily>> /\ now' >= now /\ now \in Int /\ now' \in Int
    BY <1>5, StationInstantsAre DEF Averages!PushRebuild, Averages!vars, Averages!streams,
        StationRowTypes
  <2> QED
    BY <1>0, <2>1, StationStillMeasured
<1>6. ASSUME NEW i \in Imports, Averages!CreateStreams(i) PROVE StationMeasured'
  <2>1. UNCHANGED <<measured, daily>> /\ now' >= now /\ now \in Int /\ now' \in Int
    BY <1>6, StationInstantsAre DEF Averages!CreateStreams, Averages!vars, Averages!streams,
        StationRowTypes
  <2> QED
    BY <1>0, <2>1, StationStillMeasured
<1>7. ASSUME NEW i \in Imports, Averages!FailImport(i) PROVE StationMeasured'
  <2>1. UNCHANGED <<measured, daily>> /\ now' >= now /\ now \in Int /\ now' \in Int
    BY <1>7, StationInstantsAre DEF Averages!FailImport, Averages!vars, Averages!streams,
        StationRowTypes
  <2> QED
    BY <1>0, <2>1, StationStillMeasured
<1>8. ASSUME NEW c \in Calculators, Averages!ReadRecent(c) PROVE StationMeasured'
  <2>1. UNCHANGED <<measured, daily>> /\ now' >= now /\ now \in Int /\ now' \in Int
    BY <1>8, StationInstantsAre DEF Averages!ReadRecent, Averages!vars, Averages!streams,
        StationRowTypes
  <2> QED
    BY <1>0, <2>1, StationStillMeasured
<1>9. ASSUME NEW c \in Calculators, NEW group \in todo[c], Averages!Average(c, group)
      PROVE  StationMeasured'
  <2>1. UNCHANGED <<measured, now, point>>
    BY <1>9 DEF Averages!Average, Averages!streams
  <2>2. group.streams \subseteq Averages!Stored
    BY <1>9 DEF StationKnown, Averages!Average
  <2>3. ASSUME NEW s \in Streams \ Averages!Stored, NEW d \in Averages!Days PROVE daily'[s][d] = {}
    <3>1. daily[s][d] = {}
      BY DEF StationMeasured
    <3>4. Averages!UpsertDaily(group, Averages!RecentSince(group.zone), {})
      BY <1>9 DEF Averages!Average
    <3>5. s \in Streams /\ s \notin group.streams
      BY <2>2, <2>3
    <3>6. daily'[s][d] = daily[s][d]
      BY <3>4, <3>5, StationAverageIs
    <3> QED
      BY <3>1, <3>6
  <2> QED
    BY <2>1, <2>3 DEF StationMeasured, Averages!Stored
<1>10. ASSUME NEW c \in Calculators, Averages!FinishAverages(c) PROVE StationMeasured'
  <2>1. UNCHANGED <<measured, daily>> /\ now' >= now /\ now \in Int /\ now' \in Int
    BY <1>10, StationInstantsAre DEF Averages!FinishAverages, Averages!vars, Averages!streams,
        StationRowTypes
  <2> QED
    BY <1>0, <2>1, StationStillMeasured
<1>11. ASSUME NEW c \in Calculators, Averages!FailCalculator(c) PROVE StationMeasured'
  <2>1. UNCHANGED <<measured, daily>> /\ now' >= now /\ now \in Int /\ now' \in Int
    BY <1>11, StationInstantsAre DEF Averages!FailCalculator, Averages!vars, Averages!streams,
        StationRowTypes
  <2> QED
    BY <1>0, <2>1, StationStillMeasured
<1>12. ASSUME NEW r \in Rebuilds, Averages!ReadHistory(r) PROVE StationMeasured'
  <2>1. UNCHANGED <<measured, daily>> /\ now' >= now /\ now \in Int /\ now' \in Int
    BY <1>12, StationInstantsAre DEF Averages!ReadHistory, Averages!vars, Averages!streams,
        StationRowTypes
  <2> QED
    BY <1>0, <2>1, StationStillMeasured
<1>13. ASSUME NEW r \in Rebuilds, NEW group \in groups[r], Averages!DeleteHistory(r, group)
       PROVE  StationMeasured'
  <2>1. UNCHANGED <<measured, daily>> /\ now' >= now /\ now \in Int /\ now' \in Int
    BY <1>13, StationInstantsAre DEF Averages!DeleteHistory, Averages!vars, Averages!streams,
        StationRowTypes
  <2> QED
    BY <1>0, <2>1, StationStillMeasured
<1>14. ASSUME NEW r \in Rebuilds, NEW group \in open[r], Averages!InsertHistory(r, group)
       PROVE  StationMeasured'
  <2>1. UNCHANGED <<measured, now, point>>
    BY <1>14 DEF Averages!InsertHistory, Averages!streams
  <2>2. group.streams \subseteq Averages!Stored
    <3>1. group \in groups[r] /\ rpc[r] # "none"
      BY <1>14 DEF StationKnown
    <3> QED
      BY <3>1 DEF StationKnown
  <2>3. ASSUME NEW s \in Streams \ Averages!Stored, NEW d \in Averages!Days PROVE daily'[s][d] = {}
    <3>1. daily[s][d] = {}
      BY DEF StationMeasured
    <3>2. <<s, d>> \notin doomed[r]
      BY <1>14, <2>2, <2>3 DEF StationKnown
    <3> QED
      BY <1>14, <2>2, <2>3, <3>1, <3>2, StationUpsertIs DEF Averages!InsertHistory
  <2> QED
    BY <2>1, <2>3 DEF StationMeasured, Averages!Stored
<1>15. ASSUME NEW r \in Rebuilds, Averages!FailRebuild(r) PROVE StationMeasured'
  <2>1. UNCHANGED <<measured, daily>> /\ now' >= now /\ now \in Int /\ now' \in Int
    BY <1>15, StationInstantsAre DEF Averages!FailRebuild, Averages!vars, Averages!streams,
        StationRowTypes
  <2> QED
    BY <1>0, <2>1, StationStillMeasured
<1>16. ASSUME NEW s \in Streams, NEW t \in Averages!Instants, Averages!LoadMeasurement(s, t)
       PROVE  StationMeasured'
  <2>1. /\ measured' = [measured EXCEPT ![s][t] = @ + 1]
        /\ UNCHANGED <<now, daily, point>> /\ s \in Averages!Stored /\ t <= now
    BY <1>16 DEF Averages!LoadMeasurement
  <2>2. ASSUME NEW x \in Streams, NEW u \in Averages!Instants, x # s \/ u # t
        PROVE  measured'[x][u] = measured[x][u]
    BY <2>1, <2>2 DEF StationRowTypes
  <2> QED
    BY <2>1, <2>2 DEF StationMeasured, Averages!Stored
<1>17. CASE Averages!Tick
  <2>1. UNCHANGED <<measured, daily>> /\ now' >= now /\ now \in Int /\ now' \in Int
    BY <1>17, StationInstantsAre DEF Averages!Tick, Averages!vars, Averages!streams, StationRowTypes
  <2> QED
    BY <1>0, <2>1, StationStillMeasured
<1> QED
  BY <1>1, <1>2, <1>3, <1>4, <1>5, <1>6, <1>7, <1>8, <1>9,
    <1>10, <1>11, <1>12, <1>13, <1>14, <1>15, <1>16, <1>17 DEF Averages!Next, Averages!Import,
      Averages!Calculate, Averages!Rebuild

LEMMA StationBeginsNext ==
  Averages!AveragesAssumption /\ StationIInv /\ [Averages!Next]_(Averages!vars)
    => StationBegins'
<1> SUFFICES ASSUME Averages!AveragesAssumption, StationIInv, [Averages!Next]_(Averages!vars)
             PROVE  StationBegins'
  OBVIOUS
<1> StationRowTypes /\ StationKnown /\ StationMeasured /\ StationBegins /\ StationRebuildTypes
  BY DEF StationIInv, StationTypeOK
<1>1. CASE UNCHANGED Averages!vars
  BY <1>1 DEF Averages!vars, Averages!rebuilding, StationBegins
<1>2. ASSUME NEW i \in Imports, Averages!FetchList(i) PROVE StationBegins'
  <2>1. UNCHANGED <<groups, measured, now>>
    BY <1>2 DEF Averages!FetchList, Averages!rebuilding
  <2> QED
    BY <2>1 DEF StationBegins
<1>3. ASSUME NEW i \in Imports, Averages!UpsertStation(i) PROVE StationBegins'
  <2>1. UNCHANGED <<groups, measured, now>>
    BY <1>3 DEF Averages!UpsertStation, Averages!rebuilding
  <2> QED
    BY <2>1 DEF StationBegins
<1>4. ASSUME NEW i \in Imports, Averages!UpdateStreams(i) PROVE StationBegins'
  <2>1. UNCHANGED <<groups, measured, now>>
    BY <1>4 DEF Averages!UpdateStreams, Averages!rebuilding
  <2> QED
    BY <2>1 DEF StationBegins
<1>5. ASSUME NEW i \in Imports, Averages!PushRebuild(i) PROVE StationBegins'
  <2>1. UNCHANGED <<groups, measured, now>>
    BY <1>5 DEF Averages!PushRebuild, Averages!rebuilding
  <2> QED
    BY <2>1 DEF StationBegins
<1>6. ASSUME NEW i \in Imports, Averages!CreateStreams(i) PROVE StationBegins'
  <2>1. UNCHANGED <<groups, measured, now>>
    BY <1>6 DEF Averages!CreateStreams, Averages!rebuilding
  <2> QED
    BY <2>1 DEF StationBegins
<1>7. ASSUME NEW i \in Imports, Averages!FailImport(i) PROVE StationBegins'
  <2>1. UNCHANGED <<groups, measured, now>>
    BY <1>7 DEF Averages!FailImport, Averages!rebuilding
  <2> QED
    BY <2>1 DEF StationBegins
<1>8. ASSUME NEW c \in Calculators, Averages!ReadRecent(c) PROVE StationBegins'
  <2>1. UNCHANGED <<groups, measured, now>>
    BY <1>8 DEF Averages!ReadRecent, Averages!rebuilding
  <2> QED
    BY <2>1 DEF StationBegins
<1>9. ASSUME NEW c \in Calculators, NEW group \in todo[c], Averages!Average(c, group)
      PROVE  StationBegins'
  <2>1. UNCHANGED <<groups, measured, now>>
    BY <1>9 DEF Averages!Average, Averages!rebuilding
  <2> QED
    BY <2>1 DEF StationBegins
<1>10. ASSUME NEW c \in Calculators, Averages!FinishAverages(c) PROVE StationBegins'
  <2>1. UNCHANGED <<groups, measured, now>>
    BY <1>10 DEF Averages!FinishAverages, Averages!rebuilding
  <2> QED
    BY <2>1 DEF StationBegins
<1>11. ASSUME NEW c \in Calculators, Averages!FailCalculator(c) PROVE StationBegins'
  <2>1. UNCHANGED <<groups, measured, now>>
    BY <1>11 DEF Averages!FailCalculator, Averages!rebuilding
  <2> QED
    BY <2>1 DEF StationBegins
<1>12. ASSUME NEW r \in Rebuilds, Averages!ReadHistory(r) PROVE StationBegins'
  <2> DEFINE H(g) == [zone |-> g.zone, streams |-> g.streams,
                      first |-> {t \in Averages!Instants : \E s \in g.streams : measured[s][t] # 0}]
  <2>1. /\ groups' = [groups EXCEPT ![r] = {H(g) : g \in Averages!GroupByZone(asked[r])}]
        /\ UNCHANGED <<measured, now>>
    BY <1>12 DEF Averages!ReadHistory
  <2>2. ASSUME NEW g \in Averages!GroupByZone(asked[r]), H(g).first # {}
        PROVE  /\ Averages!Min(H(g).first) <= now
               /\ \A s \in H(g).streams : \A t \in Averages!Instants :
                    measured[s][t] # 0 => t > Averages!Min(H(g).first) - DayLength
    <3> DEFINE first == {t \in Averages!Instants : \E s \in g.streams : measured[s][t] # 0}
    <3>1. first \in SUBSET Nat /\ first # {} /\ H(g).first = first
      BY <2>2, StationInstantsAre
    <3>2. Averages!Min(first) \in first /\ \A t \in first : Averages!Min(first) <= t
      BY <3>1, StationMinOfNaturals
    <3>3. Averages!Min(first) \in Nat
      BY <3>1, <3>2
    <3>4. Averages!Min(first) <= now
      <4>1. PICK s \in g.streams : measured[s][Averages!Min(first)] # 0
        BY <3>2
      <4>2. g.streams \subseteq Streams
        BY <1>12 DEF Averages!GroupByZone, Averages!ReadHistory, StationRebuildTypes
      <4> QED
        BY <3>2, <4>1, <4>2 DEF StationMeasured
    <3>5. ASSUME NEW s \in g.streams, NEW t \in Averages!Instants, measured[s][t] # 0
          PROVE  t > Averages!Min(first) - DayLength
      <4>1. Averages!Min(first) <= t /\ t \in Nat
        BY <3>2, <3>5, StationInstantsAre
      <4> QED
        BY <3>3, <4>1 DEF Averages!AveragesAssumption
    <3> HIDE DEF first
    <3> QED
      BY <3>1, <3>4, <3>5
  <2>3. \A q \in Rebuilds : groups'[q] =
        IF q = r THEN {H(g) : g \in Averages!GroupByZone(asked[r])} ELSE groups[q]
    BY <2>1 DEF StationRebuildTypes
  <2> HIDE DEF H
  <2> QED
    BY <2>1, <2>2, <2>3 DEF StationBegins
<1>13. ASSUME NEW r \in Rebuilds, NEW group \in groups[r], Averages!DeleteHistory(r, group)
       PROVE  StationBegins'
  <2>1. UNCHANGED <<groups, measured, now>>
    BY <1>13 DEF Averages!DeleteHistory, Averages!rebuilding
  <2> QED
    BY <2>1 DEF StationBegins
<1>14. ASSUME NEW r \in Rebuilds, NEW group \in open[r], Averages!InsertHistory(r, group)
       PROVE  StationBegins'
  <2>1. /\ \A q \in Rebuilds : groups'[q] \subseteq groups[q]
        /\ UNCHANGED <<measured, now>>
    BY <1>14 DEF Averages!InsertHistory, StationRebuildTypes
  <2> QED
    BY <2>1 DEF StationBegins
<1>15. ASSUME NEW r \in Rebuilds, Averages!FailRebuild(r) PROVE StationBegins'
  <2>1. /\ \A q \in Rebuilds : groups'[q] \subseteq groups[q]
        /\ UNCHANGED <<measured, now>>
    BY <1>15 DEF Averages!FailRebuild, StationRebuildTypes
  <2> QED
    BY <2>1 DEF StationBegins
<1>16. ASSUME NEW s \in Streams, NEW t \in Averages!Instants, Averages!LoadMeasurement(s, t)
       PROVE  StationBegins'
  <2>1. /\ measured' = [measured EXCEPT ![s][t] = @ + 1] /\ t > now - DayLength
        /\ UNCHANGED <<groups, now>>
    BY <1>16 DEF Averages!LoadMeasurement, Averages!rebuilding
  <2>2. ASSUME NEW x \in Streams, NEW u \in Averages!Instants, x # s \/ u # t
        PROVE  measured'[x][u] = measured[x][u]
    BY <2>1, <2>2 DEF StationRowTypes
  <2>3. ASSUME NEW r \in Rebuilds, NEW g \in groups[r], g.first # {}
        PROVE  /\ Averages!Min(g.first) <= now /\ t > Averages!Min(g.first) - DayLength
               /\ g.streams \subseteq Streams
    <3>0. g \in StationHistory
      BY DEF StationRebuildTypes
    <3>1. g.first \in SUBSET Nat /\ g.streams \subseteq Streams
      BY <3>0, StationInstantsAre DEF StationHistory
    <3>2. Averages!Min(g.first) \in Nat
      BY <2>3, <3>1, StationMinOfNaturals
    <3>3. Averages!Min(g.first) <= now
      BY <2>3 DEF StationBegins
    <3>4. now \in Int /\ DayLength \in Int /\ t \in Int
      BY StationInstantsAre DEF Averages!AveragesAssumption, StationRowTypes
    <3> QED
      BY <2>1, <3>1, <3>2, <3>3, <3>4
  <2> QED
    BY <2>1, <2>2, <2>3 DEF StationBegins
<1>17. CASE Averages!Tick
  <2>1. \A r \in Rebuilds : groups'[r] = {}
    BY <1>17 DEF Averages!Tick, Averages!Quiet, StationKnown, Averages!rebuilding
  <2> QED
    BY <2>1 DEF StationBegins
<1> QED
  BY <1>1, <1>2, <1>3, <1>4, <1>5, <1>6, <1>7, <1>8, <1>9,
    <1>10, <1>11, <1>12, <1>13, <1>14, <1>15, <1>16, <1>17 DEF Averages!Next, Averages!Import,
      Averages!Calculate, Averages!Rebuild

-----------------------------------------------------------------------------
(* The averages of one stream. *)

LEMMA StationKeepsTrue ==
  ASSUME NEW s \in Streams, StationTruthful(s),
         \A d \in Averages!Days : daily'[s][d] = daily[s][d] /\ Averages!True(s,
           d)' = Averages!True(s, d),
         StationRecently(s)' = StationRecently(s),
         StationOwed(s) => StationOwed(s)',
         StationUnderway(s) => StationUnderway(s)' \/ StationOwed(s)',
         \A d \in Averages!Days : StationDoomed(s, d) => StationDoomed(s, d)' \/ StationOwed(s)',
         fresh[s] = "new" => fresh'[s] = "new" \/ StationCounted(s),
         StationCounted(s)' => StationCounted(s)
  PROVE  StationTruthful(s)'
<1>1. ASSUME ~StationOwed(s)', NEW d \in Averages!Days, daily'[s][d] # {}, Averages!True(s, d)' = {}
      PROVE  StationDoomed(s, d)'
  BY <1>1 DEF StationTruthful, StationStrays
<1>2. ASSUME ~StationOwed(s)', ~StationUnderway(s)', NEW d \in Averages!Days, Averages!True(s, d)' # {}
      PROVE  daily'[s][d] = Averages!True(s, d)' \/ (fresh'[s] = "new" /\ d >= StationRecently(s)')
  <2>1. daily[s][d] = Averages!True(s, d) \/ (fresh[s] = "new" /\ d >= StationRecently(s))
    BY <1>2 DEF StationTruthful, StationWhole
  <2>2. StationCounted(s) /\ d >= StationRecently(s) => daily[s][d] = Averages!True(s, d)
    BY <1>2 DEF StationTruthful, StationLately
  <2> QED
    BY <2>1, <2>2
<1>3. ASSUME StationCounted(s)', NEW d \in Averages!Days, Averages!True(s, d)' # {},
         d >= StationRecently(s)'
      PROVE  daily'[s][d] = Averages!True(s, d)'
  BY <1>3 DEF StationTruthful, StationLately
<1> QED
  BY <1>1, <1>2, <1>3 DEF StationTruthful, StationStrays, StationWhole, StationLately

LEMMA StationSameRows ==
  ASSUME NEW s \in Streams, \A t \in Averages!Instants : measured'[s][t] = measured[s][t],
         Averages!Zone(s)' = Averages!Zone(s)
  PROVE  \A d \in Averages!Days : Averages!True(s, d)' = Averages!True(s, d)
<1> SUFFICES ASSUME NEW d \in Averages!Days PROVE Averages!True(s, d)' = Averages!True(s, d)
  OBVIOUS
<1>1. {t \in Averages!Instants : measured'[s][t] # 0 /\ Averages!Day(t, Averages!Zone(s)') = d} =
      {t \in Averages!Instants : measured[s][t] # 0 /\ Averages!Day(t, Averages!Zone(s)) = d}
  OBVIOUS
<1>2. ASSUME NEW S \in SUBSET Averages!Instants
      PROVE  Averages!RowsAt(s, S)' = Averages!RowsAt(s, S)
  BY DEF Averages!RowsAt
<1> QED
  BY <1>1, <1>2 DEF Averages!True

LEMMA StationSameRecently ==
  ASSUME NEW s \in Streams, Averages!Zone(s)' = Averages!Zone(s), now' = now
  PROVE  StationRecently(s)' = StationRecently(s)
BY DEF StationRecently, Averages!RecentSince

LEMMA StationKeepsRows ==
  ASSUME NEW s \in Streams, StationTruthful(s), UNCHANGED <<measured, daily, point, now>>,
         StationOwed(s) => StationOwed(s)',
         StationUnderway(s) => StationUnderway(s)' \/ StationOwed(s)',
         \A d \in Averages!Days : StationDoomed(s, d) => StationDoomed(s, d)' \/ StationOwed(s)',
         fresh[s] = "new" => fresh'[s] = "new" \/ StationCounted(s),
         StationCounted(s)' => StationCounted(s)
  PROVE  StationTruthful(s)'
<1>1. Averages!Zone(s)' = Averages!Zone(s)
  BY DEF Averages!Zone
<1> QED
  BY <1>1, StationSameRows, StationSameRecently, StationKeepsTrue

LEMMA StationTruthfulNext ==
  Averages!AveragesAssumption /\ StationIInv /\ [Averages!Next]_(Averages!vars)
    => StationAllTruthful'
<1> SUFFICES ASSUME Averages!AveragesAssumption, StationIInv, [Averages!Next]_(Averages!vars)
             PROVE  StationAllTruthful'
  OBVIOUS
<1> /\ StationRowTypes /\ StationCalculatorTypes /\ StationRebuildTypes /\ StationImportTypes
    /\ StationSits /\ StationKnown /\ StationMeasured /\ StationBegins /\ StationAllTruthful
  BY DEF StationIInv, StationTypeOK
<1>1. CASE UNCHANGED Averages!vars
  <2> SUFFICES ASSUME NEW s \in Averages!Stored' \ misled' PROVE StationTruthful(s)'
    BY DEF StationAllTruthful
  <2>1. UNCHANGED <<measured, daily, point, now, misled>>
    BY <1>1 DEF Averages!vars, Averages!streams, Averages!vars
  <2>2. s \in Streams /\ StationTruthful(s)
    BY <2>1 DEF Averages!Stored, StationAllTruthful
  <2>0. UNCHANGED Averages!rebuilding
    BY <1>1 DEF Averages!vars, Averages!vars
  <2>3. StationUnderway(s) => StationUnderway(s)' \/ StationOwed(s)'
    BY <2>0 DEF StationUnderway, Averages!rebuilding
  <2>4. \A d \in Averages!Days : StationDoomed(s, d) => StationDoomed(s, d)' \/ StationOwed(s)'
    BY <2>0 DEF StationDoomed, Averages!rebuilding
  <2>5. UNCHANGED <<fresh, Averages!calculating>>
    BY <1>1 DEF Averages!vars, Averages!streams, Averages!vars
  <2>6. StationCounted(s)' => StationCounted(s)
    BY <2>5 DEF StationCounted, StationHasAveraged, Averages!calculating
  <2>7. StationOwed(s) => StationOwed(s)'
    BY <1>1, <2>0 DEF Averages!vars, Averages!vars, Averages!importing, Averages!rebuilding,
        StationOwed, StationImportTypes
  <2> QED
    BY <2>1, <2>2, <2>3, <2>4, <2>5, <2>6, <2>7, StationKeepsRows
<1>2. ASSUME NEW i \in Imports, Averages!FetchList(i) PROVE StationAllTruthful'
  <2> SUFFICES ASSUME NEW s \in Averages!Stored' \ misled' PROVE StationTruthful(s)'
    BY DEF StationAllTruthful
  <2>1. UNCHANGED <<measured, daily, point, now, misled>>
    BY <1>2 DEF Averages!FetchList, Averages!streams, Averages!vars
  <2>2. s \in Streams /\ StationTruthful(s)
    BY <2>1 DEF Averages!Stored, StationAllTruthful
  <2>0. UNCHANGED Averages!rebuilding
    BY <1>2 DEF Averages!FetchList, Averages!vars
  <2>3. StationUnderway(s) => StationUnderway(s)' \/ StationOwed(s)'
    BY <2>0 DEF StationUnderway, Averages!rebuilding
  <2>4. \A d \in Averages!Days : StationDoomed(s, d) => StationDoomed(s, d)' \/ StationOwed(s)'
    BY <2>0 DEF StationDoomed, Averages!rebuilding
  <2>5. UNCHANGED <<fresh, Averages!calculating>>
    BY <1>2 DEF Averages!FetchList, Averages!streams, Averages!vars
  <2>6. StationCounted(s)' => StationCounted(s)
    BY <2>5 DEF StationCounted, StationHasAveraged, Averages!calculating
  <2>7. StationOwed(s) => StationOwed(s)'
    BY <1>2, <2>0 DEF Averages!FetchList, Averages!vars, Averages!importing, Averages!rebuilding,
        StationOwed, StationImportTypes
  <2> QED
    BY <2>1, <2>2, <2>3, <2>4, <2>5, <2>6, <2>7, StationKeepsRows
<1>3. ASSUME NEW i \in Imports, Averages!UpsertStation(i) PROVE StationAllTruthful'
  <2> SUFFICES ASSUME NEW s \in Averages!Stored' \ misled' PROVE StationTruthful(s)'
    BY DEF StationAllTruthful
  <2>1. UNCHANGED <<measured, daily, point, now, misled>>
    BY <1>3 DEF Averages!UpsertStation, Averages!streams, Averages!vars
  <2>2. s \in Streams /\ StationTruthful(s)
    BY <2>1 DEF Averages!Stored, StationAllTruthful
  <2>0. UNCHANGED Averages!rebuilding
    BY <1>3 DEF Averages!UpsertStation, Averages!vars
  <2>3. StationUnderway(s) => StationUnderway(s)' \/ StationOwed(s)'
    BY <2>0 DEF StationUnderway, Averages!rebuilding
  <2>4. \A d \in Averages!Days : StationDoomed(s, d) => StationDoomed(s, d)' \/ StationOwed(s)'
    BY <2>0 DEF StationDoomed, Averages!rebuilding
  <2>5. UNCHANGED <<fresh, Averages!calculating>>
    BY <1>3 DEF Averages!UpsertStation, Averages!streams, Averages!vars
  <2>6. StationCounted(s)' => StationCounted(s)
    BY <2>5 DEF StationCounted, StationHasAveraged, Averages!calculating
  <2>7. StationOwed(s) => StationOwed(s)'
    BY <1>3, <2>0 DEF Averages!UpsertStation, Averages!vars, Averages!importing,
        Averages!rebuilding, StationOwed, StationImportTypes
  <2> QED
    BY <2>1, <2>2, <2>3, <2>4, <2>5, <2>6, <2>7, StationKeepsRows
<1>4. ASSUME NEW i \in Imports, Averages!UpdateStreams(i) PROVE StationAllTruthful'
  <2> SUFFICES ASSUME NEW s \in Averages!Stored' \ misled' PROVE StationTruthful(s)'
    BY DEF StationAllTruthful
  <2>0. UNCHANGED Averages!rebuilding
    BY <1>4 DEF Averages!UpdateStreams, Averages!vars
  <2>3. StationUnderway(s) => StationUnderway(s)' \/ StationOwed(s)'
    BY <2>0 DEF StationUnderway, Averages!rebuilding
  <2>4. \A d \in Averages!Days : StationDoomed(s, d) => StationDoomed(s, d)' \/ StationOwed(s)'
    BY <2>0 DEF StationDoomed, Averages!rebuilding
  <2>1. /\ UNCHANGED <<measured, daily, now, misled>>
        /\ point' = [x \in Streams |-> IF x \in changes[i] THEN row[i] ELSE point[x]]
        /\ ipc[i] = "updating" /\ ipc' = [ipc EXCEPT ![i] = "pushing"] /\ UNCHANGED rezoned
    BY <1>4 DEF Averages!UpdateStreams
  <2>2. changes[i] = Averages!Changed(row[i]) /\ rezoned[i] = Averages!Rezoned(row[i])
    BY <2>1 DEF StationSits
  <2>5. s \in Streams /\ s \in Averages!Stored
    BY <2>1, <2>2 DEF Averages!Stored, Averages!Changed
  <2>6. StationTruthful(s)
    BY <2>1, <2>5 DEF StationAllTruthful
  <2>7. /\ fresh' = [w \in Streams |-> IF w \in changes[i] THEN "new" ELSE fresh[w]]
        /\ \A c \in Calculators : picked'[c] = picked[c] \ changes[i]
        /\ UNCHANGED todo
    BY <1>4 DEF Averages!UpdateStreams, Averages!Touch
  <2>8. StationCounted(s)' => StationCounted(s) /\ s \notin changes[i]
    BY <2>5, <2>7 DEF StationCounted, StationHasAveraged
  <2>9. CASE s \in rezoned[i]
    <3>1. StationOwed(s)'
      BY <2>1, <2>9 DEF StationOwed, StationImportTypes
    <3>2. s \in changes[i]
      BY <2>2, <2>9 DEF Averages!Rezoned
    <3> QED
      BY <2>8, <3>1, <3>2 DEF StationTruthful
  <2>10. CASE s \notin rezoned[i]
    <3>1. Averages!Zone(s)' = Averages!Zone(s)
      <4>1. CASE s \in changes[i]
        <5>1. Averages!Zone(s) = ZoneAt[row[i]]
          BY <2>2, <2>10, <4>1 DEF Averages!Rezoned
        <5> QED
          BY <2>1, <2>5, <4>1, <5>1 DEF Averages!Zone
      <4>2. CASE s \notin changes[i]
        BY <2>1, <2>5, <4>2 DEF Averages!Zone
      <4> QED
        BY <4>1, <4>2
    <3>2. \A d \in Averages!Days : Averages!True(s, d)' = Averages!True(s, d)
      BY <2>1, <2>5, <3>1, StationSameRows
    <3>3. StationRecently(s)' = StationRecently(s)
      BY <2>1, <2>5, <3>1, StationSameRecently
    <3>4. StationOwed(s) => StationOwed(s)'
      BY <2>0, <2>1 DEF StationOwed, StationImportTypes, Averages!rebuilding
    <3>5. fresh[s] = "new" => fresh'[s] = "new"
      BY <2>5, <2>7
    <3> QED
      BY <2>1, <2>3, <2>4, <2>5, <2>6, <2>8, <3>2, <3>3, <3>4, <3>5, StationKeepsTrue
  <2> QED
    BY <2>9, <2>10
<1>5. ASSUME NEW i \in Imports, Averages!PushRebuild(i) PROVE StationAllTruthful'
  <2> SUFFICES ASSUME NEW s \in Averages!Stored' \ misled' PROVE StationTruthful(s)'
    BY DEF StationAllTruthful
  <2>1. UNCHANGED <<measured, daily, point, now, misled>>
    BY <1>5 DEF Averages!PushRebuild, Averages!streams, Averages!vars
  <2>2. s \in Streams /\ StationTruthful(s)
    BY <2>1 DEF Averages!Stored, StationAllTruthful
  <2>5. UNCHANGED <<fresh, Averages!calculating>>
    BY <1>5 DEF Averages!PushRebuild, Averages!streams, Averages!vars
  <2>6. StationCounted(s)' => StationCounted(s)
    BY <2>5 DEF StationCounted, StationHasAveraged, Averages!calculating
  <2>3. UNCHANGED <<groups, open, doomed>>
    BY <1>5 DEF Averages!PushRebuild, Averages!rebuilding
  <2>4. StationUnderway(s)' = StationUnderway(s) /\ \A d \in Averages!Days : StationDoomed(s,
           d)' = StationDoomed(s, d)
    BY <2>3 DEF StationUnderway, StationDoomed
  <2>7. StationOwed(s) => StationOwed(s)'
    <3>1. CASE rezoned[i] = {}
      BY <1>5, <3>1 DEF Averages!PushRebuild, Averages!rebuilding, StationOwed, StationImportTypes
    <3>2. CASE rezoned[i] # {}
      <4> DEFINE q == Averages!Min(Averages!Unpushed)
      <4>1. /\ Averages!Unpushed # {}
            /\ rpc' = [rpc EXCEPT ![q] = "queued"]
            /\ asked' = [asked EXCEPT ![q] = rezoned[i]]
            /\ ipc[i] = "pushing" /\ ipc' = [ipc EXCEPT ![i] = "creating"]
            /\ rezoned' = [rezoned EXCEPT ![i] = {}]
        BY <1>5, <3>2 DEF Averages!PushRebuild
      <4>2. q \in Rebuilds /\ rpc[q] = "none"
        <5>1. Averages!Unpushed \in SUBSET Nat
          BY DEF Averages!Unpushed, Averages!AveragesAssumption
        <5>2. q \in Averages!Unpushed
          BY <4>1, <5>1, StationMinOfNaturals
        <5> QED
          BY <5>2 DEF Averages!Unpushed
      <4> HIDE DEF q
      <4>3. rpc'[q] = "queued" /\ asked'[q] = rezoned[i]
        BY <4>1, <4>2 DEF StationRebuildTypes
      <4>4. \A r \in Rebuilds : r # q => rpc'[r] = rpc[r] /\ asked'[r] = asked[r]
        BY <4>1, <4>2 DEF StationRebuildTypes
      <4>5. \A j \in Imports : j # i => ipc'[j] = ipc[j] /\ rezoned'[j] = rezoned[j]
        BY <4>1 DEF StationImportTypes
      <4> QED
        BY <2>3, <4>2, <4>3, <4>4, <4>5 DEF StationOwed
    <3> QED
      BY <3>1, <3>2
  <2> QED
    BY <2>1, <2>2, <2>3, <2>4, <2>5, <2>6, <2>7, StationKeepsRows
<1>6. ASSUME NEW i \in Imports, Averages!CreateStreams(i) PROVE StationAllTruthful'
  <2> SUFFICES ASSUME NEW s \in Averages!Stored' \ misled' PROVE StationTruthful(s)'
    BY DEF StationAllTruthful
  <2>0. UNCHANGED Averages!rebuilding
    BY <1>6 DEF Averages!CreateStreams, Averages!vars
  <2>3. StationUnderway(s) => StationUnderway(s)' \/ StationOwed(s)'
    BY <2>0 DEF StationUnderway, Averages!rebuilding
  <2>4. \A d \in Averages!Days : StationDoomed(s, d) => StationDoomed(s, d)' \/ StationOwed(s)'
    BY <2>0 DEF StationDoomed, Averages!rebuilding
  <2>7. StationOwed(s) => StationOwed(s)'
    BY <1>6, <2>0 DEF Averages!CreateStreams, Averages!vars, Averages!importing,
        Averages!rebuilding, StationOwed, StationImportTypes
  <2>1. /\ UNCHANGED <<measured, daily, now, misled>>
        /\ point' = [x \in Streams |-> IF x \in Averages!Stored THEN point[x] ELSE row[i]]
    BY <1>6 DEF Averages!CreateStreams
  <2>5. s \in Streams
    BY DEF Averages!Stored
  <2>6. /\ fresh' = [w \in Streams |-> IF w \in (Streams \ Averages!Stored) THEN "new" ELSE fresh[w]]
        /\ \A c \in Calculators : picked'[c] = picked[c] \ (Streams \ Averages!Stored)
        /\ UNCHANGED todo
    BY <1>6 DEF Averages!CreateStreams, Averages!Touch
  <2>8. StationCounted(s)' => StationCounted(s) /\ s \notin (Streams \ Averages!Stored)
    BY <2>5, <2>6 DEF StationCounted, StationHasAveraged
  <2>9. CASE s \in Averages!Stored
    <3>1. StationTruthful(s)
      BY <2>1, <2>9 DEF StationAllTruthful
    <3>2. Averages!Zone(s)' = Averages!Zone(s)
      BY <2>1, <2>5, <2>9 DEF Averages!Zone
    <3>3. \A d \in Averages!Days : Averages!True(s, d)' = Averages!True(s, d)
      BY <2>1, <2>5, <3>2, StationSameRows
    <3>4. StationRecently(s)' = StationRecently(s)
      BY <2>1, <2>5, <3>2, StationSameRecently
    <3>5. fresh[s] = "new" => fresh'[s] = "new"
      BY <2>5, <2>6
    <3> QED
      BY <2>1, <2>3, <2>4, <2>5, <2>7, <2>8, <3>1, <3>3, <3>4, <3>5, StationKeepsTrue
  <2>10. CASE s \notin Averages!Stored
    <3>1. \A t \in Averages!Instants : measured'[s][t] = 0
      BY <2>1, <2>5, <2>10 DEF StationMeasured
    <3>2. \A d \in Averages!Days : Averages!True(s, d)' = {}
      <4>1. ASSUME NEW d \in Averages!Days
           
PROVE  {t \in Averages!Instants : measured'[s][t] # 0 /\ Averages!Day(t, Averages!Zone(s)') = d} = {}
        BY <3>1
      <4>2. Averages!RowsAt(s, {})' = {}
        BY DEF Averages!RowsAt
      <4> QED
        BY <4>1, <4>2 DEF Averages!True
    <3>3. \A d \in Averages!Days : daily'[s][d] = {}
      BY <2>1, <2>5, <2>10 DEF StationMeasured
    <3> QED
      BY <3>2, <3>3 DEF StationTruthful, StationStrays, StationWhole, StationLately
  <2> QED
    BY <2>9, <2>10
<1>7. ASSUME NEW i \in Imports, Averages!FailImport(i) PROVE StationAllTruthful'
  <2> SUFFICES ASSUME NEW s \in Averages!Stored' \ misled' PROVE StationTruthful(s)'
    BY DEF StationAllTruthful
  <2>1. UNCHANGED <<measured, daily, point, now, misled>>
    BY <1>7 DEF Averages!FailImport, Averages!streams, Averages!vars
  <2>2. s \in Streams /\ StationTruthful(s)
    BY <2>1 DEF Averages!Stored, StationAllTruthful
  <2>0. UNCHANGED Averages!rebuilding
    BY <1>7 DEF Averages!FailImport, Averages!vars
  <2>3. StationUnderway(s) => StationUnderway(s)' \/ StationOwed(s)'
    BY <2>0 DEF StationUnderway, Averages!rebuilding
  <2>4. \A d \in Averages!Days : StationDoomed(s, d) => StationDoomed(s, d)' \/ StationOwed(s)'
    BY <2>0 DEF StationDoomed, Averages!rebuilding
  <2>5. UNCHANGED <<fresh, Averages!calculating>>
    BY <1>7 DEF Averages!FailImport, Averages!streams, Averages!vars
  <2>6. StationCounted(s)' => StationCounted(s)
    BY <2>5 DEF StationCounted, StationHasAveraged, Averages!calculating
  <2>7. StationOwed(s) => StationOwed(s)'
    BY <1>7, <2>0 DEF Averages!FailImport, Averages!vars, Averages!importing, Averages!rebuilding,
        StationOwed, StationImportTypes
  <2> QED
    BY <2>1, <2>2, <2>3, <2>4, <2>5, <2>6, <2>7, StationKeepsRows
<1>8. ASSUME NEW c \in Calculators, Averages!ReadRecent(c) PROVE StationAllTruthful'
  <2> SUFFICES ASSUME NEW s \in Averages!Stored' \ misled' PROVE StationTruthful(s)'
    BY DEF StationAllTruthful
  <2>1. UNCHANGED <<measured, daily, point, now, misled>>
    BY <1>8 DEF Averages!ReadRecent, Averages!streams, Averages!vars
  <2>2. s \in Streams /\ StationTruthful(s)
    BY <2>1 DEF Averages!Stored, StationAllTruthful
  <2>0. UNCHANGED Averages!rebuilding
    BY <1>8 DEF Averages!ReadRecent, Averages!vars
  <2>3. StationUnderway(s) => StationUnderway(s)' \/ StationOwed(s)'
    BY <2>0 DEF StationUnderway, Averages!rebuilding
  <2>4. \A d \in Averages!Days : StationDoomed(s, d) => StationDoomed(s, d)' \/ StationOwed(s)'
    BY <2>0 DEF StationDoomed, Averages!rebuilding
  <2>7. StationOwed(s) => StationOwed(s)'
    BY <1>8, <2>0 DEF Averages!ReadRecent, Averages!vars, Averages!importing, Averages!rebuilding,
        StationOwed, StationImportTypes
  <2> DEFINE recent == {x \in Averages!Stored : fresh[x] # "old"}
  <2>5. /\ fresh' = fresh
        /\ picked' = [picked EXCEPT ![c] = recent]
        /\ todo' = [todo EXCEPT ![c] = Averages!GroupByZone(recent)]
    BY <1>8 DEF Averages!ReadRecent, Averages!streams
  <2>6. StationCounted(s)' => StationCounted(s)
    <3>1. ASSUME NEW k \in Calculators, StationHasAveraged(k, s)'
          PROVE  StationHasAveraged(k, s)
      <4>1. CASE k = c
        <5>1. s \in recent /\ todo'[c] = Averages!GroupByZone(recent)
          BY <2>5, <3>1, <4>1 DEF StationHasAveraged, StationCalculatorTypes
        <5>2. [zone |-> Averages!Zone(s),
                 streams |-> {x \in recent : Averages!Zone(x) = Averages!Zone(s)}] \in todo'[c]
          BY <5>1 DEF Averages!GroupByZone
        <5>3. s \in [zone |-> Averages!Zone(s),
                 streams |-> {x \in recent : Averages!Zone(x) = Averages!Zone(s)}].streams
          BY <5>1
        <5> QED
          BY <3>1, <4>1, <5>2, <5>3 DEF StationHasAveraged
      <4>2. CASE k # c
        BY <2>5, <3>1, <4>2 DEF StationHasAveraged, StationCalculatorTypes
      <4> QED
        BY <4>1, <4>2
    <3> QED
      BY <2>5, <3>1 DEF StationCounted
  <2> QED
    BY <2>1, <2>2, <2>3, <2>4, <2>5, <2>6, <2>7, StationKeepsRows
<1>9. ASSUME NEW c \in Calculators, NEW group \in todo[c], Averages!Average(c, group)
      PROVE  StationAllTruthful'
  <2> SUFFICES ASSUME NEW s \in Averages!Stored' \ misled' PROVE StationTruthful(s)'
    BY DEF StationAllTruthful
  <2>0. UNCHANGED Averages!rebuilding
    BY <1>9 DEF Averages!Average, Averages!vars
  <2>3. StationUnderway(s) => StationUnderway(s)' \/ StationOwed(s)'
    BY <2>0 DEF StationUnderway, Averages!rebuilding
  <2>4. \A d \in Averages!Days : StationDoomed(s, d) => StationDoomed(s, d)' \/ StationOwed(s)'
    BY <2>0 DEF StationDoomed, Averages!rebuilding
  <2>7. StationOwed(s) => StationOwed(s)'
    BY <1>9, <2>0 DEF Averages!Average, Averages!vars, Averages!importing, Averages!rebuilding,
        StationOwed, StationImportTypes
  <2> DEFINE z == group.zone
  <2>1. /\ Averages!UpsertDaily(group, Averages!RecentSince(z), {})
        /\ misled' = misled \cup Averages!OldZone(group)
        /\ todo' = [todo EXCEPT ![c] = @ \ {group}]
        /\ UNCHANGED <<measured, point, now, fresh, picked>>
    BY <1>9 DEF Averages!Average, Averages!streams
  <2>2. /\ s \in Averages!Stored /\ s \in Streams /\ StationTruthful(s)
        /\ s \notin Averages!OldZone(group)
    BY <2>1 DEF Averages!Stored, StationAllTruthful
  <2>8. Averages!Zone(s)' = Averages!Zone(s)
    BY <2>1 DEF Averages!Zone
  <2>9. \A d \in Averages!Days : Averages!True(s, d)' = Averages!True(s, d)
    BY <2>1, <2>2, <2>8, StationSameRows
  <2>10. StationRecently(s)' = StationRecently(s)
    BY <2>1, <2>2, <2>8, StationSameRecently
  <2>11. CASE s \in group.streams
    <3>1. z = Averages!Zone(s)
      BY <2>2, <2>11 DEF Averages!OldZone
    <3>2. ASSUME NEW d \in Averages!Days
         
PROVE  daily'[s][d] = IF d >= StationRecently(s) /\ Averages!True(s, d) # {} THEN Averages!True(s,
  d) ELSE daily[s][d]
      <4>1. daily'[s][d] = IF Averages!DailyRows(s, z, Averages!RecentSince(z), d) # {}
                             THEN Averages!DailyRows(s, z, Averages!RecentSince(z), d) ELSE daily[s][d]
        BY <2>1, <2>2, <2>11, StationAverageIs
      <4>2. Averages!DailyRows(s, z, Averages!RecentSince(z),
               d) = IF d >= StationRecently(s) THEN Averages!True(s, d) ELSE {}
        BY <2>2, <3>1, StationRecentRows
      <4> QED
        BY <4>1, <4>2
    <3>3. ~StationOwed(s)' => StationStrays(s)'
      BY <2>2, <2>4, <2>7, <2>9, <3>2 DEF StationTruthful, StationStrays
    <3>4. ~StationOwed(s)' /\ ~StationUnderway(s)' => StationWhole(s)'
      BY <2>1, <2>2, <2>3, <2>7, <2>9, <2>10, <3>2 DEF StationTruthful, StationWhole
    <3>5. StationLately(s)'
      BY <2>9, <2>10, <3>2 DEF StationLately
    <3> QED
      BY <3>3, <3>4, <3>5 DEF StationTruthful
  <2>12. CASE s \notin group.streams
    <3>1. \A d \in Averages!Days : daily'[s][d] = daily[s][d]
      BY <2>1, <2>2, <2>12, StationAverageIs
    <3>2. StationCounted(s)' => StationCounted(s)
      <4>1. ASSUME NEW k \in Calculators, StationHasAveraged(k, s)'
            PROVE  StationHasAveraged(k, s)
        <5>1. \A g \in todo[k] : g \in todo'[k] \/ g = group
          BY <2>1 DEF StationCalculatorTypes
        <5> QED
          BY <2>1, <2>12, <4>1, <5>1 DEF StationHasAveraged
      <4> QED
        BY <2>1, <4>1 DEF StationCounted
    <3> QED
      BY <2>1, <2>2, <2>3, <2>4, <2>7, <2>9, <2>10, <3>1, <3>2, StationKeepsTrue
  <2> QED
    BY <2>11, <2>12
<1>10. ASSUME NEW c \in Calculators, Averages!FinishAverages(c) PROVE StationAllTruthful'
  <2> SUFFICES ASSUME NEW s \in Averages!Stored' \ misled' PROVE StationTruthful(s)'
    BY DEF StationAllTruthful
  <2>1. UNCHANGED <<measured, daily, point, now, misled>>
    BY <1>10 DEF Averages!FinishAverages, Averages!streams, Averages!vars
  <2>2. s \in Streams /\ StationTruthful(s)
    BY <2>1 DEF Averages!Stored, StationAllTruthful
  <2>0. UNCHANGED Averages!rebuilding
    BY <1>10 DEF Averages!FinishAverages, Averages!vars
  <2>3. StationUnderway(s) => StationUnderway(s)' \/ StationOwed(s)'
    BY <2>0 DEF StationUnderway, Averages!rebuilding
  <2>4. \A d \in Averages!Days : StationDoomed(s, d) => StationDoomed(s, d)' \/ StationOwed(s)'
    BY <2>0 DEF StationDoomed, Averages!rebuilding
  <2>7. StationOwed(s) => StationOwed(s)'
    BY <1>10, <2>0 DEF Averages!FinishAverages, Averages!vars, Averages!importing,
        Averages!rebuilding, StationOwed, StationImportTypes
  <2>5. /\ fresh' = [x \in Streams |-> IF x \in picked[c] THEN "recent" ELSE fresh[x]]
        /\ picked' = [picked EXCEPT ![c] = {}]
        /\ todo[c] = {} /\ UNCHANGED todo
    BY <1>10 DEF Averages!FinishAverages
  <2>6. s \in picked[c] => StationCounted(s)
    BY <2>5 DEF StationCounted, StationHasAveraged
  <2>8. StationCounted(s)' => StationCounted(s)
    BY <2>2, <2>5, <2>6 DEF StationCounted, StationHasAveraged, StationCalculatorTypes
  <2>9. fresh[s] = "new" => fresh'[s] = "new" \/ StationCounted(s)
    BY <2>2, <2>5, <2>6
  <2> QED
    BY <2>1, <2>2, <2>3, <2>4, <2>7, <2>8, <2>9, StationKeepsRows
<1>11. ASSUME NEW c \in Calculators, Averages!FailCalculator(c) PROVE StationAllTruthful'
  <2> SUFFICES ASSUME NEW s \in Averages!Stored' \ misled' PROVE StationTruthful(s)'
    BY DEF StationAllTruthful
  <2>1. UNCHANGED <<measured, daily, point, now, misled>>
    BY <1>11 DEF Averages!FailCalculator, Averages!streams, Averages!vars
  <2>2. s \in Streams /\ StationTruthful(s)
    BY <2>1 DEF Averages!Stored, StationAllTruthful
  <2>0. UNCHANGED Averages!rebuilding
    BY <1>11 DEF Averages!FailCalculator, Averages!vars
  <2>3. StationUnderway(s) => StationUnderway(s)' \/ StationOwed(s)'
    BY <2>0 DEF StationUnderway, Averages!rebuilding
  <2>4. \A d \in Averages!Days : StationDoomed(s, d) => StationDoomed(s, d)' \/ StationOwed(s)'
    BY <2>0 DEF StationDoomed, Averages!rebuilding
  <2>7. StationOwed(s) => StationOwed(s)'
    BY <1>11, <2>0 DEF Averages!FailCalculator, Averages!vars, Averages!importing,
        Averages!rebuilding, StationOwed, StationImportTypes
  <2>5. /\ fresh' = fresh
        /\ picked' = [picked EXCEPT ![c] = {}]
        /\ todo' = [todo EXCEPT ![c] = {}]
    BY <1>11 DEF Averages!FailCalculator, Averages!streams
  <2>6. StationCounted(s)' => StationCounted(s)
    BY <2>5 DEF StationCounted, StationHasAveraged, StationCalculatorTypes
  <2> QED
    BY <2>1, <2>2, <2>3, <2>4, <2>5, <2>6, <2>7, StationKeepsRows
<1>12. ASSUME NEW r \in Rebuilds, Averages!ReadHistory(r) PROVE StationAllTruthful'
  <2> SUFFICES ASSUME NEW s \in Averages!Stored' \ misled' PROVE StationTruthful(s)'
    BY DEF StationAllTruthful
  <2>1. UNCHANGED <<measured, daily, point, now, misled>>
    BY <1>12 DEF Averages!ReadHistory, Averages!streams, Averages!vars
  <2>2. s \in Streams /\ StationTruthful(s)
    BY <2>1 DEF Averages!Stored, StationAllTruthful
  <2>5. UNCHANGED <<fresh, Averages!calculating>>
    BY <1>12 DEF Averages!ReadHistory, Averages!streams, Averages!vars
  <2>6. StationCounted(s)' => StationCounted(s)
    BY <2>5 DEF StationCounted, StationHasAveraged, Averages!calculating
  <2> DEFINE H(g) == [zone |-> g.zone, streams |-> g.streams,
                      first |-> {t \in Averages!Instants : \E x \in g.streams : measured[x][t] # 0}]
  <2>3. /\ rpc[r] = "queued" /\ rpc' = [rpc EXCEPT ![r] = "rebuilding"]
        /\ groups' = [groups EXCEPT ![r] = {H(g) : g \in Averages!GroupByZone(asked[r])}]
        /\ UNCHANGED <<asked, open, doomed, ipc, rezoned>>
    BY <1>12 DEF Averages!ReadHistory, Averages!importing
  <2>4. StationUnderway(s)' = StationUnderway(s) /\ \A d \in Averages!Days : StationDoomed(s,
           d)' = StationDoomed(s, d)
    BY <2>3 DEF StationUnderway, StationDoomed
  <2>7. StationOwed(s) => StationOwed(s)'
    <3>1. groups[r] = {} /\ open[r] = {}
      BY <2>3 DEF StationKnown
    <3>2. CASE s \in asked[r]
      <4> DEFINE g == [zone |-> Averages!Zone(s),
        streams |-> {x \in asked[r] : Averages!Zone(x) = Averages!Zone(s)}]
      <4>1. g \in Averages!GroupByZone(asked[r]) /\ s \in g.streams
        BY <3>2 DEF Averages!GroupByZone
      <4>2. groups'[r] = {H(h) : h \in Averages!GroupByZone(asked[r])}
        BY <2>3 DEF StationRebuildTypes
      <4>3. H(g).streams = g.streams
        OBVIOUS
      <4>4. H(g) \in groups'[r]
        BY <4>1, <4>2
      <4> HIDE DEF g, H
      <4> QED
        BY <2>3, <3>1, <4>1, <4>3, <4>4 DEF StationOwed
    <3>3. CASE s \notin asked[r]
      <4>1. \A q \in Rebuilds : q # r => rpc'[q] = rpc[q] /\ groups'[q] = groups[q]
        BY <2>3 DEF StationRebuildTypes
      <4> HIDE DEF H
      <4> QED
        BY <2>3, <3>1, <3>3, <4>1 DEF StationOwed
    <3> QED
      BY <3>2, <3>3
  <2> QED
    BY <2>1, <2>2, <2>3, <2>4, <2>5, <2>6, <2>7, StationKeepsRows
<1>13. ASSUME NEW r \in Rebuilds, NEW group \in groups[r], Averages!DeleteHistory(r, group)
       PROVE  StationAllTruthful'
  <2> SUFFICES ASSUME NEW s \in Averages!Stored' \ misled' PROVE StationTruthful(s)'
    BY DEF StationAllTruthful
  <2>1. UNCHANGED <<measured, daily, point, now, misled>>
    BY <1>13 DEF Averages!DeleteHistory, Averages!streams, Averages!vars
  <2>2. s \in Streams /\ StationTruthful(s)
    BY <2>1 DEF Averages!Stored, StationAllTruthful
  <2>5. UNCHANGED <<fresh, Averages!calculating>>
    BY <1>13 DEF Averages!DeleteHistory, Averages!streams, Averages!vars
  <2>6. StationCounted(s)' => StationCounted(s)
    BY <2>5 DEF StationCounted, StationHasAveraged, Averages!calculating
  <2>0. /\ open[r] = {} /\ open'[r] = {group} /\ doomed'[r] = Averages!Deletable(group)
        /\ \A q \in Rebuilds : q # r => open'[q] = open[q] /\ doomed'[q] = doomed[q]
        /\ UNCHANGED <<rpc, asked, groups, ipc, rezoned>>
    BY <1>13 DEF Averages!DeleteHistory, StationRebuildTypes, Averages!importing
  <2>8. CASE s \in group.streams
    <3>1. StationUnderway(s)'
      BY <2>0, <2>8 DEF StationUnderway
    <3>2. ASSUME NEW d \in Averages!Days, daily'[s][d] # {}
          PROVE  StationDoomed(s, d)'
      <4>1. <<s, d>> \in Averages!Deletable(group)
        BY <2>1, <2>8, <3>2 DEF Averages!Deletable
      <4> QED
        BY <2>0, <4>1 DEF StationDoomed
    <3>3. Averages!Zone(s)' = Averages!Zone(s)
      BY <2>1 DEF Averages!Zone
    <3>4. \A d \in Averages!Days : Averages!True(s, d)' = Averages!True(s, d)
      BY <2>1, <2>2, <3>3, StationSameRows
    <3>5. StationRecently(s)' = StationRecently(s)
      BY <2>1, <2>2, <3>3, StationSameRecently
    <3>6. StationCounted(s)' => StationLately(s)'
      BY <2>1, <2>2, <2>6, <3>4, <3>5 DEF StationTruthful, StationLately
    <3> QED
      BY <3>1, <3>2, <3>6 DEF StationTruthful, StationStrays
  <2>9. CASE s \notin group.streams
    <3>1. \A d \in Averages!Days : <<s, d>> \notin doomed[r]
      BY <2>0, <2>2 DEF StationKnown
    <3>2. StationUnderway(s) => StationUnderway(s)' \/ StationOwed(s)'
      BY <2>0 DEF StationUnderway
    <3>3. \A d \in Averages!Days : StationDoomed(s, d) => StationDoomed(s, d)' \/ StationOwed(s)'
      BY <2>0, <3>1 DEF StationDoomed
    <3>4. StationOwed(s) => StationOwed(s)'
      BY <2>0, <2>9 DEF StationOwed
    <3> QED
      BY <2>1, <2>2, <2>5, <2>6, <3>2, <3>3, <3>4, StationKeepsRows
  <2> QED
    BY <2>8, <2>9
<1>14. ASSUME NEW r \in Rebuilds, NEW group \in open[r], Averages!InsertHistory(r, group)
       PROVE  StationAllTruthful'
  <2> SUFFICES ASSUME NEW s \in Averages!Stored' \ misled' PROVE StationTruthful(s)'
    BY DEF StationAllTruthful
  <2>0. /\ open[r] = {group} /\ rpc[r] = "rebuilding" /\ group \in groups[r]
    <3>1. group \in groups[r]
      BY DEF StationKnown
    <3> QED
      BY <3>1 DEF StationKnown
  <2>1. /\ Averages!UpsertDaily(group, Averages!HistorySince(group), doomed[r])
        /\ misled' = (misled \ Averages!Healed(r,
             group)) \cup Averages!OldZone(group) \cup Averages!SinceBegun(group)
        /\ UNCHANGED <<measured, point, now, fresh, todo, picked, ipc, rezoned, asked>>
    BY <1>14 DEF Averages!InsertHistory, Averages!streams, Averages!calculating, Averages!importing
  <2>2. /\ \A q \in Rebuilds : q # r => /\ rpc'[q] = rpc[q] /\ groups'[q] = groups[q]
                                        /\ open'[q] = open[q] /\ doomed'[q] = doomed[q]
        /\ groups'[r] = groups[r] \ {group} /\ open'[r] = {}
    BY <1>14 DEF Averages!InsertHistory, StationRebuildTypes
  <2>3. /\ s \in Averages!Stored /\ s \in Streams /\ s \notin Averages!OldZone(group)
        /\ s \notin Averages!SinceBegun(group)
    BY <2>1 DEF Averages!Stored
  <2>12. Averages!UpsertDaily(group, Averages!HistorySince(group), doomed[r])
    BY <2>1
  <2>13. ASSUME NEW d \in Averages!Days
         PROVE  daily'[s][d] =
                  IF s \in group.streams /\ Averages!DailyRows(s, group.zone,
                    Averages!HistorySince(group), d) # {}
                    THEN Averages!DailyRows(s, group.zone, Averages!HistorySince(group), d)
                  ELSE IF <<s, d>> \in doomed[r] THEN {} ELSE daily[s][d]
    BY <2>3, <2>12, StationUpsertIs
  <2>4. s \in misled => s \in Averages!Healed(r, group)
    BY <2>1
  <2>5. StationOwed(s) => StationOwed(s)'
    BY <2>0, <2>1, <2>2 DEF StationOwed
  <2>6. StationCounted(s)' => StationCounted(s)
    BY <2>1 DEF StationCounted, StationHasAveraged
  <2>7. Averages!Zone(s)' = Averages!Zone(s)
    BY <2>1 DEF Averages!Zone
  <2>8. \A d \in Averages!Days : Averages!True(s, d)' = Averages!True(s, d)
    BY <2>1, <2>3, <2>7, StationSameRows
  <2>9. StationRecently(s)' = StationRecently(s)
    BY <2>1, <2>3, <2>7, StationSameRecently
  <2>10. CASE s \in group.streams
    <3>1. group.zone = Averages!Zone(s)
      BY <2>3, <2>10 DEF Averages!OldZone
    <3>2. ASSUME NEW d \in Averages!Days
          PROVE  daily'[s][d] = IF Averages!True(s, d) # {} THEN Averages!True(s, d)
                                ELSE IF <<s, d>> \in doomed[r] THEN {} ELSE daily[s][d]
      <4>1. Averages!DailyRows(s, group.zone, Averages!HistorySince(group), d) = Averages!True(s, d)
        BY <2>0, <2>3, <2>10, <3>1, StationHistoryRows
      <4> QED
        BY <2>10, <2>13, <4>1
    <3>3. ASSUME ~StationOwed(s)', NEW d \in Averages!Days, daily'[s][d] # {}, Averages!True(s, d)' = {}
          PROVE  StationDoomed(s, d)'
      <4>1. <<s, d>> \notin doomed[r] /\ daily[s][d] # {} /\ Averages!True(s, d) = {}
        BY <2>8, <3>2, <3>3
      <4>2. s \notin misled
        BY <2>4, <4>1 DEF Averages!Healed
      <4>3. StationDoomed(s, d)
        BY <2>3, <2>5, <3>3, <4>1, <4>2 DEF StationAllTruthful, StationTruthful, StationStrays
      <4> QED
        BY <2>2, <4>1, <4>3 DEF StationDoomed
    <3>4. StationWhole(s)' /\ StationLately(s)'
      BY <2>8, <3>2 DEF StationWhole, StationLately
    <3> QED
      BY <3>3, <3>4 DEF StationTruthful, StationStrays
  <2>11. CASE s \notin group.streams
    <3>1. StationTruthful(s)
      BY <2>3, <2>4, <2>11 DEF Averages!Healed, StationAllTruthful
    <3>2. \A d \in Averages!Days : <<s, d>> \notin doomed[r]
      BY <2>0, <2>3, <2>11 DEF StationKnown
    <3>3. \A d \in Averages!Days : daily'[s][d] = daily[s][d]
      BY <2>11, <2>13, <3>2
    <3>4. StationUnderway(s) => StationUnderway(s)' \/ StationOwed(s)'
      BY <2>0, <2>2, <2>11 DEF StationUnderway
    <3>5. \A d \in Averages!Days : StationDoomed(s, d) => StationDoomed(s, d)' \/ StationOwed(s)'
      BY <2>2, <3>2 DEF StationDoomed
    <3> QED
      BY <2>1, <2>3, <2>5, <2>6, <2>8, <2>9, <3>1, <3>3, <3>4, <3>5, StationKeepsTrue
  <2> QED
    BY <2>10, <2>11
<1>15. ASSUME NEW r \in Rebuilds, Averages!FailRebuild(r) PROVE StationAllTruthful'
  <2> SUFFICES ASSUME NEW s \in Averages!Stored' \ misled' PROVE StationTruthful(s)'
    BY DEF StationAllTruthful
  <2>1. UNCHANGED <<measured, daily, point, now, misled>>
    BY <1>15 DEF Averages!FailRebuild, Averages!streams, Averages!vars
  <2>2. s \in Streams /\ StationTruthful(s)
    BY <2>1 DEF Averages!Stored, StationAllTruthful
  <2>5. UNCHANGED <<fresh, Averages!calculating>>
    BY <1>15 DEF Averages!FailRebuild, Averages!streams, Averages!vars
  <2>6. StationCounted(s)' => StationCounted(s)
    BY <2>5 DEF StationCounted, StationHasAveraged, Averages!calculating
  <2>0. /\ \A q \in Rebuilds : q # r => /\ rpc'[q] = rpc[q] /\ groups'[q] = groups[q]
                                        /\ open'[q] = open[q] /\ doomed'[q] = doomed[q]
        /\ rpc'[r] \in {"queued", "dead"}
        /\ UNCHANGED <<asked, ipc, rezoned>>
    BY <1>15 DEF Averages!FailRebuild, StationRebuildTypes, Averages!importing
  <2>8. s \in asked[r] => StationOwed(s)'
    BY <2>0 DEF StationOwed
  <2>9. \A g \in groups[r] : s \in g.streams => s \in asked[r]
    BY DEF StationKnown
  <2>10. open[r] \subseteq groups[r]
    BY DEF StationKnown
  <2>3. StationUnderway(s) => StationUnderway(s)' \/ StationOwed(s)'
    BY <2>0, <2>8, <2>9, <2>10 DEF StationUnderway
  <2>4. \A d \in Averages!Days : StationDoomed(s, d) => StationDoomed(s, d)' \/ StationOwed(s)'
    <3>1. ASSUME NEW d \in Averages!Days, <<s, d>> \in doomed[r]
          PROVE  StationOwed(s)'
      BY <2>2, <2>8, <2>9, <2>10, <3>1 DEF StationKnown
    <3> QED
      BY <2>0, <3>1 DEF StationDoomed
  <2>7. StationOwed(s) => StationOwed(s)'
    BY <2>0, <2>8, <2>9 DEF StationOwed
  <2> QED
    BY <2>1, <2>2, <2>3, <2>4, <2>5, <2>6, <2>7, StationKeepsRows
<1>16. ASSUME NEW x \in Streams, NEW u \in Averages!Instants, Averages!LoadMeasurement(x, u)
       PROVE  StationAllTruthful'
  <2> SUFFICES ASSUME NEW s \in Averages!Stored' \ misled' PROVE StationTruthful(s)'
    BY DEF StationAllTruthful
  <2>0. UNCHANGED Averages!rebuilding
    BY <1>16 DEF Averages!LoadMeasurement, Averages!vars
  <2>3. StationUnderway(s) => StationUnderway(s)' \/ StationOwed(s)'
    BY <2>0 DEF StationUnderway, Averages!rebuilding
  <2>4. \A d \in Averages!Days : StationDoomed(s, d) => StationDoomed(s, d)' \/ StationOwed(s)'
    BY <2>0 DEF StationDoomed, Averages!rebuilding
  <2>7. StationOwed(s) => StationOwed(s)'
    BY <1>16, <2>0 DEF Averages!LoadMeasurement, Averages!Touch, Averages!importing,
        Averages!rebuilding, StationOwed, StationImportTypes
  <2>1. /\ measured' = [measured EXCEPT ![x][u] = @ + 1]
        /\ x \in Averages!Stored /\ u > now - DayLength
        /\ UNCHANGED <<daily, point, now, misled>>
    BY <1>16 DEF Averages!LoadMeasurement
  <2>2. s \in Streams /\ s \in Averages!Stored /\ StationTruthful(s)
    BY <2>1 DEF Averages!Stored, StationAllTruthful
  <2>5. /\ fresh' = [w \in Streams |-> IF w \in {x} THEN "new" ELSE fresh[w]]
        /\ \A c \in Calculators : picked'[c] = picked[c] \ {x}
        /\ UNCHANGED todo
    BY <1>16 DEF Averages!LoadMeasurement, Averages!Touch
  <2>6. StationCounted(s)' => StationCounted(s) /\ s \notin {x}
    BY <2>2, <2>5 DEF StationCounted, StationHasAveraged
  <2>8. Averages!Zone(s)' = Averages!Zone(s)
    BY <2>1 DEF Averages!Zone
  <2>9. StationRecently(s)' = StationRecently(s)
    BY <2>1, <2>2, <2>8, StationSameRecently
  <2>10. \A t \in Averages!Instants : s # x \/ t # u => measured'[s][t] = measured[s][t]
    BY <2>1, <2>2 DEF StationRowTypes
  <2>11. CASE s # x
    <3>1. \A d \in Averages!Days : Averages!True(s, d)' = Averages!True(s, d)
      BY <2>2, <2>8, <2>10, <2>11, StationSameRows
    <3>2. fresh[s] = "new" => fresh'[s] = "new"
      BY <2>2, <2>5
    <3> QED
      BY <2>1, <2>2, <2>3, <2>4, <2>6, <2>7, <2>9, <3>1, <3>2, StationKeepsTrue
  <2>12. CASE s = x
    <3>0. PICK e \in Averages!Days : e = Averages!Day(u, Averages!Zone(s))
      <4>1. Averages!Zone(s) \in Averages!Zones
        BY <2>2 DEF Averages!Stored, Averages!Zone, Averages!Zones, StationRowTypes
      <4> QED
        BY <4>1 DEF Averages!Days
    <3>1. ASSUME NEW d \in Averages!Days, d # e
          PROVE  Averages!True(s, d)' = Averages!True(s, d)
      <4>1. {t \in Averages!Instants : measured'[s][t] # 0 /\ Averages!Day(t, Averages!Zone(s)') = d} =
            {t \in Averages!Instants : measured[s][t] # 0 /\ Averages!Day(t, Averages!Zone(s)) = d}
        BY <2>8, <2>10, <3>0, <3>1
      <4>2. ASSUME NEW t \in Averages!Instants, Averages!Day(t, Averages!Zone(s)) = d
            PROVE  measured'[s][t] = measured[s][t]
        BY <2>10, <3>0, <3>1, <4>2
      <4> DEFINE M == {t \in Averages!Instants : measured[s][t] # 0 /\ Averages!Day(t,
        Averages!Zone(s)) = d}
      <4>3. Averages!RowsAt(s, M)' = Averages!RowsAt(s, M)
        BY <4>2, <2>8 DEF Averages!RowsAt
      <4> QED
        BY <4>1, <4>3 DEF Averages!True
    <3>2. e >= StationRecently(s)
      <4>1. Averages!Zone(s) \in Averages!Zones
        BY <2>2 DEF Averages!Stored, Averages!Zone, Averages!Zones, StationRowTypes
      <4>2. /\ now - Lookback * DayLength \in Int
            /\ u \in Int /\ u > now - Lookback * DayLength
        <5> DEFINE back == Lookback * DayLength
        <5>1. back >= DayLength /\ back \in Nat /\ DayLength \in Nat
          BY StationAtLeastOnce DEF Averages!AveragesAssumption
        <5>2. u \in Int /\ now \in Int
          BY StationInstantsAre DEF StationRowTypes
        <5> HIDE DEF back
        <5>3. now - back \in Int /\ u > now - back
          BY <2>1, <5>1, <5>2
        <5> QED
          BY <5>2, <5>3 DEF back
      <4>3. u > Averages!RecentSince(Averages!Zone(s))
        <5>1. /\ Averages!RecentSince(Averages!Zone(s)) \in Int
              /\ Averages!RecentSince(Averages!Zone(s)) <= now - Lookback * DayLength
          BY <4>1, <4>2, StationDayBegins DEF Averages!RecentSince
        <5> QED
          BY <4>2, <5>1
      <4> QED
        BY <3>0, <4>1, <4>2, <4>3, StationDayBegins DEF Averages!RecentSince, StationRecently
    <3>3. Averages!True(s, e)' # {}
      <4>1. measured'[s][u] # 0
        BY <2>1, <2>2, <2>12 DEF StationRowTypes
      <4>2. <<u, measured'[s][u]>> \in Averages!True(s, e)'
        BY <2>8, <3>0, <4>1 DEF Averages!True, Averages!RowsAt
      <4> QED
        BY <4>2
    <3>4. fresh'[s] = "new"
      BY <2>2, <2>5, <2>12
    <3>5. ASSUME ~StationOwed(s)', NEW d \in Averages!Days, daily'[s][d] # {}, Averages!True(s, d)' = {}
          PROVE  StationDoomed(s, d)'
      <4>1. d # e
        BY <3>3, <3>5
      <4>2. Averages!True(s, d) = {} /\ daily[s][d] # {}
        BY <2>1, <3>1, <3>5, <4>1
      <4>3. StationDoomed(s, d)
        BY <2>2, <2>7, <3>5, <4>2 DEF StationTruthful, StationStrays
      <4> QED
        BY <2>4, <3>5, <4>3
    <3>6. ASSUME ~StationOwed(s)', ~StationUnderway(s)', NEW d \in Averages!Days, Averages!True(s,
             d)' # {}
          PROVE  daily'[s][d] = Averages!True(s, d)' \/ (fresh'[s] = "new" /\ d >= StationRecently(s)')
      <4>1. CASE d = e
        BY <2>9, <3>2, <3>4, <4>1
      <4>2. CASE d # e
        BY <2>1, <2>2, <2>3, <2>7, <2>9, <3>1, <3>4, <3>6, <4>2 DEF StationTruthful, StationWhole
      <4> QED
        BY <4>1, <4>2
    <3> QED
      BY <2>6, <2>12, <3>5, <3>6 DEF StationTruthful, StationStrays, StationWhole
  <2> QED
    BY <2>11, <2>12
<1>17. CASE Averages!Tick
  <2> SUFFICES ASSUME NEW s \in Averages!Stored' \ misled' PROVE StationTruthful(s)'
    BY DEF StationAllTruthful
  <2>0. UNCHANGED Averages!rebuilding
    BY <1>17 DEF Averages!Tick, Averages!vars
  <2>3. StationUnderway(s) => StationUnderway(s)' \/ StationOwed(s)'
    BY <2>0 DEF StationUnderway, Averages!rebuilding
  <2>4. \A d \in Averages!Days : StationDoomed(s, d) => StationDoomed(s, d)' \/ StationOwed(s)'
    BY <2>0 DEF StationDoomed, Averages!rebuilding
  <2>7. StationOwed(s) => StationOwed(s)'
    BY <1>17, <2>0 DEF Averages!Tick, Averages!vars, Averages!importing, Averages!rebuilding,
        StationOwed, StationImportTypes
  <2>1. /\ UNCHANGED <<measured, daily, point, misled, picked, todo>>
        /\ \A c \in Calculators : cpc[c] = "idle"
        /\ fresh[s] # "new" /\ fresh'[s] = "old"
    BY <1>17 DEF Averages!Tick, Averages!Quiet, Averages!Calculated, Averages!calculating,
        Averages!Stored
  <2>2. s \in Streams /\ StationTruthful(s)
    BY <2>1 DEF Averages!Stored, StationAllTruthful
  <2>5. ~StationCounted(s)'
    BY <2>1 DEF StationCounted, StationHasAveraged, StationKnown
  <2>6. Averages!Zone(s)' = Averages!Zone(s)
    BY <2>1 DEF Averages!Zone
  <2>8. \A d \in Averages!Days : Averages!True(s, d)' = Averages!True(s, d)
    BY <2>1, <2>2, <2>6, StationSameRows
  <2>9. ~StationOwed(s)' => StationStrays(s)'
    BY <2>1, <2>2, <2>4, <2>7, <2>8 DEF StationTruthful, StationStrays
  <2>10. ~StationOwed(s)' /\ ~StationUnderway(s)' => StationWhole(s)'
    BY <2>1, <2>2, <2>3, <2>7, <2>8 DEF StationTruthful, StationWhole
  <2> QED
    BY <2>5, <2>9, <2>10 DEF StationTruthful
<1> QED
  BY <1>1, <1>2, <1>3, <1>4, <1>5, <1>6, <1>7, <1>8, <1>9,
    <1>10, <1>11, <1>12, <1>13, <1>14, <1>15, <1>16, <1>17 DEF Averages!Next, Averages!Import,
      Averages!Calculate, Averages!Rebuild

-----------------------------------------------------------------------------
(* What follows. *)

LEMMA StationNextKeeps ==
  Averages!AveragesAssumption /\ StationIInv /\ [Averages!Next]_(Averages!vars)
    => StationIInv'
BY StationImportTypesNext, StationCalculatorTypesNext, StationRebuildTypesNext,
    StationRowTypesNext, StationSequentialNext,
   StationSitsNext, StationKnownNext, StationMeasuredNext, StationBeginsNext, StationTruthfulNext
DEF StationIInv, StationTypeOK

LEMMA StationInvImplies == StationIInv => Averages!AveragesAreTrue /\ Averages!StreamsSitAtTheirStation
<1> SUFFICES ASSUME StationIInv PROVE Averages!AveragesAreTrue /\ Averages!StreamsSitAtTheirStation
  OBVIOUS
<1> /\ StationImportTypes /\ StationRebuildTypes /\ StationRowTypes /\ StationSits
    /\ StationKnown /\ StationAllTruthful
  BY DEF StationIInv, StationTypeOK
<1>1. Averages!StreamsSitAtTheirStation
  BY DEF StationSits, Averages!StreamsSitAtTheirStation
<1>2. Averages!AveragesAreTrue
  <2> SUFFICES ASSUME Averages!Quiet, Averages!Calculated, NEW s \in Averages!Stored \ misled,
                      NEW d \in IF s \in Averages!Lost THEN Averages!LookedBackOn(s) ELSE Averages!Days
               PROVE  daily[s][d] = Averages!True(s, d)
    BY DEF Averages!AveragesAreTrue
  <2>1. s \in Streams /\ StationTruthful(s) /\ fresh[s] # "new"
    BY DEF Averages!Stored, StationAllTruthful, Averages!Calculated
  <2>2. \A r \in Rebuilds : groups[r] = {} /\ open[r] = {}
    BY DEF Averages!Quiet, StationKnown
  <2>3. \A e \in Averages!Days : ~StationDoomed(s, e)
    BY <2>1, <2>2 DEF StationDoomed, StationKnown
  <2>4. ~StationUnderway(s)
    BY <2>2 DEF StationUnderway
  <2>5. StationOwed(s) => s \in Averages!Lost
    <3>1. ASSUME NEW i \in Imports, ipc[i] \in {"pushing", "dead"}, s \in rezoned[i]
          PROVE  s \in Averages!Lost
      <4>1. ipc[i] = "dead"
        BY <3>1 DEF Averages!Quiet
      <4>2. rezoned[i] \in {rezoned[k] : k \in {j \in Imports : ipc[j] = "dead"}}
        BY <4>1
      <4> QED
        BY <3>1, <4>2 DEF Averages!Lost
    <3>2. ASSUME NEW r \in Rebuilds, rpc[r] \in {"queued", "dead"}, s \in asked[r]
          PROVE  s \in Averages!Lost
      <4>1. rpc[r] = "dead"
        BY <3>2 DEF Averages!Quiet
      <4>2. asked[r] \in {asked[q] : q \in {p \in Rebuilds : rpc[p] = "dead"}}
        BY <4>1
      <4> QED
        BY <3>2, <4>2 DEF Averages!Lost
    <3> QED
      BY <2>2, <3>1, <3>2 DEF StationOwed
  <2>6. CASE s \in Averages!Lost
    <3>1. /\ fresh[s] = "recent" /\ d \in Averages!Days
          /\ d >= StationRecently(s) /\ Averages!True(s, d) # {}
      BY <2>6 DEF Averages!LookedBackOn, StationRecently
    <3> QED
      BY <2>1, <3>1 DEF StationTruthful, StationCounted, StationLately
  <2>7. CASE s \notin Averages!Lost
    <3>1. StationStrays(s) /\ StationWhole(s) /\ d \in Averages!Days
      BY <2>1, <2>4, <2>5, <2>7 DEF StationTruthful
    <3>2. CASE Averages!True(s, d) = {}
      BY <2>3, <3>1, <3>2 DEF StationStrays
    <3>3. CASE Averages!True(s, d) # {}
      BY <2>1, <3>1, <3>3 DEF StationWhole
    <3> QED
      BY <3>2, <3>3
  <2> QED
    BY <2>6, <2>7
<1> QED
  BY <1>1, <1>2

-----------------------------------------------------------------------------
(* The ingest of the EEA. *)

EeaStatuses == {"none", "queued", "failed"} \cup {Eea!Leaves[w] : w \in Eea!Workers}
EeaPlaces == {"none", "queued", "begun", "read", "marking", "pushing", "done", "dead"}
EeaFile == [Times -> Nat]

EeaTypeOK ==
  /\ published \in EeaFile
  /\ orchestrator \in [Batches -> {"idle", "created", "done", "dead"}]
  /\ status \in [Batches -> EeaStatuses]
  /\ zip \in [Batches -> EeaFile]
  /\ files \in [Batches -> EeaFile]
  /\ raw \in [Batches -> SUBSET [file : EeaFile, at : Nat]]
  /\ ingested \in Nat
  /\ transformed \in [Times -> [value : Nat, batch : Nat, at : Nat]]
  /\ fixed \in EeaFile
  /\ station \in EeaFile
  /\ pc \in [Eea!Jobs -> EeaPlaces]
  /\ retried \in SUBSET Eea!Jobs
  /\ seen \in [Eea!Jobs -> EeaStatuses]
  /\ held \in [Eea!Jobs -> EeaFile]
  /\ overtaken \in SUBSET Times
  /\ faults \in Nat

EeaFinal == {"completed", "failed"}
EeaLive(j) == pc[j] \in {"queued", "begun", "read", "marking", "pushing"}

\* A batch has a status once it is there, and jobs once its first one was pushed.
EeaBegun ==
  \A b \in Batches :
    /\ orchestrator[b] # "idle" => status[b] # "none"
    /\ orchestrator[b] # "done" => \A j \in Eea!JobsOf(b) : pc[j] = "none"

\* The last job of a batch has none to push.
EeaPushing ==
  \A j \in Eea!Jobs : pc[j] = "pushing" => Eea!Worker(j) # "clean"

\* A row that a batch has transformed has a value.
EeaValued ==
  \A t \in Times : transformed[t].batch # 0 => transformed[t].value # 0

\* A job that may end without a word: the status it leaves is the one it was loaded with.
EeaMute(j) ==
  \/ Eea!Worker(j) = "clean" /\ pc[j] \in {"begun", "marking"} /\ seen[j] = "completed"
  \/ Eea!Worker(j) = "unzip" /\ pc[j] = "begun" /\ seen[j] = "failed"

EeaSpeaks(j) == EeaLive(j) /\ ~EeaMute(j)

\* While a batch is neither completed nor failed there is a job that has more to say.
EeaCarried ==
  \A b \in Batches :
    orchestrator[b] = "done" /\ ~Eea!Lost(b) /\ status[b] \notin EeaFinal =>
      \E j \in Eea!JobsOf(b) : EeaSpeaks(j)

\* A copy of a newer measurement than the one kept has still to be transformed.
EeaApplies(j) ==
  \/ Eea!Worker(j) = "copy" /\ pc[j] \in {"queued", "begun", "marking", "pushing"}
  \/ Eea!Worker(j) = "transform" /\ pc[j] \in {"queued", "begun"}
EeaApplying ==
  \A b \in Batches : \A t \in Times : \A copy \in raw[b] :
    copy.file[t] # 0 /\ transformed[t].at < copy.at /\ ~Eea!Lost(b) =>
      \E j \in Eea!JobsOf(b) : EeaApplies(j)

\* A row that is not stored as it is kept has still to be loaded.
EeaTransforms(j) ==
  Eea!Worker(j) = "transform" /\ pc[j] \in {"queued", "begun", "marking", "pushing"}
EeaWillFix(j) ==
  \/ EeaTransforms(j)
  \/ Eea!Worker(j) = "load" /\ pc[j] = "queued"
EeaWillStore(j, t) ==
  \/ EeaTransforms(j)
  \/ Eea!Worker(j) = "load" /\ pc[j] \in {"queued", "begun"}
  \/ Eea!Worker(j) = "load" /\ pc[j] = "read" /\ held[j][t] = transformed[t].value
EeaLoading ==
  \A b \in Batches : \A t \in Times :
    transformed[t].batch = b /\ ~Eea!Lost(b) =>
      /\ fixed[t] = transformed[t].value \/ \E j \in Eea!JobsOf(b) : EeaWillFix(j)
      /\ \/ t \in overtaken \/ station[t] = transformed[t].value
         \/ \E j \in Eea!JobsOf(b) : EeaWillStore(j, t)

EeaIInv ==
  /\ EeaTypeOK
  /\ EeaBegun
  /\ EeaPushing
  /\ EeaValued
  /\ EeaCarried
  /\ EeaApplying
  /\ EeaLoading

-----------------------------------------------------------------------------
(* Jobs. *)

LEMMA EeaNamed ==
  /\ Eea!Workers = {"download", "unzip", "copy", "transform", "load", "clean"}
  /\ \A w \in Eea!Workers : Eea!Leaves[w] \in EeaStatuses \ {"none", "failed"}
  /\ \A w \in Eea!Workers : Eea!Leaves[w] = "completed" <=> w = "clean"
  /\ {"none", "queued", "failed", "saved", "completed"} \subseteq EeaStatuses
  /\ \A w \in Eea!Workers \ {"clean"} : Eea!Pushes[w] \in Eea!Workers
  /\ Eea!Pushes["copy"] = "transform" /\ Eea!Pushes["transform"] = "load"
BY DEF Eea!Workers, Eea!Leaves, EeaStatuses, Eea!Pushes

LEMMA EeaJobIs ==
  ASSUME NEW j \in Eea!Jobs
  PROVE  Eea!Worker(j) \in Eea!Workers /\ Eea!Batch(j) \in Batches
BY DEF Eea!Jobs, Eea!Worker, Eea!Batch

\* The job that is pushed is one that was not.
LEMMA EeaPushedIs ==
  ASSUME NEW w \in Eea!Workers, NEW b \in Batches, Eea!Unpushed(w, b) # {}
  PROVE  /\ Eea!Pushed(w, b) \in Eea!Jobs /\ pc[Eea!Pushed(w, b)] = "none"
         /\ Eea!Worker(Eea!Pushed(w, b)) = w /\ Eea!Batch(Eea!Pushed(w, b)) = b
<1>1. Eea!Unpushed(w, b) \in SUBSET Nat
  BY DEF Eea!Unpushed
<1>2. Eea!Min(Eea!Unpushed(w, b)) \in Eea!Unpushed(w, b)
  BY <1>1, EeaMinOfNaturals
<1> HIDE DEF Eea!Unpushed
<1>3. /\ Eea!Min(Eea!Unpushed(w, b)) \in 1..MaxCopies
      /\ pc[<<w, b, Eea!Min(Eea!Unpushed(w, b))>>] = "none"
  BY <1>2 DEF Eea!Unpushed
<1> QED
  BY <1>3 DEF Eea!Pushed, Eea!Jobs, Eea!Worker, Eea!Batch

\* A batch that is created has all its jobs before it.
LEMMA EeaFirstIsPushed ==
  ASSUME Eea!EeaAssumption, EeaTypeOK, EeaBegun, NEW b \in Batches, orchestrator[b] = "created"
  PROVE  Eea!Unpushed("download", b) # {}
<1>1. <<"download", b, 1>> \in Eea!Jobs
  BY EeaNamed DEF Eea!Jobs, Eea!EeaAssumption
<1>2. <<"download", b, 1>> \in Eea!JobsOf(b)
  BY <1>1 DEF Eea!JobsOf, Eea!Batch
<1>3. pc[<<"download", b, 1>>] = "none"
  BY <1>2 DEF EeaBegun
<1> QED
  BY <1>3 DEF Eea!Unpushed, Eea!EeaAssumption

-----------------------------------------------------------------------------
(* Types. *)

LEMMA EeaInitHolds == Eea!EeaAssumption /\ Eea!Init => EeaIInv
<1> SUFFICES ASSUME Eea!EeaAssumption, Eea!Init PROVE EeaIInv
  OBVIOUS
<1>1. EeaTypeOK
  BY EeaNamed DEF Eea!Init, EeaTypeOK, EeaFile, EeaPlaces, Eea!NoFile, Eea!NoRow, Eea!EeaAssumption
<1>2. EeaBegun /\ EeaPushing /\ EeaValued /\ EeaCarried
  BY DEF Eea!Init, EeaBegun, EeaPushing, EeaValued, EeaCarried, Eea!NoRow, Eea!JobsOf
<1>3. EeaApplying /\ EeaLoading
  BY DEF Eea!Init, EeaApplying, EeaLoading, Eea!NoRow, Eea!EeaAssumption
<1> QED
  BY <1>1, <1>2, <1>3 DEF EeaIInv

LEMMA EeaTypeNext ==
  Eea!EeaAssumption /\ EeaIInv /\ [Eea!Next]_(Eea!vars)
    => EeaTypeOK'
<1> SUFFICES ASSUME Eea!EeaAssumption, EeaIInv, [Eea!Next]_(Eea!vars) PROVE EeaTypeOK'
  OBVIOUS
<1> EeaTypeOK /\ EeaBegun /\ EeaPushing
  BY DEF EeaIInv
<1>1. CASE UNCHANGED Eea!vars
  BY <1>1 DEF Eea!vars, EeaTypeOK, Eea!disk, Eea!staging, Eea!stored, Eea!memory
<1>2. ASSUME NEW b \in Batches, Eea!CreateBatch(b) PROVE EeaTypeOK'
  BY <1>2, EeaNamed DEF Eea!CreateBatch, EeaTypeOK, Eea!disk, Eea!staging, Eea!stored, Eea!memory
<1>3. ASSUME NEW b \in Batches, Eea!PushDownload(b) PROVE EeaTypeOK'
  <2>1. Eea!Pushed("download", b) \in Eea!Jobs
    BY <1>3, EeaFirstIsPushed, EeaPushedIs, EeaNamed DEF Eea!PushDownload
  <2> QED
    BY <1>3, <2>1 DEF Eea!PushDownload, EeaTypeOK, EeaPlaces, Eea!disk, Eea!staging, Eea!stored,
        Eea!memory
<1>4. ASSUME NEW b \in Batches, Eea!InterruptOrchestrator(b) PROVE EeaTypeOK'
  BY <1>4, EeaJobIs, EeaNamed DEF Eea!InterruptOrchestrator, EeaTypeOK, Eea!GoTo, Eea!Mark,
      Eea!Raise, Eea!disk, Eea!staging, Eea!stored, Eea!memory, EeaPlaces, EeaFile, Eea!NoFile
<1>5. ASSUME NEW j \in Eea!Jobs, Eea!FindBatch(j) PROVE EeaTypeOK'
  BY <1>5, EeaJobIs, EeaNamed DEF Eea!FindBatch, EeaTypeOK, Eea!GoTo, Eea!Mark, Eea!Raise,
      Eea!disk, Eea!staging, Eea!stored, Eea!memory, EeaPlaces, EeaFile, Eea!NoFile
<1>6. ASSUME NEW j \in Eea!Jobs, Eea!SaveZip(j) PROVE EeaTypeOK'
  <2>1. zip' \in [Batches -> EeaFile] /\ held' \in [Eea!Jobs -> EeaFile]
    BY <1>6 DEF Eea!SaveZip, EeaTypeOK, EeaFile, Eea!NoFile
  <2> QED
    BY <1>6, <2>1 DEF Eea!SaveZip, EeaTypeOK, Eea!GoTo, EeaPlaces, Eea!disk, Eea!staging,
        Eea!stored, Eea!memory
<1>7. ASSUME NEW j \in Eea!Jobs, Eea!Unzip(j) PROVE EeaTypeOK'
  <2>1. files' \in [Batches -> EeaFile]
    BY <1>7, EeaJobIs DEF Eea!Unzip, EeaTypeOK
  <2>2. status' \in [Batches -> EeaStatuses]
    BY <1>7, EeaJobIs, EeaNamed DEF Eea!Unzip, Eea!Mark, EeaTypeOK
  <2>3. pc' \in [Eea!Jobs -> EeaPlaces]
    BY <1>7 DEF Eea!Unzip, Eea!GoTo, EeaTypeOK, EeaPlaces
  <2> QED
    BY <1>7, <2>1, <2>2, <2>3 DEF Eea!Unzip, EeaTypeOK, Eea!disk, Eea!staging, Eea!stored,
        Eea!memory
<1>8. ASSUME NEW j \in Eea!Jobs, Eea!CopyRows(j) PROVE EeaTypeOK'
  <2>1. pc' \in [Eea!Jobs -> EeaPlaces] /\ retried' \in SUBSET Eea!Jobs
    BY <1>8 DEF Eea!CopyRows, EeaTypeOK, Eea!GoTo, Eea!Raise, EeaPlaces
  <2>2. /\ raw' \in [Batches -> SUBSET [file : EeaFile, at : Nat]]
        /\ ingested' \in Nat
    BY <1>8, EeaJobIs DEF Eea!CopyRows, EeaTypeOK
  <2> QED
    BY <1>8, <2>1, <2>2 DEF Eea!CopyRows, EeaTypeOK, Eea!disk, Eea!stored, Eea!memory
<1>9. ASSUME NEW j \in Eea!Jobs, Eea!Transform(j) PROVE EeaTypeOK'
  <2>1. transformed' \in [Times -> [value : Nat, batch : Nat, at : Nat]]
    <3>1. CASE UNCHANGED transformed
      BY <3>1 DEF EeaTypeOK
    <3>2. CASE ~Eea!WrittenTwice(Eea!Batch(j))
      <4>1. Eea!Batch(j) \in Batches /\ Eea!Batch(j) \in Nat
        BY EeaJobIs DEF Eea!EeaAssumption
      <4>2. ASSUME NEW t \in Times, Eea!Applied(Eea!Batch(j), t) # {}
           
PROVE  Eea!TheCopy(Eea!Batch(j), t).file[t] \in Nat /\ Eea!TheCopy(Eea!Batch(j), t).at \in Nat
        BY <4>1, <4>2 DEF Eea!TheCopy, Eea!Applied, EeaTypeOK, EeaFile
      <4> QED
        BY <1>9, <3>2, <4>1, <4>2 DEF Eea!Transform, EeaTypeOK
    <3> QED
      BY <1>9, <3>1, <3>2 DEF Eea!Transform
  <2>2. pc' \in [Eea!Jobs -> EeaPlaces] /\ retried' \in SUBSET Eea!Jobs
    BY <1>9 DEF Eea!Transform, EeaTypeOK, Eea!GoTo, Eea!Raise, EeaPlaces
  <2> QED
    BY <1>9, <2>1, <2>2 DEF Eea!Transform, EeaTypeOK, Eea!disk, Eea!stored, Eea!memory
<1>10. ASSUME NEW j \in Eea!Jobs, Eea!LoadFixed(j) PROVE EeaTypeOK'
  <2>1. fixed' \in EeaFile
    BY <1>10 DEF Eea!LoadFixed, Eea!Upserted, Eea!RowsOf, EeaTypeOK, EeaFile
  <2> QED
    BY <1>10, <2>1 DEF Eea!LoadFixed, EeaTypeOK, Eea!GoTo, EeaPlaces, Eea!disk, Eea!staging,
        Eea!stored, Eea!memory
<1>11. ASSUME NEW j \in Eea!Jobs, Eea!ReadRows(j) PROVE EeaTypeOK'
  <2>1. Eea!RowsOf(Eea!Batch(j)) \in EeaFile /\ Eea!Batch(j) \in Batches
    BY EeaJobIs DEF Eea!RowsOf, EeaTypeOK, EeaFile
  <2> QED
    BY <1>11, <2>1 DEF Eea!ReadRows, EeaTypeOK, Eea!GoTo, EeaPlaces, Eea!disk, Eea!staging,
        Eea!stored, Eea!memory
<1>12. ASSUME NEW j \in Eea!Jobs, Eea!StoreRows(j) PROVE EeaTypeOK'
  <2>1. station' \in EeaFile /\ overtaken' \in SUBSET Times /\ held' \in [Eea!Jobs -> EeaFile]
    BY <1>12 DEF Eea!StoreRows, Eea!Upserted, EeaTypeOK, EeaFile, Eea!NoFile
  <2>2. status' \in [Batches -> EeaStatuses]
    BY <1>12, EeaJobIs, EeaNamed DEF Eea!StoreRows, Eea!Mark, EeaTypeOK
  <2> QED
    BY <1>12, <2>1, <2>2 DEF Eea!StoreRows, EeaTypeOK, Eea!GoTo, EeaPlaces, Eea!disk, Eea!staging,
        Eea!stored, Eea!memory
<1>13. ASSUME NEW j \in Eea!Jobs, Eea!RemoveFiles(j) PROVE EeaTypeOK'
  BY <1>13, EeaJobIs, EeaNamed DEF Eea!RemoveFiles, EeaTypeOK, Eea!GoTo, Eea!Mark, Eea!Raise,
      Eea!disk, Eea!staging, Eea!stored, Eea!memory, EeaPlaces, EeaFile, Eea!NoFile
<1>14. ASSUME NEW j \in Eea!Jobs, Eea!SetStatus(j) PROVE EeaTypeOK'
  BY <1>14, EeaJobIs, EeaNamed DEF Eea!SetStatus, EeaTypeOK, Eea!GoTo, Eea!Mark, Eea!Raise,
      Eea!disk, Eea!staging, Eea!stored, Eea!memory, EeaPlaces, EeaFile, Eea!NoFile
<1>15. ASSUME NEW j \in Eea!Jobs, Eea!PushNext(j) PROVE EeaTypeOK'
  <2>1. Eea!Pushed(Eea!Pushes[Eea!Worker(j)], Eea!Batch(j)) \in Eea!Jobs
    BY <1>15, EeaPushedIs, EeaJobIs, EeaNamed DEF Eea!PushNext, EeaPushing
  <2>2. UNCHANGED <<published, orchestrator, status, Eea!disk, Eea!staging, Eea!stored, retried,
           Eea!memory>>
    BY <1>15 DEF Eea!PushNext
  <2>3. pc' \in [Eea!Jobs -> EeaPlaces] /\ faults' \in Nat
    BY <1>15, <2>1 DEF Eea!PushNext, EeaTypeOK, EeaPlaces
  <2> QED
    BY <2>2, <2>3 DEF EeaTypeOK, Eea!disk, Eea!staging, Eea!stored, Eea!memory
<1>16. ASSUME NEW j \in Eea!Jobs, Eea!Interrupt(j) PROVE EeaTypeOK'
  BY <1>16, EeaJobIs, EeaNamed DEF Eea!Interrupt, EeaTypeOK, Eea!GoTo, Eea!Mark, Eea!Raise,
      Eea!disk, Eea!staging, Eea!stored, Eea!memory, EeaPlaces, EeaFile, Eea!NoFile
<1>17. ASSUME NEW at \in 1..ingested, Eea!Purge(at) PROVE EeaTypeOK'
  <2>1. raw' \in [Batches -> SUBSET [file : EeaFile, at : Nat]]
    BY <1>17 DEF Eea!Purge, EeaTypeOK
  <2>2. transformed' \in [Times -> [value : Nat, batch : Nat, at : Nat]]
    BY <1>17 DEF Eea!Purge, EeaTypeOK, Eea!NoRow
  <2> QED
    BY <1>17, <2>1, <2>2 DEF Eea!Purge, EeaTypeOK, Eea!disk, Eea!stored, Eea!memory
<1>18. ASSUME NEW t \in Times, Eea!Publish(t) PROVE EeaTypeOK'
  BY <1>18, EeaJobIs, EeaNamed DEF Eea!Publish, EeaTypeOK, Eea!GoTo, Eea!Mark, Eea!Raise, Eea!disk,
      Eea!staging, Eea!stored, Eea!memory, EeaPlaces, EeaFile, Eea!NoFile
<1> QED
  BY <1>1, <1>2, <1>3, <1>4, <1>5, <1>6, <1>7, <1>8, <1>9,
    <1>10, <1>11, <1>12, <1>13, <1>14, <1>15, <1>16, <1>17, <1>18 DEF Eea!Next, Eea!Work

LEMMA EeaBegunNext ==
  Eea!EeaAssumption /\ EeaIInv /\ [Eea!Next]_(Eea!vars)
    => EeaBegun'
<1> SUFFICES ASSUME Eea!EeaAssumption, EeaIInv, [Eea!Next]_(Eea!vars) PROVE EeaBegun'
  OBVIOUS
<1> EeaTypeOK /\ EeaBegun
  BY DEF EeaIInv
<1>1. CASE UNCHANGED Eea!vars
  BY <1>1 DEF Eea!vars, EeaBegun, Eea!JobsOf
<1>2. ASSUME NEW b \in Batches, Eea!CreateBatch(b) PROVE EeaBegun'
  BY <1>2 DEF Eea!CreateBatch, EeaTypeOK, EeaBegun, Eea!JobsOf
<1>3. ASSUME NEW b \in Batches, Eea!PushDownload(b) PROVE EeaBegun'
  <2>1. /\ Eea!Pushed("download", b) \in Eea!Jobs /\ Eea!Batch(Eea!Pushed("download", b)) = b
    BY <1>3, EeaFirstIsPushed, EeaPushedIs, EeaNamed DEF Eea!PushDownload
  <2> QED
    BY <1>3, <2>1 DEF Eea!PushDownload, EeaTypeOK, EeaBegun, Eea!JobsOf
<1>4. ASSUME NEW b \in Batches, Eea!InterruptOrchestrator(b) PROVE EeaBegun'
  BY <1>4 DEF Eea!InterruptOrchestrator, EeaTypeOK, EeaBegun, Eea!JobsOf
<1>5. ASSUME NEW j \in Eea!Jobs, Eea!FindBatch(j) PROVE EeaBegun'
  <2>1. pc[j] # "none" /\ orchestrator' = orchestrator
    BY <1>5 DEF Eea!FindBatch
  <2>2. \A k \in Eea!Jobs : k # j => pc'[k] = pc[k]
    BY <1>5 DEF Eea!FindBatch, Eea!GoTo, Eea!Raise, EeaTypeOK
  <2>3. \A b \in Batches : status[b] # "none" => status'[b] # "none"
    BY <1>5, EeaJobIs, EeaNamed DEF Eea!FindBatch, Eea!Mark, EeaTypeOK
  <2> QED
    BY <2>1, <2>2, <2>3, EeaJobIs DEF EeaBegun, Eea!JobsOf, EeaTypeOK
<1>6. ASSUME NEW j \in Eea!Jobs, Eea!SaveZip(j) PROVE EeaBegun'
  <2>1. pc[j] # "none" /\ orchestrator' = orchestrator
    BY <1>6 DEF Eea!SaveZip
  <2>2. \A k \in Eea!Jobs : k # j => pc'[k] = pc[k]
    BY <1>6 DEF Eea!SaveZip, Eea!GoTo, Eea!Raise, EeaTypeOK
  <2>3. \A b \in Batches : status[b] # "none" => status'[b] # "none"
    BY <1>6, EeaJobIs, EeaNamed DEF Eea!SaveZip, Eea!Mark, EeaTypeOK
  <2> QED
    BY <2>1, <2>2, <2>3, EeaJobIs DEF EeaBegun, Eea!JobsOf, EeaTypeOK
<1>7. ASSUME NEW j \in Eea!Jobs, Eea!Unzip(j) PROVE EeaBegun'
  <2>1. pc[j] # "none" /\ orchestrator' = orchestrator
    BY <1>7 DEF Eea!Unzip
  <2>2. \A k \in Eea!Jobs : k # j => pc'[k] = pc[k]
    BY <1>7 DEF Eea!Unzip, Eea!GoTo, Eea!Raise, EeaTypeOK
  <2>3. \A b \in Batches : status[b] # "none" => status'[b] # "none"
    BY <1>7, EeaJobIs, EeaNamed DEF Eea!Unzip, Eea!Mark, EeaTypeOK
  <2> QED
    BY <2>1, <2>2, <2>3, EeaJobIs DEF EeaBegun, Eea!JobsOf, EeaTypeOK
<1>8. ASSUME NEW j \in Eea!Jobs, Eea!CopyRows(j) PROVE EeaBegun'
  <2>1. pc[j] # "none" /\ orchestrator' = orchestrator
    BY <1>8 DEF Eea!CopyRows
  <2>2. \A k \in Eea!Jobs : k # j => pc'[k] = pc[k]
    BY <1>8 DEF Eea!CopyRows, Eea!GoTo, Eea!Raise, EeaTypeOK
  <2>3. \A b \in Batches : status[b] # "none" => status'[b] # "none"
    BY <1>8, EeaJobIs, EeaNamed DEF Eea!CopyRows, Eea!Mark, EeaTypeOK
  <2> QED
    BY <2>1, <2>2, <2>3, EeaJobIs DEF EeaBegun, Eea!JobsOf, EeaTypeOK
<1>9. ASSUME NEW j \in Eea!Jobs, Eea!Transform(j) PROVE EeaBegun'
  <2>1. pc[j] # "none" /\ orchestrator' = orchestrator
    BY <1>9 DEF Eea!Transform
  <2>2. \A k \in Eea!Jobs : k # j => pc'[k] = pc[k]
    BY <1>9 DEF Eea!Transform, Eea!GoTo, Eea!Raise, EeaTypeOK
  <2>3. \A b \in Batches : status[b] # "none" => status'[b] # "none"
    BY <1>9, EeaJobIs, EeaNamed DEF Eea!Transform, Eea!Mark, EeaTypeOK
  <2> QED
    BY <2>1, <2>2, <2>3, EeaJobIs DEF EeaBegun, Eea!JobsOf, EeaTypeOK
<1>10. ASSUME NEW j \in Eea!Jobs, Eea!LoadFixed(j) PROVE EeaBegun'
  <2>1. pc[j] # "none" /\ orchestrator' = orchestrator
    BY <1>10 DEF Eea!LoadFixed
  <2>2. \A k \in Eea!Jobs : k # j => pc'[k] = pc[k]
    BY <1>10 DEF Eea!LoadFixed, Eea!GoTo, Eea!Raise, EeaTypeOK
  <2>3. \A b \in Batches : status[b] # "none" => status'[b] # "none"
    BY <1>10, EeaJobIs, EeaNamed DEF Eea!LoadFixed, Eea!Mark, EeaTypeOK
  <2> QED
    BY <2>1, <2>2, <2>3, EeaJobIs DEF EeaBegun, Eea!JobsOf, EeaTypeOK
<1>11. ASSUME NEW j \in Eea!Jobs, Eea!ReadRows(j) PROVE EeaBegun'
  <2>1. pc[j] # "none" /\ orchestrator' = orchestrator
    BY <1>11 DEF Eea!ReadRows
  <2>2. \A k \in Eea!Jobs : k # j => pc'[k] = pc[k]
    BY <1>11 DEF Eea!ReadRows, Eea!GoTo, Eea!Raise, EeaTypeOK
  <2>3. \A b \in Batches : status[b] # "none" => status'[b] # "none"
    BY <1>11, EeaJobIs, EeaNamed DEF Eea!ReadRows, Eea!Mark, EeaTypeOK
  <2> QED
    BY <2>1, <2>2, <2>3, EeaJobIs DEF EeaBegun, Eea!JobsOf, EeaTypeOK
<1>12. ASSUME NEW j \in Eea!Jobs, Eea!StoreRows(j) PROVE EeaBegun'
  <2>1. pc[j] # "none" /\ orchestrator' = orchestrator
    BY <1>12 DEF Eea!StoreRows
  <2>2. \A k \in Eea!Jobs : k # j => pc'[k] = pc[k]
    BY <1>12 DEF Eea!StoreRows, Eea!GoTo, Eea!Raise, EeaTypeOK
  <2>3. \A b \in Batches : status[b] # "none" => status'[b] # "none"
    BY <1>12, EeaJobIs, EeaNamed DEF Eea!StoreRows, Eea!Mark, EeaTypeOK
  <2> QED
    BY <2>1, <2>2, <2>3, EeaJobIs DEF EeaBegun, Eea!JobsOf, EeaTypeOK
<1>13. ASSUME NEW j \in Eea!Jobs, Eea!RemoveFiles(j) PROVE EeaBegun'
  <2>1. pc[j] # "none" /\ orchestrator' = orchestrator
    BY <1>13 DEF Eea!RemoveFiles
  <2>2. \A k \in Eea!Jobs : k # j => pc'[k] = pc[k]
    BY <1>13 DEF Eea!RemoveFiles, Eea!GoTo, Eea!Raise, EeaTypeOK
  <2>3. \A b \in Batches : status[b] # "none" => status'[b] # "none"
    BY <1>13, EeaJobIs, EeaNamed DEF Eea!RemoveFiles, Eea!Mark, EeaTypeOK
  <2> QED
    BY <2>1, <2>2, <2>3, EeaJobIs DEF EeaBegun, Eea!JobsOf, EeaTypeOK
<1>14. ASSUME NEW j \in Eea!Jobs, Eea!SetStatus(j) PROVE EeaBegun'
  <2>1. pc[j] # "none" /\ orchestrator' = orchestrator
    BY <1>14 DEF Eea!SetStatus
  <2>2. \A k \in Eea!Jobs : k # j => pc'[k] = pc[k]
    BY <1>14 DEF Eea!SetStatus, Eea!GoTo, Eea!Raise, EeaTypeOK
  <2>3. \A b \in Batches : status[b] # "none" => status'[b] # "none"
    BY <1>14, EeaJobIs, EeaNamed DEF Eea!SetStatus, Eea!Mark, EeaTypeOK
  <2> QED
    BY <2>1, <2>2, <2>3, EeaJobIs DEF EeaBegun, Eea!JobsOf, EeaTypeOK
<1>15. ASSUME NEW j \in Eea!Jobs, Eea!PushNext(j) PROVE EeaBegun'
  <2>1. LET q == Eea!Pushed(Eea!Pushes[Eea!Worker(j)], Eea!Batch(j))
        IN  q \in Eea!Jobs /\ Eea!Batch(q) = Eea!Batch(j)
    BY <1>15, EeaPushedIs, EeaJobIs, EeaNamed DEF Eea!PushNext, EeaPushing, EeaIInv
  <2> QED
    BY <1>15, <2>1, EeaJobIs DEF Eea!PushNext, EeaTypeOK, EeaBegun, Eea!JobsOf
<1>16. ASSUME NEW j \in Eea!Jobs, Eea!Interrupt(j) PROVE EeaBegun'
  <2>1. pc[j] # "none" /\ orchestrator' = orchestrator
    BY <1>16 DEF Eea!Interrupt
  <2>2. \A k \in Eea!Jobs : k # j => pc'[k] = pc[k]
    BY <1>16 DEF Eea!Interrupt, Eea!GoTo, Eea!Raise, EeaTypeOK
  <2>3. \A b \in Batches : status[b] # "none" => status'[b] # "none"
    BY <1>16, EeaJobIs, EeaNamed DEF Eea!Interrupt, Eea!Mark, EeaTypeOK
  <2> QED
    BY <2>1, <2>2, <2>3, EeaJobIs DEF EeaBegun, Eea!JobsOf, EeaTypeOK
<1>17. ASSUME NEW at \in 1..ingested, Eea!Purge(at) PROVE EeaBegun'
  BY <1>17 DEF Eea!Purge, EeaBegun, Eea!JobsOf
<1>18. ASSUME NEW t \in Times, Eea!Publish(t) PROVE EeaBegun'
  BY <1>18 DEF Eea!Publish, EeaBegun, Eea!JobsOf
<1> QED
  BY <1>1, <1>2, <1>3, <1>4, <1>5, <1>6, <1>7, <1>8, <1>9,
    <1>10, <1>11, <1>12, <1>13, <1>14, <1>15, <1>16, <1>17, <1>18 DEF Eea!Next, Eea!Work

LEMMA EeaPushingNext ==
  Eea!EeaAssumption /\ EeaIInv /\ [Eea!Next]_(Eea!vars)
    => EeaPushing'
<1> SUFFICES ASSUME Eea!EeaAssumption, EeaIInv, [Eea!Next]_(Eea!vars) PROVE EeaPushing'
  OBVIOUS
<1> EeaTypeOK /\ EeaBegun /\ EeaPushing
  BY DEF EeaIInv
<1>1. CASE UNCHANGED Eea!vars
  BY <1>1 DEF Eea!vars, EeaPushing
<1>2. ASSUME NEW b \in Batches, Eea!CreateBatch(b) PROVE EeaPushing'
  BY <1>2 DEF Eea!CreateBatch, EeaPushing
<1>3. ASSUME NEW b \in Batches, Eea!PushDownload(b) PROVE EeaPushing'
  <2>1. Eea!Pushed("download", b) \in Eea!Jobs
    BY <1>3, EeaFirstIsPushed, EeaPushedIs, EeaNamed DEF Eea!PushDownload
  <2> QED
    BY <1>3, <2>1 DEF Eea!PushDownload, EeaTypeOK, EeaPushing
<1>4. ASSUME NEW b \in Batches, Eea!InterruptOrchestrator(b) PROVE EeaPushing'
  BY <1>4 DEF Eea!InterruptOrchestrator, EeaPushing
<1>5. ASSUME NEW j \in Eea!Jobs, Eea!FindBatch(j) PROVE EeaPushing'
  BY <1>5 DEF Eea!FindBatch, EeaTypeOK, EeaPushing, Eea!GoTo, Eea!Raise
<1>6. ASSUME NEW j \in Eea!Jobs, Eea!SaveZip(j) PROVE EeaPushing'
  BY <1>6 DEF Eea!SaveZip, EeaTypeOK, EeaPushing, Eea!GoTo, Eea!Raise
<1>7. ASSUME NEW j \in Eea!Jobs, Eea!Unzip(j) PROVE EeaPushing'
  BY <1>7 DEF Eea!Unzip, EeaTypeOK, EeaPushing, Eea!GoTo, Eea!Raise
<1>8. ASSUME NEW j \in Eea!Jobs, Eea!CopyRows(j) PROVE EeaPushing'
  BY <1>8 DEF Eea!CopyRows, EeaTypeOK, EeaPushing, Eea!GoTo, Eea!Raise
<1>9. ASSUME NEW j \in Eea!Jobs, Eea!Transform(j) PROVE EeaPushing'
  BY <1>9 DEF Eea!Transform, EeaTypeOK, EeaPushing, Eea!GoTo, Eea!Raise
<1>10. ASSUME NEW j \in Eea!Jobs, Eea!LoadFixed(j) PROVE EeaPushing'
  BY <1>10 DEF Eea!LoadFixed, EeaTypeOK, EeaPushing, Eea!GoTo, Eea!Raise
<1>11. ASSUME NEW j \in Eea!Jobs, Eea!ReadRows(j) PROVE EeaPushing'
  BY <1>11 DEF Eea!ReadRows, EeaTypeOK, EeaPushing, Eea!GoTo, Eea!Raise
<1>12. ASSUME NEW j \in Eea!Jobs, Eea!StoreRows(j) PROVE EeaPushing'
  BY <1>12 DEF Eea!StoreRows, EeaTypeOK, EeaPushing, Eea!GoTo, Eea!Raise
<1>13. ASSUME NEW j \in Eea!Jobs, Eea!RemoveFiles(j) PROVE EeaPushing'
  BY <1>13 DEF Eea!RemoveFiles, EeaTypeOK, EeaPushing, Eea!GoTo, Eea!Raise
<1>14. ASSUME NEW j \in Eea!Jobs, Eea!SetStatus(j) PROVE EeaPushing'
  BY <1>14 DEF Eea!SetStatus, EeaTypeOK, EeaPushing, Eea!GoTo, Eea!Raise
<1>15. ASSUME NEW j \in Eea!Jobs, Eea!PushNext(j) PROVE EeaPushing'
  <2>1. Eea!Pushed(Eea!Pushes[Eea!Worker(j)], Eea!Batch(j)) \in Eea!Jobs
    BY <1>15, EeaPushedIs, EeaJobIs, EeaNamed DEF Eea!PushNext, EeaPushing
  <2> QED
    BY <1>15, <2>1 DEF Eea!PushNext, EeaTypeOK, EeaPushing
<1>16. ASSUME NEW j \in Eea!Jobs, Eea!Interrupt(j) PROVE EeaPushing'
  BY <1>16 DEF Eea!Interrupt, EeaTypeOK, EeaPushing, Eea!GoTo, Eea!Raise
<1>17. ASSUME NEW at \in 1..ingested, Eea!Purge(at) PROVE EeaPushing'
  BY <1>17 DEF Eea!Purge, EeaPushing
<1>18. ASSUME NEW t \in Times, Eea!Publish(t) PROVE EeaPushing'
  BY <1>18 DEF Eea!Publish, EeaPushing
<1> QED
  BY <1>1, <1>2, <1>3, <1>4, <1>5, <1>6, <1>7, <1>8, <1>9,
    <1>10, <1>11, <1>12, <1>13, <1>14, <1>15, <1>16, <1>17, <1>18 DEF Eea!Next, Eea!Work

LEMMA EeaValuedNext ==
  Eea!EeaAssumption /\ EeaIInv /\ [Eea!Next]_(Eea!vars)
    => EeaValued'
<1> SUFFICES ASSUME Eea!EeaAssumption, EeaIInv, [Eea!Next]_(Eea!vars) PROVE EeaValued'
  OBVIOUS
<1> EeaTypeOK /\ EeaValued
  BY DEF EeaIInv
<1>1. CASE UNCHANGED Eea!vars
  BY <1>1 DEF Eea!vars, EeaValued, Eea!staging
<1>2. ASSUME NEW b \in Batches, Eea!CreateBatch(b) PROVE EeaValued'
  BY <1>2 DEF Eea!CreateBatch, EeaValued, Eea!staging
<1>3. ASSUME NEW b \in Batches, Eea!PushDownload(b) PROVE EeaValued'
  BY <1>3 DEF Eea!PushDownload, EeaValued, Eea!staging
<1>4. ASSUME NEW b \in Batches, Eea!InterruptOrchestrator(b) PROVE EeaValued'
  BY <1>4 DEF Eea!InterruptOrchestrator, EeaValued, Eea!staging
<1>5. ASSUME NEW j \in Eea!Jobs, Eea!FindBatch(j) PROVE EeaValued'
  BY <1>5 DEF Eea!FindBatch, EeaValued, Eea!staging
<1>6. ASSUME NEW j \in Eea!Jobs, Eea!SaveZip(j) PROVE EeaValued'
  BY <1>6 DEF Eea!SaveZip, EeaValued, Eea!staging
<1>7. ASSUME NEW j \in Eea!Jobs, Eea!Unzip(j) PROVE EeaValued'
  BY <1>7 DEF Eea!Unzip, EeaValued, Eea!staging
<1>8. ASSUME NEW j \in Eea!Jobs, Eea!CopyRows(j) PROVE EeaValued'
  BY <1>8 DEF Eea!CopyRows, EeaValued
<1>9. ASSUME NEW j \in Eea!Jobs, Eea!Transform(j) PROVE EeaValued'
  <2>1. ASSUME NEW t \in Times, Eea!Applied(Eea!Batch(j), t) # {}
        PROVE  Eea!TheCopy(Eea!Batch(j), t).file[t] # 0
    BY <2>1 DEF Eea!TheCopy, Eea!Applied
  <2>2. CASE UNCHANGED transformed
    BY <2>2 DEF EeaValued
  <2>3. CASE ~Eea!WrittenTwice(Eea!Batch(j))
    BY <1>9, <2>1, <2>3 DEF Eea!Transform, EeaValued
  <2> QED
    BY <1>9, <2>2, <2>3 DEF Eea!Transform
<1>10. ASSUME NEW j \in Eea!Jobs, Eea!LoadFixed(j) PROVE EeaValued'
  BY <1>10 DEF Eea!LoadFixed, EeaValued, Eea!staging
<1>11. ASSUME NEW j \in Eea!Jobs, Eea!ReadRows(j) PROVE EeaValued'
  BY <1>11 DEF Eea!ReadRows, EeaValued, Eea!staging
<1>12. ASSUME NEW j \in Eea!Jobs, Eea!StoreRows(j) PROVE EeaValued'
  BY <1>12 DEF Eea!StoreRows, EeaValued, Eea!staging
<1>13. ASSUME NEW j \in Eea!Jobs, Eea!RemoveFiles(j) PROVE EeaValued'
  BY <1>13 DEF Eea!RemoveFiles, EeaValued, Eea!staging
<1>14. ASSUME NEW j \in Eea!Jobs, Eea!SetStatus(j) PROVE EeaValued'
  BY <1>14 DEF Eea!SetStatus, EeaValued, Eea!staging
<1>15. ASSUME NEW j \in Eea!Jobs, Eea!PushNext(j) PROVE EeaValued'
  BY <1>15 DEF Eea!PushNext, EeaValued, Eea!staging
<1>16. ASSUME NEW j \in Eea!Jobs, Eea!Interrupt(j) PROVE EeaValued'
  BY <1>16 DEF Eea!Interrupt, EeaValued, Eea!staging
<1>17. ASSUME NEW at \in 1..ingested, Eea!Purge(at) PROVE EeaValued'
  BY <1>17 DEF Eea!Purge, EeaValued, Eea!NoRow
<1>18. ASSUME NEW t \in Times, Eea!Publish(t) PROVE EeaValued'
  BY <1>18 DEF Eea!Publish, EeaValued, Eea!staging
<1> QED
  BY <1>1, <1>2, <1>3, <1>4, <1>5, <1>6, <1>7, <1>8, <1>9,
    <1>10, <1>11, <1>12, <1>13, <1>14, <1>15, <1>16, <1>17, <1>18 DEF Eea!Next, Eea!Work

\* What is lost stays lost.
LEMMA EeaLostStays ==
  ASSUME Eea!EeaAssumption, EeaIInv, [Eea!Next]_(Eea!vars), NEW c \in Batches, Eea!Lost(c)
  PROVE  Eea!Lost(c)'
<1> EeaTypeOK /\ EeaBegun /\ EeaPushing
  BY DEF EeaIInv
<1> SUFFICES /\ orchestrator[c] = "dead" => orchestrator'[c] = "dead"
             /\ \A k \in Eea!Jobs : pc[k] = "dead" => pc'[k] = "dead"
  BY DEF Eea!Lost, Eea!JobsOf
<1> DEFINE G == /\ orchestrator[c] = "dead" => orchestrator'[c] = "dead"
                /\ \A k \in Eea!Jobs : pc[k] = "dead" => pc'[k] = "dead"
<1>1. CASE UNCHANGED Eea!vars
  BY <1>1 DEF Eea!vars
<1>2. ASSUME NEW b \in Batches, Eea!CreateBatch(b) PROVE G
  BY <1>2 DEF Eea!CreateBatch, EeaTypeOK, Eea!GoTo, Eea!Raise
<1>3. ASSUME NEW b \in Batches, Eea!PushDownload(b) PROVE G
  <2>1. LET q == Eea!Pushed("download", b) IN q \in Eea!Jobs /\ pc[q] = "none"
    BY <1>3, EeaFirstIsPushed, EeaPushedIs, EeaNamed DEF Eea!PushDownload
  <2> QED
    BY <1>3, <2>1 DEF Eea!PushDownload, EeaTypeOK
<1>4. ASSUME NEW b \in Batches, Eea!InterruptOrchestrator(b) PROVE G
  BY <1>4 DEF Eea!InterruptOrchestrator, EeaTypeOK, Eea!GoTo, Eea!Raise
<1>5. ASSUME NEW j \in Eea!Jobs, Eea!FindBatch(j) PROVE G
  BY <1>5 DEF Eea!FindBatch, EeaTypeOK, Eea!GoTo, Eea!Raise
<1>6. ASSUME NEW j \in Eea!Jobs, Eea!SaveZip(j) PROVE G
  BY <1>6 DEF Eea!SaveZip, EeaTypeOK, Eea!GoTo, Eea!Raise
<1>7. ASSUME NEW j \in Eea!Jobs, Eea!Unzip(j) PROVE G
  BY <1>7 DEF Eea!Unzip, EeaTypeOK, Eea!GoTo, Eea!Raise
<1>8. ASSUME NEW j \in Eea!Jobs, Eea!CopyRows(j) PROVE G
  BY <1>8 DEF Eea!CopyRows, EeaTypeOK, Eea!GoTo, Eea!Raise
<1>9. ASSUME NEW j \in Eea!Jobs, Eea!Transform(j) PROVE G
  <2>1. orchestrator' = orchestrator /\ pc[j] # "dead"
    BY <1>9 DEF Eea!Transform
  <2>2. \A k \in Eea!Jobs : k # j => pc'[k] = pc[k]
    BY <1>9 DEF Eea!Transform, Eea!GoTo, Eea!Raise, EeaTypeOK
  <2> QED
    BY <2>1, <2>2
<1>10. ASSUME NEW j \in Eea!Jobs, Eea!LoadFixed(j) PROVE G
  BY <1>10 DEF Eea!LoadFixed, EeaTypeOK, Eea!GoTo, Eea!Raise
<1>11. ASSUME NEW j \in Eea!Jobs, Eea!ReadRows(j) PROVE G
  BY <1>11 DEF Eea!ReadRows, EeaTypeOK, Eea!GoTo, Eea!Raise
<1>12. ASSUME NEW j \in Eea!Jobs, Eea!StoreRows(j) PROVE G
  BY <1>12 DEF Eea!StoreRows, EeaTypeOK, Eea!GoTo, Eea!Raise
<1>13. ASSUME NEW j \in Eea!Jobs, Eea!RemoveFiles(j) PROVE G
  BY <1>13 DEF Eea!RemoveFiles, EeaTypeOK, Eea!GoTo, Eea!Raise
<1>14. ASSUME NEW j \in Eea!Jobs, Eea!SetStatus(j) PROVE G
  BY <1>14 DEF Eea!SetStatus, EeaTypeOK, Eea!GoTo, Eea!Raise
<1>15. ASSUME NEW j \in Eea!Jobs, Eea!PushNext(j) PROVE G
  <2>1. LET q == Eea!Pushed(Eea!Pushes[Eea!Worker(j)], Eea!Batch(j)) IN q \in Eea!Jobs /\ pc[q] = "none"
    BY <1>15, EeaPushedIs, EeaJobIs, EeaNamed DEF Eea!PushNext, EeaPushing
  <2> QED
    BY <1>15, <2>1 DEF Eea!PushNext, EeaTypeOK
<1>16. ASSUME NEW j \in Eea!Jobs, Eea!Interrupt(j) PROVE G
  BY <1>16 DEF Eea!Interrupt, EeaTypeOK, Eea!GoTo, Eea!Raise
<1>17. ASSUME NEW at \in 1..ingested, Eea!Purge(at) PROVE G
  BY <1>17 DEF Eea!Purge, EeaTypeOK, Eea!GoTo, Eea!Raise
<1>18. ASSUME NEW t \in Times, Eea!Publish(t) PROVE G
  BY <1>18 DEF Eea!Publish, EeaTypeOK, Eea!GoTo, Eea!Raise
<1> QED
  BY <1>1, <1>2, <1>3, <1>4, <1>5, <1>6, <1>7, <1>8, <1>9,
    <1>10, <1>11, <1>12, <1>13, <1>14, <1>15, <1>16, <1>17, <1>18 DEF Eea!Next, Eea!Work

-----------------------------------------------------------------------------
(* Batches settle. *)

\* A job ends only with a status that settles its batch, or with none to leave, or
\* is lost.
LEMMA EeaCarriedNext ==
  Eea!EeaAssumption /\ EeaIInv /\ [Eea!Next]_(Eea!vars)
    => EeaCarried'
<1> SUFFICES ASSUME Eea!EeaAssumption, EeaIInv, [Eea!Next]_(Eea!vars), NEW c \in Batches,
                    orchestrator'[c] = "done", ~Eea!Lost(c)', status'[c] \notin EeaFinal
             PROVE  \E k \in Eea!JobsOf(c) : EeaSpeaks(k)'
  BY DEF EeaCarried, Eea!JobsOf
<1> EeaTypeOK /\ EeaBegun /\ EeaPushing /\ EeaCarried
  BY DEF EeaIInv
<1> ~Eea!Lost(c)
  BY EeaLostStays
<1>0. ASSUME NEW j \in Eea!Jobs, orchestrator' = orchestrator,
              \A k \in Eea!Jobs : k # j => pc'[k] = pc[k] /\ seen'[k] = seen[k],
              \A b \in Batches : b # Eea!Batch(j) => status'[b] = status[b],
              \/ EeaSpeaks(j)'
              \/ pc'[j] = "dead"
              \/ status'[Eea!Batch(j)] \in EeaFinal
              \/ status'[Eea!Batch(j)] = status[Eea!Batch(j)] /\ EeaMute(j)
       PROVE  \E k \in Eea!JobsOf(c) : EeaSpeaks(k)'
  <2>1. CASE c # Eea!Batch(j)
    <3>1. PICK k \in Eea!JobsOf(c) : EeaSpeaks(k)
      BY <1>0, <2>1 DEF EeaCarried
    <3>2. k # j /\ k \in Eea!Jobs
      BY <2>1 DEF Eea!JobsOf
    <3> QED
      BY <1>0, <3>1, <3>2 DEF EeaSpeaks, EeaLive, EeaMute
  <2>2. CASE c = Eea!Batch(j)
    <3>1. CASE EeaSpeaks(j)'
      BY <2>2, <3>1 DEF Eea!JobsOf
    <3>2. CASE pc'[j] = "dead"
      BY <2>2, <3>2 DEF Eea!JobsOf, Eea!Lost
    <3>3. CASE status'[Eea!Batch(j)] = status[Eea!Batch(j)] /\ EeaMute(j)
      <4>1. PICK k \in Eea!JobsOf(c) : EeaSpeaks(k)
        BY <1>0, <2>2, <3>3 DEF EeaCarried
      <4>2. k # j /\ k \in Eea!Jobs
        BY <3>3, <4>1 DEF EeaSpeaks, Eea!JobsOf
      <4> QED
        BY <1>0, <4>1, <4>2 DEF EeaSpeaks, EeaLive, EeaMute
    <3> QED
      BY <1>0, <2>2, <3>1, <3>2, <3>3
  <2> QED
    BY <2>1, <2>2
<1>1. CASE UNCHANGED Eea!vars
  <2>1. PICK k \in Eea!JobsOf(c) : EeaSpeaks(k)
    BY <1>1 DEF Eea!vars, EeaCarried, EeaTypeOK
  <2> QED
    BY <1>1, <2>1 DEF Eea!vars, EeaSpeaks, EeaLive, EeaMute, Eea!memory, Eea!JobsOf, EeaTypeOK
<1>2. ASSUME NEW b \in Batches, Eea!CreateBatch(b) PROVE \E k \in Eea!JobsOf(c) : EeaSpeaks(k)'
  <2>1. PICK k \in Eea!JobsOf(c) : EeaSpeaks(k)
    BY <1>2 DEF Eea!CreateBatch, EeaCarried, EeaTypeOK
  <2> QED
    BY <1>2, <2>1 DEF Eea!CreateBatch, EeaSpeaks, EeaLive, EeaMute, Eea!memory, Eea!JobsOf,
        EeaTypeOK
<1>3. ASSUME NEW b \in Batches, Eea!PushDownload(b) PROVE \E k \in Eea!JobsOf(c) : EeaSpeaks(k)'
  <2> DEFINE q == Eea!Pushed("download", b)
  <2>1. q \in Eea!Jobs /\ pc[q] = "none" /\ Eea!Batch(q) = b
    BY <1>3, EeaFirstIsPushed, EeaPushedIs, EeaNamed DEF Eea!PushDownload
  <2> HIDE DEF q
  <2>2. pc' = [pc EXCEPT ![q] = "queued"] /\ seen' = seen /\ status' = status
    BY <1>3 DEF Eea!PushDownload, Eea!memory, q
  <2>3. CASE c = b
    BY <2>1, <2>2, <2>3 DEF EeaSpeaks, EeaLive, EeaMute, EeaTypeOK, Eea!JobsOf
  <2>4. CASE c # b
    <3>1. PICK k \in Eea!JobsOf(c) : EeaSpeaks(k)
      BY <1>3, <2>4 DEF Eea!PushDownload, EeaCarried, EeaTypeOK
    <3> QED
      BY <2>1, <2>2, <3>1 DEF EeaSpeaks, EeaLive, EeaMute, Eea!JobsOf, EeaTypeOK
  <2> QED
    BY <2>3, <2>4
<1>4. ASSUME NEW b \in Batches, Eea!InterruptOrchestrator(b)
      PROVE  \E k \in Eea!JobsOf(c) : EeaSpeaks(k)'
  <2>1. PICK k \in Eea!JobsOf(c) : EeaSpeaks(k)
    BY <1>4 DEF Eea!InterruptOrchestrator, EeaCarried, EeaTypeOK
  <2> QED
    BY <1>4, <2>1 DEF Eea!InterruptOrchestrator, EeaSpeaks, EeaLive, EeaMute, Eea!memory,
        Eea!JobsOf, EeaTypeOK
<1>5. ASSUME NEW j \in Eea!Jobs, Eea!FindBatch(j) PROVE \E k \in Eea!JobsOf(c) : EeaSpeaks(k)'
  <2>1. /\ orchestrator' = orchestrator
        /\ \A k \in Eea!Jobs : k # j => pc'[k] = pc[k] /\ seen'[k] = seen[k]
        /\ \A b \in Batches : b # Eea!Batch(j) => status'[b] = status[b]
    BY <1>5, EeaJobIs DEF Eea!FindBatch, Eea!GoTo, Eea!Raise, Eea!Mark, Eea!memory, EeaTypeOK
  <2>2. \/ EeaSpeaks(j)'
        \/ pc'[j] = "dead"
        \/ status'[Eea!Batch(j)] \in EeaFinal
        \/ status'[Eea!Batch(j)] = status[Eea!Batch(j)] /\ EeaMute(j)
    BY <1>5, EeaJobIs, EeaNamed DEF Eea!FindBatch, Eea!GoTo, Eea!Raise, Eea!Mark, Eea!memory,
        EeaTypeOK, EeaSpeaks, EeaLive, EeaMute, EeaFinal
  <2> QED
    BY <1>0, <2>1, <2>2
<1>6. ASSUME NEW j \in Eea!Jobs, Eea!SaveZip(j) PROVE \E k \in Eea!JobsOf(c) : EeaSpeaks(k)'
  <2>1. /\ orchestrator' = orchestrator
        /\ \A k \in Eea!Jobs : k # j => pc'[k] = pc[k] /\ seen'[k] = seen[k]
        /\ \A b \in Batches : b # Eea!Batch(j) => status'[b] = status[b]
    BY <1>6, EeaJobIs DEF Eea!SaveZip, Eea!GoTo, Eea!Raise, Eea!Mark, Eea!memory, EeaTypeOK
  <2>2. \/ EeaSpeaks(j)'
        \/ pc'[j] = "dead"
        \/ status'[Eea!Batch(j)] \in EeaFinal
        \/ status'[Eea!Batch(j)] = status[Eea!Batch(j)] /\ EeaMute(j)
    BY <1>6, EeaJobIs, EeaNamed DEF Eea!SaveZip, Eea!GoTo, Eea!Raise, Eea!Mark, Eea!memory,
        EeaTypeOK, EeaSpeaks, EeaLive, EeaMute, EeaFinal
  <2> QED
    BY <1>0, <2>1, <2>2
<1>7. ASSUME NEW j \in Eea!Jobs, Eea!Unzip(j) PROVE \E k \in Eea!JobsOf(c) : EeaSpeaks(k)'
  <2>1. /\ orchestrator' = orchestrator
        /\ \A k \in Eea!Jobs : k # j => pc'[k] = pc[k] /\ seen'[k] = seen[k]
        /\ \A b \in Batches : b # Eea!Batch(j) => status'[b] = status[b]
    BY <1>7, EeaJobIs DEF Eea!Unzip, Eea!GoTo, Eea!Raise, Eea!Mark, Eea!memory, EeaTypeOK
  <2>2. \/ EeaSpeaks(j)'
        \/ pc'[j] = "dead"
        \/ status'[Eea!Batch(j)] \in EeaFinal
        \/ status'[Eea!Batch(j)] = status[Eea!Batch(j)] /\ EeaMute(j)
    BY <1>7, EeaJobIs, EeaNamed DEF Eea!Unzip, Eea!GoTo, Eea!Raise, Eea!Mark, Eea!memory,
        EeaTypeOK, EeaSpeaks, EeaLive, EeaMute, EeaFinal
  <2> QED
    BY <1>0, <2>1, <2>2
<1>8. ASSUME NEW j \in Eea!Jobs, Eea!CopyRows(j) PROVE \E k \in Eea!JobsOf(c) : EeaSpeaks(k)'
  <2>1. /\ orchestrator' = orchestrator
        /\ \A k \in Eea!Jobs : k # j => pc'[k] = pc[k] /\ seen'[k] = seen[k]
        /\ \A b \in Batches : b # Eea!Batch(j) => status'[b] = status[b]
    BY <1>8, EeaJobIs DEF Eea!CopyRows, Eea!GoTo, Eea!Raise, Eea!Mark, Eea!memory, EeaTypeOK
  <2>2. \/ EeaSpeaks(j)'
        \/ pc'[j] = "dead"
        \/ status'[Eea!Batch(j)] \in EeaFinal
        \/ status'[Eea!Batch(j)] = status[Eea!Batch(j)] /\ EeaMute(j)
    BY <1>8, EeaJobIs, EeaNamed DEF Eea!CopyRows, Eea!GoTo, Eea!Raise, Eea!Mark, Eea!memory,
        EeaTypeOK, EeaSpeaks, EeaLive, EeaMute, EeaFinal
  <2> QED
    BY <1>0, <2>1, <2>2
<1>9. ASSUME NEW j \in Eea!Jobs, Eea!Transform(j) PROVE \E k \in Eea!JobsOf(c) : EeaSpeaks(k)'
  <2>1. /\ orchestrator' = orchestrator
        /\ \A k \in Eea!Jobs : k # j => pc'[k] = pc[k] /\ seen'[k] = seen[k]
        /\ \A b \in Batches : b # Eea!Batch(j) => status'[b] = status[b]
    BY <1>9, EeaJobIs DEF Eea!Transform, Eea!GoTo, Eea!Raise, Eea!Mark, Eea!memory, EeaTypeOK
  <2>2. \/ EeaSpeaks(j)'
        \/ pc'[j] = "dead"
        \/ status'[Eea!Batch(j)] \in EeaFinal
        \/ status'[Eea!Batch(j)] = status[Eea!Batch(j)] /\ EeaMute(j)
    BY <1>9, EeaJobIs, EeaNamed DEF Eea!Transform, Eea!GoTo, Eea!Raise, Eea!Mark, Eea!memory,
        EeaTypeOK, EeaSpeaks, EeaLive, EeaMute, EeaFinal
  <2> QED
    BY <1>0, <2>1, <2>2
<1>10. ASSUME NEW j \in Eea!Jobs, Eea!LoadFixed(j) PROVE \E k \in Eea!JobsOf(c) : EeaSpeaks(k)'
  <2>1. /\ orchestrator' = orchestrator
        /\ \A k \in Eea!Jobs : k # j => pc'[k] = pc[k] /\ seen'[k] = seen[k]
        /\ \A b \in Batches : b # Eea!Batch(j) => status'[b] = status[b]
    BY <1>10, EeaJobIs DEF Eea!LoadFixed, Eea!GoTo, Eea!Raise, Eea!Mark, Eea!memory, EeaTypeOK
  <2>2. \/ EeaSpeaks(j)'
        \/ pc'[j] = "dead"
        \/ status'[Eea!Batch(j)] \in EeaFinal
        \/ status'[Eea!Batch(j)] = status[Eea!Batch(j)] /\ EeaMute(j)
    BY <1>10, EeaJobIs, EeaNamed DEF Eea!LoadFixed, Eea!GoTo, Eea!Raise, Eea!Mark, Eea!memory,
        EeaTypeOK, EeaSpeaks, EeaLive, EeaMute, EeaFinal
  <2> QED
    BY <1>0, <2>1, <2>2
<1>11. ASSUME NEW j \in Eea!Jobs, Eea!ReadRows(j) PROVE \E k \in Eea!JobsOf(c) : EeaSpeaks(k)'
  <2>1. /\ orchestrator' = orchestrator
        /\ \A k \in Eea!Jobs : k # j => pc'[k] = pc[k] /\ seen'[k] = seen[k]
        /\ \A b \in Batches : b # Eea!Batch(j) => status'[b] = status[b]
    BY <1>11, EeaJobIs DEF Eea!ReadRows, Eea!GoTo, Eea!Raise, Eea!Mark, Eea!memory, EeaTypeOK
  <2>2. \/ EeaSpeaks(j)'
        \/ pc'[j] = "dead"
        \/ status'[Eea!Batch(j)] \in EeaFinal
        \/ status'[Eea!Batch(j)] = status[Eea!Batch(j)] /\ EeaMute(j)
    BY <1>11, EeaJobIs, EeaNamed DEF Eea!ReadRows, Eea!GoTo, Eea!Raise, Eea!Mark, Eea!memory,
        EeaTypeOK, EeaSpeaks, EeaLive, EeaMute, EeaFinal
  <2> QED
    BY <1>0, <2>1, <2>2
<1>12. ASSUME NEW j \in Eea!Jobs, Eea!StoreRows(j) PROVE \E k \in Eea!JobsOf(c) : EeaSpeaks(k)'
  <2>1. /\ orchestrator' = orchestrator
        /\ \A k \in Eea!Jobs : k # j => pc'[k] = pc[k] /\ seen'[k] = seen[k]
        /\ \A b \in Batches : b # Eea!Batch(j) => status'[b] = status[b]
    BY <1>12, EeaJobIs DEF Eea!StoreRows, Eea!GoTo, Eea!Raise, Eea!Mark, Eea!memory, EeaTypeOK
  <2>2. \/ EeaSpeaks(j)'
        \/ pc'[j] = "dead"
        \/ status'[Eea!Batch(j)] \in EeaFinal
        \/ status'[Eea!Batch(j)] = status[Eea!Batch(j)] /\ EeaMute(j)
    BY <1>12, EeaJobIs, EeaNamed DEF Eea!StoreRows, Eea!GoTo, Eea!Raise, Eea!Mark, Eea!memory,
        EeaTypeOK, EeaSpeaks, EeaLive, EeaMute, EeaFinal
  <2> QED
    BY <1>0, <2>1, <2>2
<1>13. ASSUME NEW j \in Eea!Jobs, Eea!RemoveFiles(j) PROVE \E k \in Eea!JobsOf(c) : EeaSpeaks(k)'
  <2>1. /\ orchestrator' = orchestrator
        /\ \A k \in Eea!Jobs : k # j => pc'[k] = pc[k] /\ seen'[k] = seen[k]
        /\ \A b \in Batches : b # Eea!Batch(j) => status'[b] = status[b]
    BY <1>13, EeaJobIs DEF Eea!RemoveFiles, Eea!GoTo, Eea!Raise, Eea!Mark, Eea!memory, EeaTypeOK
  <2>2. \/ EeaSpeaks(j)'
        \/ pc'[j] = "dead"
        \/ status'[Eea!Batch(j)] \in EeaFinal
        \/ status'[Eea!Batch(j)] = status[Eea!Batch(j)] /\ EeaMute(j)
    BY <1>13, EeaJobIs, EeaNamed DEF Eea!RemoveFiles, Eea!GoTo, Eea!Raise, Eea!Mark, Eea!memory,
        EeaTypeOK, EeaSpeaks, EeaLive, EeaMute, EeaFinal
  <2> QED
    BY <1>0, <2>1, <2>2
<1>14. ASSUME NEW j \in Eea!Jobs, Eea!SetStatus(j) PROVE \E k \in Eea!JobsOf(c) : EeaSpeaks(k)'
  <2>1. /\ orchestrator' = orchestrator
        /\ \A k \in Eea!Jobs : k # j => pc'[k] = pc[k] /\ seen'[k] = seen[k]
        /\ \A b \in Batches : b # Eea!Batch(j) => status'[b] = status[b]
    BY <1>14, EeaJobIs DEF Eea!SetStatus, Eea!GoTo, Eea!Raise, Eea!Mark, Eea!memory, EeaTypeOK
  <2>2. \/ EeaSpeaks(j)'
        \/ pc'[j] = "dead"
        \/ status'[Eea!Batch(j)] \in EeaFinal
        \/ status'[Eea!Batch(j)] = status[Eea!Batch(j)] /\ EeaMute(j)
    BY <1>14, EeaJobIs, EeaNamed DEF Eea!SetStatus, Eea!GoTo, Eea!Raise, Eea!Mark, Eea!memory,
        EeaTypeOK, EeaSpeaks, EeaLive, EeaMute, EeaFinal
  <2> QED
    BY <1>0, <2>1, <2>2
<1>15. ASSUME NEW j \in Eea!Jobs, Eea!PushNext(j) PROVE \E k \in Eea!JobsOf(c) : EeaSpeaks(k)'
  <2> DEFINE q == Eea!Pushed(Eea!Pushes[Eea!Worker(j)], Eea!Batch(j))
  <2>1. q \in Eea!Jobs /\ pc[q] = "none" /\ Eea!Batch(q) = Eea!Batch(j) /\ q # j
    BY <1>15, EeaPushedIs, EeaJobIs, EeaNamed DEF Eea!PushNext, EeaPushing
  <2>2. /\ orchestrator' = orchestrator /\ seen' = seen /\ status' = status
        /\ pc'[q] = "queued" /\ \A k \in Eea!Jobs : k # j /\ k # q => pc'[k] = pc[k]
    BY <1>15, <2>1 DEF Eea!PushNext, Eea!memory, EeaTypeOK
  <2> HIDE DEF q
  <2>3. CASE c = Eea!Batch(j)
    BY <2>1, <2>2, <2>3 DEF EeaSpeaks, EeaLive, EeaMute, Eea!JobsOf
  <2>4. CASE c # Eea!Batch(j)
    <3>1. PICK k \in Eea!JobsOf(c) : EeaSpeaks(k)
      BY <2>2 DEF EeaCarried
    <3>2. k \in Eea!Jobs /\ k # j /\ k # q
      BY <2>1, <2>4 DEF Eea!JobsOf
    <3> QED
      BY <2>2, <3>1, <3>2 DEF EeaSpeaks, EeaLive, EeaMute
  <2> QED
    BY <2>3, <2>4
<1>16. ASSUME NEW j \in Eea!Jobs, Eea!Interrupt(j) PROVE \E k \in Eea!JobsOf(c) : EeaSpeaks(k)'
  <2>1. /\ orchestrator' = orchestrator
        /\ \A k \in Eea!Jobs : k # j => pc'[k] = pc[k] /\ seen'[k] = seen[k]
        /\ \A b \in Batches : b # Eea!Batch(j) => status'[b] = status[b]
    BY <1>16, EeaJobIs DEF Eea!Interrupt, Eea!GoTo, Eea!Raise, Eea!Mark, Eea!memory, EeaTypeOK
  <2>2. \/ EeaSpeaks(j)'
        \/ pc'[j] = "dead"
        \/ status'[Eea!Batch(j)] \in EeaFinal
        \/ status'[Eea!Batch(j)] = status[Eea!Batch(j)] /\ EeaMute(j)
    BY <1>16, EeaJobIs, EeaNamed DEF Eea!Interrupt, Eea!GoTo, Eea!Raise, Eea!Mark, Eea!memory,
        EeaTypeOK, EeaSpeaks, EeaLive, EeaMute, EeaFinal
  <2> QED
    BY <1>0, <2>1, <2>2
<1>17. ASSUME NEW at \in 1..ingested, Eea!Purge(at) PROVE \E k \in Eea!JobsOf(c) : EeaSpeaks(k)'
  <2>1. PICK k \in Eea!JobsOf(c) : EeaSpeaks(k)
    BY <1>17 DEF Eea!Purge, EeaCarried, EeaTypeOK
  <2> QED
    BY <1>17, <2>1 DEF Eea!Purge, EeaSpeaks, EeaLive, EeaMute, Eea!memory, Eea!JobsOf, EeaTypeOK
<1>18. ASSUME NEW u \in Times, Eea!Publish(u) PROVE \E k \in Eea!JobsOf(c) : EeaSpeaks(k)'
  <2>1. PICK k \in Eea!JobsOf(c) : EeaSpeaks(k)
    BY <1>18 DEF Eea!Publish, EeaCarried, EeaTypeOK
  <2> QED
    BY <1>18, <2>1 DEF Eea!Publish, EeaSpeaks, EeaLive, EeaMute, Eea!memory, Eea!JobsOf, EeaTypeOK
<1> QED
  BY <1>1, <1>2, <1>3, <1>4, <1>5, <1>6, <1>7, <1>8, <1>9,
    <1>10, <1>11, <1>12, <1>13, <1>14, <1>15, <1>16, <1>17, <1>18 DEF Eea!Next, Eea!Work

-----------------------------------------------------------------------------
(* The newest copy is kept and stored. *)

\* A copy that is not applied has a job that will apply it, or that will copy anew.
LEMMA EeaApplyingNext ==
  Eea!EeaAssumption /\ EeaIInv /\ [Eea!Next]_(Eea!vars)
    => EeaApplying'
<1> SUFFICES ASSUME Eea!EeaAssumption, EeaIInv, [Eea!Next]_(Eea!vars), NEW c \in Batches,
                    NEW t \in Times, NEW copy \in raw'[c], copy.file[t] # 0,
                    transformed'[t].at < copy.at, ~Eea!Lost(c)'
             PROVE  \E k \in Eea!JobsOf(c) : EeaApplies(k)'
  BY DEF EeaApplying, Eea!JobsOf
<1> EeaTypeOK /\ EeaBegun /\ EeaPushing /\ EeaApplying
  BY DEF EeaIInv
<1> ~Eea!Lost(c)
  BY EeaLostStays
<1>0. ASSUME NEW j \in Eea!Jobs, raw' = raw, transformed' = transformed,
              \A k \in Eea!Jobs : k # j => pc'[k] = pc[k],
              EeaApplies(j) => EeaApplies(j)' \/ pc'[j] = "dead"
       PROVE  \E k \in Eea!JobsOf(c) : EeaApplies(k)'
  <2>1. PICK k \in Eea!JobsOf(c) : EeaApplies(k)
    BY <1>0 DEF EeaApplying
  <2>2. k \in Eea!Jobs /\ Eea!Batch(k) = c
    BY <2>1 DEF Eea!JobsOf
  <2>3. k # j \/ EeaApplies(j)'
    BY <1>0, <2>1, <2>2 DEF Eea!Lost, Eea!JobsOf
  <2> QED
    BY <1>0, <2>1, <2>2, <2>3 DEF EeaApplies
<1>1. CASE UNCHANGED Eea!vars
  <2>1. PICK k \in Eea!JobsOf(c) : EeaApplies(k)
    BY <1>1 DEF Eea!vars, EeaApplying, Eea!staging
  <2> QED
    BY <1>1, <2>1 DEF Eea!vars, EeaApplies, Eea!JobsOf
<1>2. ASSUME NEW b \in Batches, Eea!CreateBatch(b) PROVE \E k \in Eea!JobsOf(c) : EeaApplies(k)'
  <2>1. PICK k \in Eea!JobsOf(c) : EeaApplies(k)
    BY <1>2 DEF Eea!CreateBatch, EeaApplying, Eea!staging
  <2> QED
    BY <1>2, <2>1 DEF Eea!CreateBatch, EeaApplies, Eea!JobsOf
<1>3. ASSUME NEW b \in Batches, Eea!PushDownload(b) PROVE \E k \in Eea!JobsOf(c) : EeaApplies(k)'
  <2> DEFINE q == Eea!Pushed("download", b)
  <2>1. q \in Eea!Jobs /\ pc[q] = "none"
    BY <1>3, EeaFirstIsPushed, EeaPushedIs, EeaNamed DEF Eea!PushDownload
  <2>2. raw' = raw /\ transformed' = transformed /\ pc' = [pc EXCEPT ![q] = "queued"]
    BY <1>3 DEF Eea!PushDownload, Eea!staging
  <2> HIDE DEF q
  <2> QED
    BY <1>0, <2>1, <2>2 DEF EeaApplies, EeaTypeOK
<1>4. ASSUME NEW b \in Batches, Eea!InterruptOrchestrator(b)
      PROVE  \E k \in Eea!JobsOf(c) : EeaApplies(k)'
  <2>1. PICK k \in Eea!JobsOf(c) : EeaApplies(k)
    BY <1>4 DEF Eea!InterruptOrchestrator, EeaApplying, Eea!staging
  <2> QED
    BY <1>4, <2>1 DEF Eea!InterruptOrchestrator, EeaApplies, Eea!JobsOf
<1>5. ASSUME NEW j \in Eea!Jobs, Eea!FindBatch(j) PROVE \E k \in Eea!JobsOf(c) : EeaApplies(k)'
  <2>1. /\ raw' = raw /\ transformed' = transformed
        /\ \A k \in Eea!Jobs : k # j => pc'[k] = pc[k]
    BY <1>5 DEF Eea!FindBatch, Eea!GoTo, Eea!Raise, Eea!staging, EeaTypeOK
  <2>2. EeaApplies(j) => EeaApplies(j)' \/ pc'[j] = "dead"
    BY <1>5 DEF Eea!FindBatch, Eea!GoTo, Eea!Raise, EeaTypeOK, EeaApplies
  <2> QED
    BY <1>0, <2>1, <2>2
<1>6. ASSUME NEW j \in Eea!Jobs, Eea!SaveZip(j) PROVE \E k \in Eea!JobsOf(c) : EeaApplies(k)'
  <2>1. /\ raw' = raw /\ transformed' = transformed
        /\ \A k \in Eea!Jobs : k # j => pc'[k] = pc[k]
    BY <1>6 DEF Eea!SaveZip, Eea!GoTo, Eea!Raise, Eea!staging, EeaTypeOK
  <2>2. EeaApplies(j) => EeaApplies(j)' \/ pc'[j] = "dead"
    BY <1>6 DEF Eea!SaveZip, Eea!GoTo, Eea!Raise, EeaTypeOK, EeaApplies
  <2> QED
    BY <1>0, <2>1, <2>2
<1>7. ASSUME NEW j \in Eea!Jobs, Eea!Unzip(j) PROVE \E k \in Eea!JobsOf(c) : EeaApplies(k)'
  <2>1. /\ raw' = raw /\ transformed' = transformed
        /\ \A k \in Eea!Jobs : k # j => pc'[k] = pc[k]
    BY <1>7 DEF Eea!Unzip, Eea!GoTo, Eea!Raise, Eea!staging, EeaTypeOK
  <2>2. EeaApplies(j) => EeaApplies(j)' \/ pc'[j] = "dead"
    BY <1>7 DEF Eea!Unzip, Eea!GoTo, Eea!Raise, EeaTypeOK, EeaApplies
  <2> QED
    BY <1>0, <2>1, <2>2
<1>8. ASSUME NEW j \in Eea!Jobs, Eea!CopyRows(j) PROVE \E k \in Eea!JobsOf(c) : EeaApplies(k)'
  <2>1. CASE raw' = raw
    <3>1. /\ transformed' = transformed
          /\ \A k \in Eea!Jobs : k # j => pc'[k] = pc[k]
          /\ pc'[j] \in {"queued", "dead", "marking"} /\ Eea!Worker(j) = "copy"
      BY <1>8 DEF Eea!CopyRows, Eea!GoTo, Eea!Raise, EeaTypeOK
    <3> QED
      BY <1>0, <2>1, <3>1 DEF EeaApplies
  <2>2. CASE files[Eea!Batch(j)] # Eea!NoFile
    <3>1. /\ pc' = [pc EXCEPT ![j] = "marking"] /\ Eea!Worker(j) = "copy" /\ transformed' = transformed
          /\ \A b \in Batches : b # Eea!Batch(j) => raw'[b] = raw[b]
      BY <1>8, <2>2, EeaJobIs DEF Eea!CopyRows, Eea!GoTo, EeaTypeOK
    <3>2. CASE c = Eea!Batch(j)
      BY <3>1, <3>2 DEF EeaApplies, Eea!JobsOf, EeaTypeOK
    <3>3. CASE c # Eea!Batch(j)
      <4>1. PICK k \in Eea!JobsOf(c) : EeaApplies(k)
        BY <3>1, <3>3 DEF EeaApplying
      <4>2. k \in Eea!Jobs /\ k # j
        BY <3>3 DEF Eea!JobsOf
      <4> QED
        BY <3>1, <4>1, <4>2 DEF EeaApplies, EeaTypeOK
    <3> QED
      BY <3>2, <3>3
  <2> QED
    BY <1>8, <2>1, <2>2 DEF Eea!CopyRows
<1>9. ASSUME NEW j \in Eea!Jobs, Eea!Transform(j) PROVE \E k \in Eea!JobsOf(c) : EeaApplies(k)'
  <2>1. raw' = raw /\ Eea!Worker(j) = "transform" /\ \A k \in Eea!Jobs : k # j => pc'[k] = pc[k]
    BY <1>9 DEF Eea!Transform, Eea!GoTo, Eea!Raise, EeaTypeOK
  <2>2. CASE Eea!WrittenTwice(Eea!Batch(j))
    <3>1. transformed' = transformed /\ pc'[j] \in {"queued", "dead"}
      BY <1>9, <2>2 DEF Eea!Transform, Eea!GoTo, Eea!Raise, EeaTypeOK
    <3> QED
      BY <1>0, <2>1, <3>1 DEF EeaApplies
  <2>3. CASE ~Eea!WrittenTwice(Eea!Batch(j))
    <3> DEFINE new == Eea!TheCopy(Eea!Batch(j), t)
    <3>1. /\ Eea!Applied(Eea!Batch(j), t) = {} => transformed'[t] = transformed[t]
          /\ Eea!Applied(Eea!Batch(j), t) # {} => transformed'[t].at = new.at
      BY <1>9, <2>3 DEF Eea!Transform
    <3>2. Eea!Applied(Eea!Batch(j), t) # {} => new \in Eea!Applied(Eea!Batch(j), t)
      BY DEF Eea!TheCopy
    <3>3. copy \in raw[c] /\ Eea!Batch(j) \in Batches
      BY <2>1, EeaJobIs
    <3>4. /\ copy.at \in Nat /\ transformed[t].at \in Nat
          /\ Eea!Applied(Eea!Batch(j), t) # {} => new.at \in Nat /\ new.at > transformed[t].at
      BY <3>2, <3>3 DEF EeaTypeOK, Eea!Applied, Eea!Newer
    <3> HIDE DEF new
    <3>5. CASE c = Eea!Batch(j)
      <4>1. CASE Eea!Applied(Eea!Batch(j), t) = {}
        BY <3>1, <3>3, <3>4, <3>5, <4>1 DEF Eea!Applied, Eea!Newer
      <4>2. CASE Eea!Applied(Eea!Batch(j), t) # {}
        <5>1. ~(new.at < copy.at)
          BY <2>3, <3>2, <3>3, <3>5, <4>2 DEF Eea!WrittenTwice
        <5> QED
          BY <3>1, <3>4, <4>2, <5>1
      <4> QED
        BY <4>1, <4>2
    <3>6. CASE c # Eea!Batch(j)
      <4>1. transformed[t].at < copy.at
        <5>1. CASE Eea!Applied(Eea!Batch(j), t) = {}
          BY <3>1, <5>1
        <5>2. CASE Eea!Applied(Eea!Batch(j), t) # {}
          BY <3>1, <3>4, <5>2
        <5> QED
          BY <5>1, <5>2
      <4>2. PICK k \in Eea!JobsOf(c) : EeaApplies(k)
        BY <3>3, <4>1 DEF EeaApplying
      <4>3. k \in Eea!Jobs /\ k # j
        BY <3>6 DEF Eea!JobsOf
      <4> QED
        BY <2>1, <4>2, <4>3 DEF EeaApplies
    <3> QED
      BY <3>5, <3>6
  <2> QED
    BY <2>2, <2>3
<1>10. ASSUME NEW j \in Eea!Jobs, Eea!LoadFixed(j) PROVE \E k \in Eea!JobsOf(c) : EeaApplies(k)'
  <2>1. /\ raw' = raw /\ transformed' = transformed
        /\ \A k \in Eea!Jobs : k # j => pc'[k] = pc[k]
    BY <1>10 DEF Eea!LoadFixed, Eea!GoTo, Eea!Raise, Eea!staging, EeaTypeOK
  <2>2. EeaApplies(j) => EeaApplies(j)' \/ pc'[j] = "dead"
    BY <1>10 DEF Eea!LoadFixed, Eea!GoTo, Eea!Raise, EeaTypeOK, EeaApplies
  <2> QED
    BY <1>0, <2>1, <2>2
<1>11. ASSUME NEW j \in Eea!Jobs, Eea!ReadRows(j) PROVE \E k \in Eea!JobsOf(c) : EeaApplies(k)'
  <2>1. /\ raw' = raw /\ transformed' = transformed
        /\ \A k \in Eea!Jobs : k # j => pc'[k] = pc[k]
    BY <1>11 DEF Eea!ReadRows, Eea!GoTo, Eea!Raise, Eea!staging, EeaTypeOK
  <2>2. EeaApplies(j) => EeaApplies(j)' \/ pc'[j] = "dead"
    BY <1>11 DEF Eea!ReadRows, Eea!GoTo, Eea!Raise, EeaTypeOK, EeaApplies
  <2> QED
    BY <1>0, <2>1, <2>2
<1>12. ASSUME NEW j \in Eea!Jobs, Eea!StoreRows(j) PROVE \E k \in Eea!JobsOf(c) : EeaApplies(k)'
  <2>1. /\ raw' = raw /\ transformed' = transformed
        /\ \A k \in Eea!Jobs : k # j => pc'[k] = pc[k]
    BY <1>12 DEF Eea!StoreRows, Eea!GoTo, Eea!Raise, Eea!staging, EeaTypeOK
  <2>2. EeaApplies(j) => EeaApplies(j)' \/ pc'[j] = "dead"
    BY <1>12 DEF Eea!StoreRows, Eea!GoTo, Eea!Raise, EeaTypeOK, EeaApplies
  <2> QED
    BY <1>0, <2>1, <2>2
<1>13. ASSUME NEW j \in Eea!Jobs, Eea!RemoveFiles(j) PROVE \E k \in Eea!JobsOf(c) : EeaApplies(k)'
  <2>1. /\ raw' = raw /\ transformed' = transformed
        /\ \A k \in Eea!Jobs : k # j => pc'[k] = pc[k]
    BY <1>13 DEF Eea!RemoveFiles, Eea!GoTo, Eea!Raise, Eea!staging, EeaTypeOK
  <2>2. EeaApplies(j) => EeaApplies(j)' \/ pc'[j] = "dead"
    BY <1>13 DEF Eea!RemoveFiles, Eea!GoTo, Eea!Raise, EeaTypeOK, EeaApplies
  <2> QED
    BY <1>0, <2>1, <2>2
<1>14. ASSUME NEW j \in Eea!Jobs, Eea!SetStatus(j) PROVE \E k \in Eea!JobsOf(c) : EeaApplies(k)'
  <2>1. /\ raw' = raw /\ transformed' = transformed
        /\ \A k \in Eea!Jobs : k # j => pc'[k] = pc[k]
    BY <1>14 DEF Eea!SetStatus, Eea!GoTo, Eea!Raise, Eea!staging, EeaTypeOK
  <2>2. EeaApplies(j) => EeaApplies(j)' \/ pc'[j] = "dead"
    BY <1>14 DEF Eea!SetStatus, Eea!GoTo, Eea!Raise, EeaTypeOK, EeaApplies
  <2> QED
    BY <1>0, <2>1, <2>2
<1>15. ASSUME NEW j \in Eea!Jobs, Eea!PushNext(j) PROVE \E k \in Eea!JobsOf(c) : EeaApplies(k)'
  <2> DEFINE q == Eea!Pushed(Eea!Pushes[Eea!Worker(j)], Eea!Batch(j))
  <2>1. /\ q \in Eea!Jobs /\ pc[q] = "none" /\ Eea!Batch(q) = Eea!Batch(j) /\ q # j
        /\ Eea!Worker(j) = "copy" => Eea!Worker(q) = "transform"
    BY <1>15, EeaPushedIs, EeaJobIs, EeaNamed DEF Eea!PushNext, EeaPushing
  <2>2. /\ raw' = raw /\ transformed' = transformed
        /\ pc'[q] = "queued" /\ pc'[j] \in {"queued", "done"}
        /\ \A k \in Eea!Jobs : k # j /\ k # q => pc'[k] = pc[k]
    BY <1>15, <2>1 DEF Eea!PushNext, Eea!staging, EeaTypeOK
  <2> HIDE DEF q
  <2>3. PICK k \in Eea!JobsOf(c) : EeaApplies(k)
    BY <2>2 DEF EeaApplying
  <2>4. CASE k = j
    <3>1. Eea!Worker(q) = "transform"
      BY <1>15, <2>1, <2>3, <2>4 DEF Eea!PushNext, EeaApplies
    <3> QED
      BY <2>1, <2>2, <2>3, <2>4, <3>1 DEF EeaApplies, Eea!JobsOf
  <2>5. CASE k # j
    BY <2>1, <2>2, <2>3, <2>5 DEF EeaApplies, Eea!JobsOf
  <2> QED
    BY <2>4, <2>5
<1>16. ASSUME NEW j \in Eea!Jobs, Eea!Interrupt(j) PROVE \E k \in Eea!JobsOf(c) : EeaApplies(k)'
  <2>1. /\ raw' = raw /\ transformed' = transformed
        /\ \A k \in Eea!Jobs : k # j => pc'[k] = pc[k]
    BY <1>16 DEF Eea!Interrupt, Eea!GoTo, Eea!Raise, Eea!staging, EeaTypeOK
  <2>2. EeaApplies(j) => EeaApplies(j)' \/ pc'[j] = "dead"
    BY <1>16 DEF Eea!Interrupt, Eea!GoTo, Eea!Raise, EeaTypeOK, EeaApplies
  <2> QED
    BY <1>0, <2>1, <2>2
<1>17. ASSUME NEW at \in 1..ingested, Eea!Purge(at) PROVE \E k \in Eea!JobsOf(c) : EeaApplies(k)'
  <2>1. copy \in raw[c] /\ copy.at > at
    BY <1>17 DEF Eea!Purge
  <2>2. transformed[t].at < copy.at
    <3>1. copy.at \in Nat /\ transformed[t].at \in Nat /\ at \in Nat
      BY <2>1 DEF EeaTypeOK
    <3>2. transformed'[t] = IF transformed[t].at <= at THEN Eea!NoRow ELSE transformed[t]
      BY <1>17 DEF Eea!Purge
    <3> QED
      BY <2>1, <3>1, <3>2
  <2>3. PICK k \in Eea!JobsOf(c) : EeaApplies(k)
    BY <2>1, <2>2 DEF EeaApplying
  <2> QED
    BY <1>17, <2>3 DEF Eea!Purge, EeaApplies
<1>18. ASSUME NEW u \in Times, Eea!Publish(u) PROVE \E k \in Eea!JobsOf(c) : EeaApplies(k)'
  <2>1. PICK k \in Eea!JobsOf(c) : EeaApplies(k)
    BY <1>18 DEF Eea!Publish, EeaApplying, Eea!staging
  <2> QED
    BY <1>18, <2>1 DEF Eea!Publish, EeaApplies, Eea!JobsOf
<1> QED
  BY <1>1, <1>2, <1>3, <1>4, <1>5, <1>6, <1>7, <1>8, <1>9,
    <1>10, <1>11, <1>12, <1>13, <1>14, <1>15, <1>16, <1>17, <1>18 DEF Eea!Next, Eea!Work

\* A row that is not stored has a job that will store it, which may be that of a batch
\* that takes it over; whoever overwrites it with an older one is remembered.
LEMMA EeaLoadingNext ==
  Eea!EeaAssumption /\ EeaIInv /\ [Eea!Next]_(Eea!vars)
    => EeaLoading'
<1> SUFFICES ASSUME Eea!EeaAssumption, EeaIInv, [Eea!Next]_(Eea!vars), NEW c \in Batches,
                    NEW t \in Times, transformed'[t].batch = c, ~Eea!Lost(c)'
             PROVE  /\ \/ fixed'[t] = transformed'[t].value
                       \/ \E k \in Eea!JobsOf(c) : EeaWillFix(k)'
                    /\ \/ t \in overtaken' \/ station'[t] = transformed'[t].value
                       \/ \E k \in Eea!JobsOf(c) : EeaWillStore(k, t)'
  BY DEF EeaLoading, Eea!JobsOf
<1> EeaTypeOK /\ EeaBegun /\ EeaPushing /\ EeaLoading /\ EeaValued
  BY DEF EeaIInv
<1> ~Eea!Lost(c)
  BY EeaLostStays
<1> DEFINE Fixes == fixed'[t] = transformed'[t].value \/ \E k \in Eea!JobsOf(c) : EeaWillFix(k)'
           Stores == \/ t \in overtaken' \/ station'[t] = transformed'[t].value
                     \/ \E k \in Eea!JobsOf(c) : EeaWillStore(k, t)'
<1>0. ASSUME NEW j \in Eea!Jobs, transformed'[t] = transformed[t],
             \A k \in Eea!Jobs : k # j => pc'[k] = pc[k] /\ held'[k] = held[k]
      PROVE  /\ \/ fixed'[t] # fixed[t]
                \/ EeaWillFix(j) /\ Eea!Batch(j) = c /\ ~EeaWillFix(j)' /\ pc'[j] # "dead"
                \/ Fixes
             /\ \/ station'[t] # station[t]
                \/ t \in overtaken /\ t \notin overtaken'
                \/ EeaWillStore(j, t) /\ Eea!Batch(j) = c /\ ~EeaWillStore(j, t)' /\ pc'[j] # "dead"
                \/ Stores
  <2>1. transformed[t].batch = c
    BY <1>0
  <2>2. ASSUME NEW k \in Eea!JobsOf(c), pc'[k] # "dead"
        PROVE  /\ EeaWillFix(k) => k = j \/ EeaWillFix(k)'
               /\ EeaWillStore(k, t) => k = j \/ EeaWillStore(k, t)'
    BY <1>0, <2>2 DEF EeaWillFix, EeaWillStore, EeaTransforms, Eea!JobsOf
  <2>3. \A k \in Eea!JobsOf(c) : pc'[k] # "dead" /\ Eea!Batch(k) = c
    BY DEF Eea!Lost, Eea!JobsOf
  <2>4. fixed[t] = transformed[t].value \/ \E k \in Eea!JobsOf(c) : EeaWillFix(k)
    BY <2>1 DEF EeaLoading
  <2>5. \/ t \in overtaken \/ station[t] = transformed[t].value
        \/ \E k \in Eea!JobsOf(c) : EeaWillStore(k, t)
    BY <2>1 DEF EeaLoading
  <2>6. \/ fixed'[t] # fixed[t]
        \/ EeaWillFix(j) /\ Eea!Batch(j) = c /\ ~EeaWillFix(j)' /\ pc'[j] # "dead"
        \/ Fixes
    BY <1>0, <2>2, <2>3, <2>4
  <2>7. \/ station'[t] # station[t]
        \/ t \in overtaken /\ t \notin overtaken'
        \/ EeaWillStore(j, t) /\ Eea!Batch(j) = c /\ ~EeaWillStore(j, t)' /\ pc'[j] # "dead"
        \/ Stores
    BY <1>0, <2>2, <2>3, <2>5
  <2> QED
    BY <2>6, <2>7
<1>1. CASE UNCHANGED Eea!vars
  <2>1. /\ transformed' = transformed /\ fixed' = fixed /\ station' = station
        /\ overtaken' = overtaken /\ pc' = pc /\ held' = held
    BY <1>1 DEF Eea!vars, Eea!staging, Eea!stored, Eea!memory
  <2> QED
    BY <2>1 DEF EeaLoading, EeaWillFix, EeaWillStore, EeaTransforms, Eea!JobsOf
<1>2. ASSUME NEW b \in Batches, Eea!CreateBatch(b) PROVE Fixes /\ Stores
  <2>1. /\ transformed' = transformed /\ fixed' = fixed /\ station' = station
        /\ overtaken' = overtaken /\ pc' = pc /\ held' = held
    BY <1>2 DEF Eea!CreateBatch, Eea!staging, Eea!stored, Eea!memory
  <2> QED
    BY <2>1 DEF EeaLoading, EeaWillFix, EeaWillStore, EeaTransforms, Eea!JobsOf
<1>3. ASSUME NEW b \in Batches, Eea!PushDownload(b) PROVE Fixes /\ Stores
  <2> DEFINE q == Eea!Pushed("download", b)
  <2>1. q \in Eea!Jobs /\ pc[q] = "none"
    BY <1>3, EeaFirstIsPushed, EeaPushedIs, EeaNamed DEF Eea!PushDownload
  <2>2. /\ transformed' = transformed /\ fixed' = fixed /\ station' = station
        /\ overtaken' = overtaken /\ pc' = [pc EXCEPT ![q] = "queued"] /\ held' = held
    BY <1>3 DEF Eea!PushDownload, Eea!staging, Eea!stored, Eea!memory
  <2> HIDE DEF q
  <2>3. \A k \in Eea!Jobs : k # q => pc'[k] = pc[k] /\ held'[k] = held[k]
    BY <2>2 DEF EeaTypeOK
  <2>4. ~EeaWillFix(q) /\ ~EeaWillStore(q, t)
    BY <2>1 DEF EeaWillFix, EeaWillStore, EeaTransforms
  <2> QED
    BY <1>0, <2>1, <2>2, <2>3, <2>4
<1>4. ASSUME NEW b \in Batches, Eea!InterruptOrchestrator(b) PROVE Fixes /\ Stores
  <2>1. /\ transformed' = transformed /\ fixed' = fixed /\ station' = station
        /\ overtaken' = overtaken /\ pc' = pc /\ held' = held
    BY <1>4 DEF Eea!InterruptOrchestrator, Eea!staging, Eea!stored, Eea!memory
  <2> QED
    BY <2>1 DEF EeaLoading, EeaWillFix, EeaWillStore, EeaTransforms, Eea!JobsOf
<1>5. ASSUME NEW j \in Eea!Jobs, Eea!FindBatch(j) PROVE Fixes /\ Stores
  <2>1. /\ transformed' = transformed /\ fixed' = fixed /\ station' = station
        /\ overtaken' = overtaken
        /\ \A k \in Eea!Jobs : k # j => pc'[k] = pc[k] /\ held'[k] = held[k]
    BY <1>5 DEF Eea!FindBatch, Eea!GoTo, Eea!Raise, Eea!staging, Eea!stored, Eea!memory, EeaTypeOK
  <2>2. /\ EeaWillFix(j) => EeaWillFix(j)' \/ pc'[j] = "dead"
        /\ EeaWillStore(j, t) => EeaWillStore(j, t)' \/ pc'[j] = "dead"
    BY <1>5 DEF Eea!FindBatch, Eea!GoTo, Eea!Raise, EeaTypeOK, EeaWillFix, EeaWillStore,
        EeaTransforms, Eea!memory
  <2> QED
    BY <1>0, <2>1, <2>2
<1>6. ASSUME NEW j \in Eea!Jobs, Eea!SaveZip(j) PROVE Fixes /\ Stores
  <2>1. /\ transformed' = transformed /\ fixed' = fixed /\ station' = station
        /\ overtaken' = overtaken
        /\ \A k \in Eea!Jobs : k # j => pc'[k] = pc[k] /\ held'[k] = held[k]
    BY <1>6 DEF Eea!SaveZip, Eea!GoTo, Eea!Raise, Eea!staging, Eea!stored, Eea!memory, EeaTypeOK
  <2>2. /\ EeaWillFix(j) => EeaWillFix(j)' \/ pc'[j] = "dead"
        /\ EeaWillStore(j, t) => EeaWillStore(j, t)' \/ pc'[j] = "dead"
    BY <1>6 DEF Eea!SaveZip, Eea!GoTo, Eea!Raise, EeaTypeOK, EeaWillFix, EeaWillStore,
        EeaTransforms, Eea!memory
  <2> QED
    BY <1>0, <2>1, <2>2
<1>7. ASSUME NEW j \in Eea!Jobs, Eea!Unzip(j) PROVE Fixes /\ Stores
  <2>1. /\ transformed' = transformed /\ fixed' = fixed /\ station' = station
        /\ overtaken' = overtaken
        /\ \A k \in Eea!Jobs : k # j => pc'[k] = pc[k] /\ held'[k] = held[k]
    BY <1>7 DEF Eea!Unzip, Eea!GoTo, Eea!Raise, Eea!staging, Eea!stored, Eea!memory, EeaTypeOK
  <2>2. /\ EeaWillFix(j) => EeaWillFix(j)' \/ pc'[j] = "dead"
        /\ EeaWillStore(j, t) => EeaWillStore(j, t)' \/ pc'[j] = "dead"
    BY <1>7 DEF Eea!Unzip, Eea!GoTo, Eea!Raise, EeaTypeOK, EeaWillFix, EeaWillStore, EeaTransforms,
        Eea!memory
  <2> QED
    BY <1>0, <2>1, <2>2
<1>8. ASSUME NEW j \in Eea!Jobs, Eea!CopyRows(j) PROVE Fixes /\ Stores
  <2>1. /\ transformed' = transformed /\ fixed' = fixed /\ station' = station
        /\ overtaken' = overtaken
        /\ \A k \in Eea!Jobs : k # j => pc'[k] = pc[k] /\ held'[k] = held[k]
    BY <1>8 DEF Eea!CopyRows, Eea!GoTo, Eea!Raise, Eea!staging, Eea!stored, Eea!memory, EeaTypeOK
  <2>2. /\ EeaWillFix(j) => EeaWillFix(j)' \/ pc'[j] = "dead"
        /\ EeaWillStore(j, t) => EeaWillStore(j, t)' \/ pc'[j] = "dead"
    BY <1>8 DEF Eea!CopyRows, Eea!GoTo, Eea!Raise, EeaTypeOK, EeaWillFix, EeaWillStore,
        EeaTransforms, Eea!memory
  <2> QED
    BY <1>0, <2>1, <2>2
<1>9. ASSUME NEW j \in Eea!Jobs, Eea!Transform(j) PROVE Fixes /\ Stores
  <2>1. /\ fixed' = fixed /\ station' = station /\ overtaken' = overtaken
        /\ \A k \in Eea!Jobs : k # j => pc'[k] = pc[k] /\ held'[k] = held[k]
        /\ Eea!Worker(j) = "transform" /\ pc'[j] \in {"queued", "dead", "marking"}
    BY <1>9 DEF Eea!Transform, Eea!GoTo, Eea!Raise, Eea!stored, Eea!memory, EeaTypeOK
  <2>2. (EeaWillFix(j)' /\ EeaWillStore(j, t)') \/ pc'[j] = "dead"
    BY <2>1 DEF EeaWillFix, EeaWillStore, EeaTransforms
  <2>3. CASE transformed'[t] = transformed[t]
    BY <1>0, <2>1, <2>2, <2>3
  <2>4. CASE transformed'[t] # transformed[t]
    <3>1. Eea!Batch(j) = transformed'[t].batch /\ pc'[j] = "marking"
      BY <1>9, <2>4 DEF Eea!Transform, Eea!GoTo, EeaTypeOK
    <3>2. j \in Eea!JobsOf(c)
      BY <3>1 DEF Eea!JobsOf
    <3> QED
      BY <2>2, <3>1, <3>2
  <2> QED
    BY <2>3, <2>4
<1>10. ASSUME NEW j \in Eea!Jobs, Eea!LoadFixed(j) PROVE Fixes /\ Stores
  <2>1. /\ transformed' = transformed /\ station' = station /\ overtaken' = overtaken
        /\ \A k \in Eea!Jobs : k # j => pc'[k] = pc[k] /\ held'[k] = held[k]
        /\ Eea!Worker(j) = "load" /\ pc'[j] = "begun"
    BY <1>10 DEF Eea!LoadFixed, Eea!GoTo, Eea!staging, Eea!stored, Eea!memory, EeaTypeOK
  <2>2. EeaWillStore(j, t)'
    BY <2>1 DEF EeaWillStore
  <2>3. CASE c = Eea!Batch(j)
    <3>1. transformed[t].value # 0 /\ transformed[t].batch = c
      BY <2>1 DEF EeaValued, Eea!EeaAssumption
    <3>2. fixed'[t] = transformed[t].value
      BY <1>10, <2>3, <3>1 DEF Eea!LoadFixed, Eea!Upserted, Eea!RowsOf
    <3> QED
      BY <1>0, <2>1, <2>2, <3>2
  <2>4. CASE c # Eea!Batch(j)
    <3>1. transformed[t].batch # Eea!Batch(j)
      BY <2>1, <2>4
    <3>2. fixed'[t] = fixed[t]
      BY <1>10, <3>1 DEF Eea!LoadFixed, Eea!Upserted, Eea!RowsOf
    <3> QED
      BY <1>0, <2>1, <2>2, <2>4, <3>2
  <2> QED
    BY <2>3, <2>4
<1>11. ASSUME NEW j \in Eea!Jobs, Eea!ReadRows(j) PROVE Fixes /\ Stores
  <2>1. /\ transformed' = transformed /\ fixed' = fixed /\ station' = station
        /\ overtaken' = overtaken
        /\ \A k \in Eea!Jobs : k # j => pc'[k] = pc[k] /\ held'[k] = held[k]
        /\ Eea!Worker(j) = "load" /\ pc[j] = "begun" /\ pc'[j] = "read"
        /\ held'[j] = Eea!RowsOf(Eea!Batch(j))
    BY <1>11 DEF Eea!ReadRows, Eea!GoTo, Eea!staging, Eea!stored, EeaTypeOK
  <2>2. ~EeaWillFix(j)
    BY <2>1 DEF EeaWillFix, EeaTransforms
  <2>3. Eea!Batch(j) = c => EeaWillStore(j, t)'
    BY <2>1 DEF EeaWillStore, Eea!RowsOf
  <2> QED
    BY <1>0, <2>1, <2>2, <2>3
<1>12. ASSUME NEW j \in Eea!Jobs, Eea!StoreRows(j) PROVE Fixes /\ Stores
  <2>1. /\ transformed' = transformed /\ fixed' = fixed
        /\ \A k \in Eea!Jobs : k # j => pc'[k] = pc[k] /\ held'[k] = held[k]
        /\ Eea!Worker(j) = "load" /\ pc[j] = "read"
    BY <1>12 DEF Eea!StoreRows, Eea!GoTo, Eea!staging, EeaTypeOK
  <2>2. ~EeaWillFix(j)
    BY <2>1 DEF EeaWillFix, EeaTransforms
  <2>3. CASE held[j][t] = 0
    <3>1. station'[t] = station[t] /\ (t \in overtaken <=> t \in overtaken')
      BY <1>12, <2>3 DEF Eea!StoreRows, Eea!Upserted
    <3>2. transformed[t].value # 0
      BY <2>1 DEF EeaValued, Eea!EeaAssumption
    <3>3. ~EeaWillStore(j, t)
      BY <2>1, <2>3, <3>2 DEF EeaWillStore, EeaTransforms
    <3> QED
      BY <1>0, <2>1, <2>2, <3>1, <3>3
  <2>4. CASE held[j][t] # 0
    <3>1. t \in overtaken' \/ station'[t] = transformed'[t].value
      BY <1>12, <2>1, <2>4 DEF Eea!StoreRows, Eea!Upserted
    <3> QED
      BY <1>0, <2>1, <2>2, <3>1
  <2> QED
    BY <2>3, <2>4
<1>13. ASSUME NEW j \in Eea!Jobs, Eea!RemoveFiles(j) PROVE Fixes /\ Stores
  <2>1. /\ transformed' = transformed /\ fixed' = fixed /\ station' = station
        /\ overtaken' = overtaken
        /\ \A k \in Eea!Jobs : k # j => pc'[k] = pc[k] /\ held'[k] = held[k]
    BY <1>13 DEF Eea!RemoveFiles, Eea!GoTo, Eea!Raise, Eea!staging, Eea!stored, Eea!memory,
        EeaTypeOK
  <2>2. /\ EeaWillFix(j) => EeaWillFix(j)' \/ pc'[j] = "dead"
        /\ EeaWillStore(j, t) => EeaWillStore(j, t)' \/ pc'[j] = "dead"
    BY <1>13 DEF Eea!RemoveFiles, Eea!GoTo, Eea!Raise, EeaTypeOK, EeaWillFix, EeaWillStore,
        EeaTransforms, Eea!memory
  <2> QED
    BY <1>0, <2>1, <2>2
<1>14. ASSUME NEW j \in Eea!Jobs, Eea!SetStatus(j) PROVE Fixes /\ Stores
  <2>1. /\ transformed' = transformed /\ fixed' = fixed /\ station' = station
        /\ overtaken' = overtaken
        /\ \A k \in Eea!Jobs : k # j => pc'[k] = pc[k] /\ held'[k] = held[k]
    BY <1>14 DEF Eea!SetStatus, Eea!GoTo, Eea!Raise, Eea!staging, Eea!stored, Eea!memory, EeaTypeOK
  <2>2. /\ EeaWillFix(j) => EeaWillFix(j)' \/ pc'[j] = "dead"
        /\ EeaWillStore(j, t) => EeaWillStore(j, t)' \/ pc'[j] = "dead"
    BY <1>14 DEF Eea!SetStatus, Eea!GoTo, Eea!Raise, EeaTypeOK, EeaWillFix, EeaWillStore,
        EeaTransforms, Eea!memory
  <2> QED
    BY <1>0, <2>1, <2>2
<1>15. ASSUME NEW j \in Eea!Jobs, Eea!PushNext(j) PROVE Fixes /\ Stores
  <2>1. PICK q \in Eea!Jobs :
          /\ q = Eea!Pushed(Eea!Pushes[Eea!Worker(j)],
               Eea!Batch(j)) /\ pc[q] = "none" /\ Eea!Batch(q) = Eea!Batch(j) /\ q # j
          /\ Eea!Worker(j) = "transform" => Eea!Worker(q) = "load"
    BY <1>15, EeaPushedIs, EeaJobIs, EeaNamed DEF Eea!PushNext, EeaPushing
  <2>2. /\ transformed' = transformed /\ fixed' = fixed /\ station' = station
        /\ overtaken' = overtaken /\ held' = held
        /\ pc'[q] = "queued" /\ \A k \in Eea!Jobs : k # j /\ k # q => pc'[k] = pc[k]
    BY <1>15, <2>1 DEF Eea!PushNext, Eea!staging, Eea!stored, Eea!memory, EeaTypeOK
  <2>3. pc[j] = "pushing"
    BY <1>15 DEF Eea!PushNext
  <2>4. ASSUME NEW k \in Eea!JobsOf(c)
        PROVE  /\ EeaWillFix(k) => \E i \in Eea!JobsOf(c) : EeaWillFix(i)'
               /\ EeaWillStore(k, t) => \E i \in Eea!JobsOf(c) : EeaWillStore(i, t)'
    <3>1. CASE k = j
      <4>1. Eea!Worker(j) = "transform" => EeaWillFix(q)' /\ EeaWillStore(q, t)'
        BY <2>1, <2>2 DEF EeaWillFix, EeaWillStore
      <4>2. q \in Eea!JobsOf(c)
        BY <2>1, <3>1 DEF Eea!JobsOf
      <4>3. EeaWillFix(j) \/ EeaWillStore(j, t) => Eea!Worker(j) = "transform"
        BY <2>3 DEF EeaWillFix, EeaWillStore, EeaTransforms
      <4> QED
        BY <3>1, <4>1, <4>2, <4>3
    <3>2. CASE k # j
      <4>1. EeaWillFix(k) \/ EeaWillStore(k, t) => k # q
        BY <2>1 DEF EeaWillFix, EeaWillStore, EeaTransforms
      <4> QED
        BY <2>2, <3>2, <4>1 DEF EeaWillFix, EeaWillStore, EeaTransforms, Eea!JobsOf
    <3> QED
      BY <3>1, <3>2
  <2> QED
    BY <2>2, <2>4 DEF EeaLoading
<1>16. ASSUME NEW j \in Eea!Jobs, Eea!Interrupt(j) PROVE Fixes /\ Stores
  <2>1. /\ transformed' = transformed /\ fixed' = fixed /\ station' = station
        /\ overtaken' = overtaken
        /\ \A k \in Eea!Jobs : k # j => pc'[k] = pc[k] /\ held'[k] = held[k]
    BY <1>16 DEF Eea!Interrupt, Eea!GoTo, Eea!Raise, Eea!staging, Eea!stored, Eea!memory, EeaTypeOK
  <2>2. /\ EeaWillFix(j) => EeaWillFix(j)' \/ pc'[j] = "dead"
        /\ EeaWillStore(j, t) => EeaWillStore(j, t)' \/ pc'[j] = "dead"
    BY <1>16 DEF Eea!Interrupt, Eea!GoTo, Eea!Raise, EeaTypeOK, EeaWillFix, EeaWillStore,
        EeaTransforms, Eea!memory
  <2> QED
    BY <1>0, <2>1, <2>2
<1>17. ASSUME NEW at \in 1..ingested, Eea!Purge(at) PROVE Fixes /\ Stores
  <2>1. /\ fixed' = fixed /\ station' = station
        /\ overtaken' = overtaken /\ pc' = pc /\ held' = held
    BY <1>17 DEF Eea!Purge, Eea!stored, Eea!memory
  <2>2. transformed'[t] = transformed[t]
    BY <1>17 DEF Eea!Purge, Eea!NoRow, Eea!EeaAssumption
  <2> QED
    BY <2>1, <2>2 DEF EeaLoading, EeaWillFix, EeaWillStore, EeaTransforms, Eea!JobsOf
<1>18. ASSUME NEW u \in Times, Eea!Publish(u) PROVE Fixes /\ Stores
  <2>1. /\ transformed' = transformed /\ fixed' = fixed /\ station' = station
        /\ overtaken' = overtaken /\ pc' = pc /\ held' = held
    BY <1>18 DEF Eea!Publish, Eea!staging, Eea!stored, Eea!memory
  <2> QED
    BY <2>1 DEF EeaLoading, EeaWillFix, EeaWillStore, EeaTransforms, Eea!JobsOf
<1> QED
  BY <1>1, <1>2, <1>3, <1>4, <1>5, <1>6, <1>7, <1>8, <1>9,
    <1>10, <1>11, <1>12, <1>13, <1>14, <1>15, <1>16, <1>17, <1>18 DEF Eea!Next, Eea!Work

-----------------------------------------------------------------------------
(* What follows. *)

LEMMA EeaNextKeeps ==
  Eea!EeaAssumption /\ EeaIInv /\ [Eea!Next]_(Eea!vars)
    => EeaIInv'
BY EeaTypeNext, EeaBegunNext, EeaPushingNext, EeaValuedNext, EeaCarriedNext, EeaApplyingNext,
    EeaLoadingNext
DEF EeaIInv

LEMMA EeaInvImplies == EeaIInv => Eea!BatchesSettle /\ Eea!NewestCopyIsStored
<1> SUFFICES ASSUME EeaIInv PROVE Eea!BatchesSettle /\ Eea!NewestCopyIsStored
  OBVIOUS
<1> EeaTypeOK /\ EeaBegun /\ EeaCarried /\ EeaApplying /\ EeaLoading
  BY DEF EeaIInv
<1>1. ASSUME Eea!Quiet, NEW b \in Batches, NEW j \in Eea!JobsOf(b)
      PROVE  pc[j] \in {"none", "done", "dead"}
  BY <1>1 DEF Eea!Quiet, Eea!Over
<1>2. Eea!BatchesSettle
  <2> SUFFICES ASSUME Eea!Quiet, NEW b \in Batches, Eea!Created(b), ~Eea!Lost(b)
               PROVE  status[b] \in EeaFinal
    BY DEF Eea!BatchesSettle, EeaFinal
  <2>1. orchestrator[b] = "done"
    BY DEF Eea!Quiet, Eea!Over, Eea!Created, Eea!Lost, EeaTypeOK
  <2>2. \A j \in Eea!JobsOf(b) : ~EeaSpeaks(j)
    BY <1>1 DEF EeaSpeaks, EeaLive
  <2> QED
    BY <2>1, <2>2 DEF EeaCarried
<1>3. Eea!NewestCopyIsStored
  <2> SUFFICES ASSUME Eea!Quiet, NEW t \in Times, NEW b \in Batches, ~Eea!Lost(b)
               PROVE  /\ \A copy \in raw[b] : copy.file[t] # 0 => transformed[t].at >= copy.at
                      /\ transformed[t].batch = b =>
                           /\ fixed[t] = transformed[t].value
                           /\ t \notin overtaken => station[t] = transformed[t].value
    BY DEF Eea!NewestCopyIsStored
  <2>1. \A j \in Eea!JobsOf(b) : ~EeaApplies(j) /\ ~EeaWillFix(j) /\ ~EeaWillStore(j, t)
    BY <1>1 DEF EeaApplies, EeaWillFix, EeaWillStore, EeaTransforms
  <2>2. ASSUME NEW copy \in raw[b], copy.file[t] # 0 PROVE transformed[t].at >= copy.at
    <3>1. ~(transformed[t].at < copy.at)
      BY <2>1, <2>2 DEF EeaApplying
    <3>2. copy.at \in Nat /\ transformed[t].at \in Nat
      BY DEF EeaTypeOK
    <3> QED
      BY <3>1, <3>2
  <2>3. transformed[t].batch = b =>
          /\ fixed[t] = transformed[t].value
          /\ t \notin overtaken => station[t] = transformed[t].value
    BY <2>1 DEF EeaLoading
  <2> QED
    BY <2>2, <2>3
<1> QED
  BY <1>2, <1>3

-----------------------------------------------------------------------------
(* What follows for a behaviour. *)

\* Each part keeps its invariant.
GovernmentInv ==
  /\ part \in AveragesParts => StationIInv
  /\ part \in EeaParts => EeaIInv

LEMMA GovernmentInitHolds == GovernmentInit => GovernmentInv
<1> SUFFICES ASSUME GovernmentInit PROVE GovernmentInv
  OBVIOUS
<1>1. /\ part \in AveragesParts => Averages!Init
      /\ part \in EeaParts => Eea!Init
  BY GovernmentConstants DEF GovernmentInit
<1> QED
  BY <1>1, GovernmentConstants, StationInitHolds, EeaInitHolds DEF GovernmentInv

LEMMA GovernmentNextKeeps == GovernmentInv /\ [GovernmentNext]_all => GovernmentInv'
<1> SUFFICES ASSUME GovernmentInv, [GovernmentNext]_all PROVE GovernmentInv'
  OBVIOUS
<1>1. part' = part
  BY GovernmentSteps
<1>2. part \in AveragesParts => StationIInv'
  BY GovernmentSteps, GovernmentConstants, StationNextKeeps DEF GovernmentInv
<1>3. part \in EeaParts => EeaIInv'
  BY GovernmentSteps, GovernmentConstants, EeaNextKeeps DEF GovernmentInv
<1> QED
  BY <1>1, <1>2, <1>3 DEF GovernmentInv

\* Whichever part a behaviour is about, its invariant holds throughout.
THEOREM GovernmentHolds == GovernmentSpec => []GovernmentInv
BY GovernmentInitHolds, GovernmentNextKeeps, PTL DEF GovernmentSpec

\* However imports, calculators, rebuilds and loads interleave and fail, once all are
\* through the averages of a stream are those of its days in its zone, but for jobs
\* that went by what they had read before; of a stream whose rebuild was lost, those
\* of the days last looked back on.
THEOREM AveragesComeTrue == GovernmentSpec => []AveragesAreTrue
<1>1. GovernmentInv => AveragesAreTrue
  BY StationInvImplies DEF GovernmentInv, AveragesAreTrue
<1> QED
  BY <1>1, GovernmentHolds, PTL

\* An import that is through leaves every stream of the site where its station is,
\* whatever the imports before it left half done.
THEOREM StreamsFollowTheirStation == GovernmentSpec => []StreamsSitAtTheirStation
<1>1. GovernmentInv => StreamsSitAtTheirStation
  BY StationInvImplies DEF GovernmentInv, StreamsSitAtTheirStation
<1> QED
  BY <1>1, GovernmentHolds, PTL

\* Whatever jobs are repeated after a restart or fail: with all of them over, a batch
\* of the EEA is completed or failed, unless one of its jobs was lost.
THEOREM EveryBatchSettles == GovernmentSpec => []BatchesSettle
<1>1. GovernmentInv => BatchesSettle
  BY EeaInvImplies DEF GovernmentInv, BatchesSettle
<1> QED
  BY <1>1, GovernmentHolds, PTL

\* However two batches over the same measurements overlap: the copy that is kept is the
\* newest that was transformed, and it is what the tables store.
THEOREM NewestCopiesAreStored == GovernmentSpec => []NewestCopyIsStored
<1>1. GovernmentInv => NewestCopyIsStored
  BY EeaInvImplies DEF GovernmentInv, NewestCopyIsStored
<1> QED
  BY <1>1, GovernmentHolds, PTL
=============================================================================
