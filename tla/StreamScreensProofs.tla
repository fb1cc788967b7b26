------------------------- MODULE StreamScreensProofs ------------------------
(***************************************************************************)
(* What is proved of the screens that show a stream (the graph and its     *)
(* fetcher, the thresholds, the calendar, a mobile session on the map and  *)
(* the timelapse).                                                         *)
(* Each part has the inductive invariant of one screen, what its steps do  *)
(* to it, and at last what follows for the page.                           *)
(***************************************************************************)
EXTENDS WebPage, Extrema, SequenceTheorems

-----------------------------------------------------------------------------
(* The page. *)

\* A step of the page is a step of the screen it shows.
LEMMA StreamSteps ==
  ASSUME [WebNext]_all
  PROVE  /\ screen' = screen
         /\ screen = "graph" => [Graph!Next]_(Graph!vars)
         /\ screen = "slider" => [Next]_vars
         /\ screen = "calendar" => [Calendar!Next]_(Calendar!vars)
         /\ screen = "mobile" => [Mobile!Next]_(Mobile!vars)
         /\ screen = "timelapse" => [Lapse!Next]_(Lapse!vars)
<1>1. CASE UNCHANGED all
  <2>1. UNCHANGED Graph!vars
    BY <1>1 DEF all, Graph!vars, Graph!store, Graph!fetcher, Graph!chart
  <2>2. UNCHANGED vars
    BY <1>1 DEF all, vars, store, input
  <2>3. UNCHANGED Mobile!vars
    BY <1>1 DEF all, Mobile!vars, Mobile!net, Mobile!notes
  <2>4. UNCHANGED Lapse!vars
    BY <1>1 DEF all, Lapse!vars
  <2>5. UNCHANGED Calendar!vars
    BY <1>1 DEF all, Calendar!vars, Calendar!buttons, Calendar!history
  <2>6. screen' = screen
    BY <1>1 DEF all
  <2> QED
    BY <2>1, <2>2, <2>3, <2>4, <2>5, <2>6
<1>2. CASE WebNext
  BY <1>2 DEF WebNext, On, GraphScreen, MarkersScreen, DormantScreen, SliderScreen,
    CalendarScreen, ListsScreen, ViewsScreen, FiltersScreen, MobileScreen, CrowdScreen,
    SearchScreen, TimelapseScreen, OverlaysScreen, ConsentScreen, PanelScreen, LinkScreen
<1> QED
  BY <1>1, <1>2

-----------------------------------------------------------------------------
(* A screen's operators on finite sets are those of the library. *)

LEMMA LapseMin ==
  ASSUME NEW S
  PROVE  Lapse!Min(S) = Min(S)
BY DEF Lapse!Min, Min

LEMMA GraphMin ==
  ASSUME NEW S
  PROVE  Graph!Min(S) = Min(S)
BY DEF Graph!Min, Min

LEMMA GraphFinite ==
  ASSUME NEW S
  PROVE  /\ Graph!IsFiniteSet(S) <=> IsFiniteSet(S)
         /\ Graph!Cardinality(S) = Cardinality(S)
BY DEF Graph!IsFiniteSet, IsFiniteSet, Graph!Cardinality, Cardinality

-----------------------------------------------------------------------------
(* The graph of a fixed stream. *)

GraphPairs == Int \X Int
GraphMeasurements == Opened \X Graph!Times
GraphCalls == [kind : {"none", "stream", "points"}, stream : Opened \cup {Closed},
               range : GraphPairs, job : Nat, bounds : GraphPairs]

GraphTypeInv ==
  /\ open \in Opened \cup {Closed}
  /\ data \in [of : Opened \cup {Closed}, points : SUBSET GraphMeasurements]
  /\ fetched \in [Opened -> SUBSET GraphPairs]
  /\ numbers \subseteq GraphMeasurements
  /\ calls \in [Graph!Slots -> GraphCalls]
  /\ job \in Nat
  /\ started \in BOOLEAN
  /\ view \in GraphPairs /\ echoes \subseteq GraphPairs /\ held \subseteq GraphPairs
  /\ day \in BOOLEAN
  /\ moves \in Nat
  /\ replaced \subseteq Opened

\* A call is for a stream; only those for measurements are of a fetch.
GraphCallsFit ==
  \A i \in Graph!Slots :
    /\ calls[i].kind # "none" => calls[i].stream \in Opened
    /\ calls[i].kind = "stream" => calls[i].job = 0

\* The inductive invariant.
GraphIInv == GraphTypeInv /\ GraphCallsFit /\ Graph!FetcherWaitsForACall /\ Graph!RecordedRangesAreLoaded

-----------------------------------------------------------------------------
(* Slots. *)

LEMMA GraphNoCallIsACall == Graph!NoCall \in GraphCalls
BY DEF Graph!NoCall, GraphCalls, Graph!NoRange, GraphPairs

LEMMA GraphFreeIsFinite ==
  ASSUME Graph!GraphAssumption
  PROVE  IsFiniteSet(Graph!Slots) /\ Cardinality(Graph!Slots) = MaxInFlight
         /\ IsFiniteSet(Graph!Free) /\ Cardinality(Graph!Free) \in Nat
<1>1. IsFiniteSet(Graph!Slots) /\ Cardinality(Graph!Slots) = MaxInFlight
  <2>1. MaxInFlight \in Nat
    BY DEF Graph!GraphAssumption
  <2>2. /\ IsFiniteSet(1..MaxInFlight)
        /\ Cardinality(1..MaxInFlight) = IF 1 > MaxInFlight THEN 0 ELSE MaxInFlight - 1 + 1
    BY <2>1, FS_Interval
  <2> QED
    BY <2>1, <2>2 DEF Graph!Slots
<1>2. Graph!Free \in SUBSET Graph!Slots
  BY DEF Graph!Free
<1> QED
  BY <1>1, <1>2, FS_Subset, FS_CardinalityType

\* As many free slots as are needed are free slots.
LEMMA GraphFreeSlotsAreFree ==
  ASSUME Graph!GraphAssumption, NEW n \in Nat, n <= Cardinality(Graph!Free)
  PROVE  /\ Graph!FreeSlots(n) \subseteq Graph!Free
         /\ IsFiniteSet(Graph!FreeSlots(n)) /\ Cardinality(Graph!FreeSlots(n)) = n
<1>1. PICK f : f \in Bijection(1..Cardinality(Graph!Free), Graph!Free)
  BY GraphFreeIsFinite, FS_CardinalityType DEF ExistsBijection
<1> DEFINE S == {f[k] : k \in 1..n}
           g == [k \in 1..n |-> f[k]]
<1>2. Cardinality(Graph!Free) \in Nat
  BY GraphFreeIsFinite
<1>3. \A k \in 1..n : k \in 1..Cardinality(Graph!Free)
  BY <1>2
<1>4. f \in [1..Cardinality(Graph!Free) -> Graph!Free]
      /\ \A a, b \in 1..Cardinality(Graph!Free) : f[a] = f[b] => a = b
  BY <1>1 DEF Bijection, Injection, IsInjective
<1>5. S \in SUBSET Graph!Free
  BY <1>3, <1>4
<1>6. g \in Bijection(1..n, S)
  <2>1. g \in [1..n -> S]
    OBVIOUS
  <2>2. \A a, b \in 1..n : g[a] = g[b] => a = b
    BY <1>3, <1>4
  <2>3. \A s \in S : \E k \in 1..n : g[k] = s
    OBVIOUS
  <2> QED
    BY <2>1, <2>2, <2>3 DEF Bijection, Injection, Surjection, IsInjective
<1>7. Cardinality(S) = n
  BY <1>6, FS_CountingElements DEF ExistsBijection
<1>8. Graph!FreeSlots(n) \in SUBSET Graph!Free /\ Cardinality(Graph!FreeSlots(n)) = n
  <2> HIDE DEF S
  <2>1. Graph!Cardinality(S) = n
    BY <1>7, GraphFinite
  <2>2. Graph!Cardinality(Graph!FreeSlots(n)) = n /\ Graph!FreeSlots(n) \in SUBSET Graph!Free
    BY <1>5, <2>1 DEF Graph!FreeSlots
  <2> QED
    BY <2>2, GraphFinite
<1> QED
  BY <1>8, GraphFreeIsFinite, FS_Subset

\* Jobs are numbered by what is not in use, of which there is always a number.
LEMMA GraphNextJobIsANumber ==
  ASSUME Graph!GraphAssumption, calls \in [Graph!Slots -> GraphCalls]
  PROVE  Min((1..(MaxInFlight + 1)) \ Graph!Jobs) \in Nat
<1> DEFINE Numbers == 1..(MaxInFlight + 1)
           f == [i \in Graph!Slots |-> calls[i].job]
<1>1. MaxInFlight \in Nat
  BY DEF Graph!GraphAssumption
<1>2. IsFiniteSet(Graph!Jobs) /\ Cardinality(Graph!Jobs) <= MaxInFlight
  <2>1. f \in Surjection(Graph!Slots, Graph!Jobs)
    BY DEF Surjection, Graph!Jobs
  <2> HIDE DEF f
  <2> QED
    BY <2>1, GraphFreeIsFinite, FS_Surjection
<1>3. Cardinality(Numbers) = MaxInFlight + 1
  <2>1. Cardinality(1..(MaxInFlight + 1))
          = IF 1 > MaxInFlight + 1 THEN 0 ELSE (MaxInFlight + 1) - 1 + 1
    BY <1>1, FS_Interval
  <2> QED
    BY <1>1, <2>1
<1>4. Numbers \ Graph!Jobs # {}
  <2> SUFFICES ASSUME Numbers \ Graph!Jobs = {} PROVE FALSE
    OBVIOUS
  <2>1. Numbers \in SUBSET Graph!Jobs
    OBVIOUS
  <2>2. Cardinality(Numbers) <= Cardinality(Graph!Jobs) /\ Cardinality(Graph!Jobs) \in Nat
    <3> HIDE DEF Numbers
    <3> QED BY <2>1, <1>2, FS_Subset, FS_CardinalityType
  <2> HIDE DEF Numbers
  <2> QED
    BY <1>1, <1>2, <1>3, <2>2
<1>5. Numbers \ Graph!Jobs \in SUBSET Nat
  BY <1>1
<1> HIDE DEF Numbers
<1>6. Min(Numbers \ Graph!Jobs) \in Nat
  BY <1>4, <1>5, MinOfNaturals
<1> QED
  BY <1>6 DEF Numbers

-----------------------------------------------------------------------------
(* Ranges. *)

\* What is missing are finitely many ranges of whole numbers.
LEMMA GraphMissingIsFinite ==
  ASSUME Graph!GraphAssumption, NEW r, NEW have
  PROVE  /\ Graph!findMissingRanges(r, have) \subseteq GraphPairs
         /\ IsFiniteSet(Graph!findMissingRanges(r, have))
<1>1. Last \in Nat /\ Month \in Nat \ {0}
  BY DEF Graph!GraphAssumption
<1>2. IsFiniteSet(Graph!Gaps(r, have)) /\ Graph!Gaps(r, have) \subseteq Int \X Int
  <2>1. IsFiniteSet(Graph!Times)
    BY <1>1, FS_Interval DEF Graph!Times
  <2>2. IsFiniteSet(Graph!Times \X Graph!Times)
    BY <2>1, FS_Product
  <2>3. Graph!Gaps(r, have) \in SUBSET (Graph!Times \X Graph!Times)
    BY DEF Graph!Gaps, Graph!Ranges
  <2>4. Graph!Times \subseteq Int
    BY <1>1 DEF Graph!Times
  <2> QED
    BY <2>2, <2>3, <2>4, FS_Subset
<1>3. ASSUME NEW g \in Graph!Gaps(r, have)
      PROVE  IsFiniteSet(Graph!Chunks(g)) /\ Graph!Chunks(g) \subseteq GraphPairs
  <2> DEFINE K == {n \in 0..(Last \div Month) : g[2] - n * Month > g[1]}
             Chunk(k) == <<Graph!Larger(g[1], g[2] - (k + 1) * Month), g[2] - k * Month>>
             f == [k \in K |-> Chunk(k)]
  <2>1. Last \div Month \in Int
    BY <1>1
  <2>2. IsFiniteSet(K)
    <3>1. IsFiniteSet(0..(Last \div Month))
      BY <2>1, FS_Interval
    <3>2. K \in SUBSET (0..(Last \div Month))
      OBVIOUS
    <3> QED
      BY <3>1, <3>2, FS_Subset
  <2>3. Graph!Chunks(g) = {Chunk(k) : k \in K}
    BY DEF Graph!Chunks
  <2>4. f \in Surjection(K, Graph!Chunks(g))
    <3> HIDE DEF K, Chunk
    <3> QED BY <2>3 DEF Surjection
  <2>5. IsFiniteSet(Graph!Chunks(g))
    <3> HIDE DEF K, f
    <3> QED BY <2>2, <2>4, FS_Surjection
  <2>6. g[1] \in Int /\ g[2] \in Int
    BY <1>2
  <2>7. ASSUME NEW k \in K PROVE Chunk(k) \in GraphPairs
    <3>1. k \in Int
      BY <2>1
    <3> DEFINE a == k * Month
               b == (k + 1) * Month
    <3>2. a \in Int /\ b \in Int
      BY <1>1, <3>1
    <3>3. g[2] - b \in Int /\ g[2] - a \in Int
      <4> HIDE DEF a, b
      <4> QED BY <2>6, <3>2
    <3>4. Graph!Larger(g[1], g[2] - b) \in Int
      <4> HIDE DEF a, b
      <4> QED BY <2>6, <3>3 DEF Graph!Larger
    <3> QED
      BY <3>3, <3>4 DEF GraphPairs
  <2> QED
    <3> HIDE DEF K, Chunk
    <3> QED BY <2>3, <2>5, <2>7
<1> DEFINE h == [g \in Graph!Gaps(r, have) |-> Graph!Chunks(g)]
           Parts == {Graph!Chunks(g) : g \in Graph!Gaps(r, have)}
<1>4. h \in Surjection(Graph!Gaps(r, have), Parts)
  BY DEF Surjection
<1>5. IsFiniteSet(Parts)
  <2> HIDE DEF h, Parts
  <2> QED BY <1>2, <1>4, FS_Surjection
<1>6. IsFiniteSet(UNION Parts)
  <2>1. \A P \in Parts : IsFiniteSet(P)
    BY <1>3
  <2> HIDE DEF Parts
  <2> QED BY <1>5, <2>1, FS_UNION
<1> QED
  BY <1>3, <1>6 DEF Graph!findMissingRanges

LEMMA GraphInSessionIsAPair ==
  ASSUME Graph!GraphAssumption, NEW r \in GraphPairs
  PROVE  Graph!InSession(r) \in GraphPairs
BY DEF Graph!GraphAssumption, Graph!InSession, GraphPairs, Graph!Larger, Graph!Smaller

LEMMA GraphAroundIsAPair ==
  ASSUME Graph!GraphAssumption, NEW r \in GraphPairs
  PROVE  Graph!Around(r) \in GraphPairs
<1>1. r[1] \in Int /\ r[2] \in Int
  BY DEF GraphPairs
<1> DEFINE pad == (r[2] - r[1]) \div 4
<1>2. pad \in Int
  BY <1>1
<1>3. <<r[1] - pad, r[2] + pad>> \in GraphPairs
  <2> HIDE DEF pad
  <2> QED BY <1>1, <1>2 DEF GraphPairs
<1> QED
  BY <1>3, GraphInSessionIsAPair DEF Graph!Around

LEMMA GraphAskedIsAPair ==
  ASSUME Graph!GraphAssumption, NEW r \in GraphPairs, NEW how \in {"day", "edge", "view"}
  PROVE  Graph!Asked(r, how) \in GraphPairs
<1>1. /\ Month \in Int /\ Day \in Int /\ Month \div 2 \in Int
      /\ r[1] \in Int /\ r[2] \in Int
  BY DEF Graph!GraphAssumption, GraphPairs
<1>2. ASSUME NEW q \in GraphPairs PROVE Graph!LastMonth(Graph!InSession(q)) \in GraphPairs
  <2> DEFINE s == Graph!InSession(q)
  <2>1. s \in GraphPairs
    BY GraphInSessionIsAPair
  <2> HIDE DEF s
  <2>2. Graph!LastMonth(s) \in GraphPairs
    BY <1>1, <2>1 DEF Graph!LastMonth, GraphPairs
  <2> QED
    BY <2>2 DEF s
<1>3. <<r[1] - 2 * Day, r[2] + Day>> \in GraphPairs
  BY <1>1 DEF GraphPairs
<1>4. <<r[1] - Month \div 2, r[2] + Month \div 2>> \in GraphPairs
  <2> DEFINE m == Month \div 2
  <2> HIDE DEF m
  <2>1. m \in Int
    BY <1>1 DEF m
  <2>2. <<r[1] - m, r[2] + m>> \in GraphPairs
    BY <1>1, <2>1 DEF GraphPairs
  <2> QED
    BY <2>2 DEF m
<1>5. CASE how = "day"
  BY <1>2, <1>3, <1>5 DEF Graph!Asked
<1>6. CASE how = "edge"
  BY <1>2, <1>4, <1>6 DEF Graph!Asked
<1>7. CASE how = "view"
  BY <1>2, <1>7 DEF Graph!Asked
<1> QED
  BY <1>5, <1>6, <1>7

\* A request asks for finitely many ranges.
LEMMA GraphRequestsAreFinite ==
  ASSUME Graph!GraphAssumption, NEW r \in GraphPairs, NEW how \in {"day", "edge", "view"}
  PROVE  Graph!Requests(r, how) \subseteq GraphPairs /\ IsFiniteSet(Graph!Requests(r, how))
<1> DEFINE M == Graph!findMissingRanges(Graph!Padded(Graph!InSession(r)), fetched[open])
           A == {Graph!Asked(m, how) : m \in M}
           f == [m \in M |-> Graph!Asked(m, how)]
<1>1. M \subseteq GraphPairs /\ IsFiniteSet(M)
  BY GraphMissingIsFinite
<1>2. f \in Surjection(M, A)
  <2> HIDE DEF M
  <2> QED BY DEF Surjection
<1>3. A \subseteq GraphPairs /\ IsFiniteSet(A)
  <2>1. A \subseteq GraphPairs
    <3> HIDE DEF M
    <3> QED BY <1>1, GraphAskedIsAPair
  <2>2. IsFiniteSet(A)
    <3> HIDE DEF M, A, f
    <3> QED BY <1>1, <1>2, FS_Surjection
  <2> QED
    BY <2>1, <2>2
<1>4. Graph!Requests(r, how) = {} \/ Graph!Requests(r, how) = A
  BY DEF Graph!Requests
<1> QED
  BY <1>3, <1>4, FS_EmptySet

\* A fetch keeps the calls in order, and waits for those it makes.
LEMMA GraphFetchKeeps ==
  ASSUME Graph!GraphAssumption, GraphTypeInv, GraphCallsFit, Graph!FetcherWaitsForACall, open # Closed,
         NEW r \in GraphPairs, NEW how \in {"day", "edge", "view"},
         Graph!fetchMeasurementsIfNeeded(r, how)
  PROVE  /\ calls' \in [Graph!Slots -> GraphCalls] /\ job' \in Nat
         /\ GraphCallsFit' /\ Graph!FetcherWaitsForACall'
<1> DEFINE ranges == Graph!Requests(r, how)
           slots == Graph!FreeSlots(Cardinality(ranges))
           spot == Graph!OneEach(slots, ranges)
           next == Min((1..(MaxInFlight + 1)) \ Graph!Jobs)
           bounds == Graph!InSession(r)
<1>1. CASE job # 0 \/ ranges = {}
  <2>1. calls' = calls /\ job' = job
    BY <1>1 DEF Graph!fetchMeasurementsIfNeeded
  <2> QED
    BY <2>1 DEF GraphTypeInv, GraphCallsFit, Graph!FetcherWaitsForACall
<1>2. CASE ~(job # 0 \/ ranges = {})
  <2>1. /\ Cardinality(ranges) <= Cardinality(Graph!Free)
        /\ calls' = [i \in Graph!Slots |->
               IF i \in slots THEN Graph!RangeCall(spot[i], next, bounds) ELSE calls[i]]
        /\ job' = next
    <3>1. /\ Graph!Cardinality(ranges) = Cardinality(ranges)
          /\ Graph!Cardinality(Graph!Free) = Cardinality(Graph!Free)
          /\ Graph!Min((1..(MaxInFlight + 1)) \ Graph!Jobs) = next
      BY GraphFinite, GraphMin
    <3> QED
      BY <1>2, <3>1 DEF Graph!fetchMeasurementsIfNeeded
  <2>2. ranges \subseteq GraphPairs /\ IsFiniteSet(ranges) /\ ranges # {}
    BY <1>2, GraphRequestsAreFinite
  <2> HIDE DEF ranges
  <2>3. Cardinality(ranges) \in Nat /\ Cardinality(ranges) # 0
    BY <2>2, FS_CardinalityType, FS_EmptySet
  <2>4. /\ slots \subseteq Graph!Free /\ IsFiniteSet(slots)
        /\ Cardinality(slots) = Cardinality(ranges)
    BY <2>1, <2>3, GraphFreeSlotsAreFree
  <2>5. next \in Nat
    BY GraphNextJobIsANumber DEF GraphTypeInv
  <2>6. bounds \in GraphPairs
    BY GraphInSessionIsAPair
  <2> HIDE DEF slots, next, bounds
  <2>7. slots # {}
    BY <2>3, <2>4, FS_EmptySet
  <2>8. spot \in [slots -> ranges]
    <3>1. PICK b : b \in Bijection(slots, ranges)
      BY <2>2, <2>4, FS_SameCardinalityBij DEF ExistsBijection
    <3>2. b \in [slots -> ranges] /\ \A q \in ranges : \E i \in slots : b[i] = q
      BY <3>1 DEF Bijection, Injection, Surjection
    <3> QED
      BY <3>2 DEF Graph!OneEach
  <2> HIDE DEF spot
  <2>9. ASSUME NEW i \in slots
        PROVE  /\ Graph!RangeCall(spot[i], next, bounds) \in GraphCalls
               /\ Graph!RangeCall(spot[i], next, bounds).kind = "points"
               /\ Graph!RangeCall(spot[i], next, bounds).stream = open
               /\ Graph!RangeCall(spot[i], next, bounds).job = next
    BY <2>2, <2>5, <2>6, <2>8 DEF Graph!RangeCall, GraphCalls, GraphTypeInv
  <2>10. slots \subseteq Graph!Slots
    BY <2>4 DEF Graph!Free
  <2>11. calls' \in [Graph!Slots -> GraphCalls]
    BY <2>1, <2>9 DEF GraphTypeInv
  <2>12. GraphCallsFit'
    BY <2>1, <2>9 DEF GraphCallsFit, GraphTypeInv, Graph!Slots
  <2>13. Graph!FetcherWaitsForACall'
    BY <2>1, <2>7, <2>9, <2>10 DEF Graph!FetcherWaitsForACall, Graph!Slots
  <2> QED
    BY <2>1, <2>5, <2>11, <2>12, <2>13
<1> QED
  BY <1>1, <1>2

-----------------------------------------------------------------------------
(* The actions. *)

\* A step that leaves what is loaded and recorded leaves it consistent.
LEMMA GraphRecordsKept ==
  ASSUME Graph!RecordedRangesAreLoaded, UNCHANGED <<data, fetched, replaced>>
  PROVE  Graph!RecordedRangesAreLoaded'
BY DEF Graph!RecordedRangesAreLoaded

\* What a graph begins with.
LEMMA GraphBlankIsTyped ==
  /\ Graph!Empty \in [of : Opened \cup {Closed}, points : SUBSET GraphMeasurements]
  /\ [s \in Opened |-> {}] \in [Opened -> SUBSET GraphPairs]
  /\ Graph!NoRange \in GraphPairs
<1>1. Graph!Empty \in [of : Opened \cup {Closed}, points : SUBSET GraphMeasurements]
  BY DEF Graph!Empty
<1>2. [s \in Opened |-> {}] \in [Opened -> SUBSET GraphPairs]
  OBVIOUS
<1>3. Graph!NoRange \in GraphPairs
  BY DEF Graph!NoRange, GraphPairs
<1> QED
  BY <1>1, <1>2, <1>3

LEMMA GraphInitHolds == Graph!GraphAssumption /\ Graph!Init => GraphIInv
<1> SUFFICES ASSUME Graph!GraphAssumption, Graph!Init PROVE GraphIInv
  OBVIOUS
<1>1. GraphTypeInv
  <2>1. [i \in Graph!Slots |-> Graph!NoCall] \in [Graph!Slots -> GraphCalls]
    BY GraphNoCallIsACall
  <2> QED
    BY <2>1, GraphBlankIsTyped DEF Graph!Init, GraphTypeInv
<1>2. GraphCallsFit
  BY DEF Graph!Init, GraphCallsFit, Graph!NoCall
<1>3. Graph!FetcherWaitsForACall
  BY DEF Graph!Init, Graph!FetcherWaitsForACall
<1>4. Graph!RecordedRangesAreLoaded
  BY DEF Graph!Init, Graph!RecordedRangesAreLoaded, Graph!Empty, Graph!GraphAssumption
<1> QED
  BY <1>1, <1>2, <1>3, <1>4 DEF GraphIInv

\* Calls for a stream in free slots disturb no fetch.
LEMMA GraphStreamCallsKeep ==
  ASSUME Graph!GraphAssumption, GraphTypeInv, GraphCallsFit, NEW s \in Opened,
         NEW n \in Nat, n <= Cardinality(Graph!Free),
         calls' =
           [i \in Graph!Slots |-> IF i \in Graph!FreeSlots(n) THEN Graph!StreamCall(s) ELSE calls[i]]
  PROVE  /\ calls' \in [Graph!Slots -> GraphCalls] /\ GraphCallsFit'
         /\ \A i \in Graph!Slots : calls[i].job # 0 => calls'[i] = calls[i]
<1>1. Graph!FreeSlots(n) \subseteq Graph!Free
  BY GraphFreeSlotsAreFree
<1>2. Graph!StreamCall(s) \in GraphCalls /\ Graph!StreamCall(s).kind = "stream"
      /\ Graph!StreamCall(s).stream = s /\ Graph!StreamCall(s).job = 0
  <2>1. Graph!NoCall.job = 0
    BY DEF Graph!NoCall
  <2> HIDE DEF Graph!NoCall
  <2> QED
    BY <2>1, GraphNoCallIsACall DEF Graph!StreamCall, GraphCalls
<1>3. \A i \in Graph!Free : calls[i].job = 0
  BY DEF Graph!Free, Graph!NoCall
<1> HIDE DEF Graph!StreamCall
<1>4. calls' \in [Graph!Slots -> GraphCalls]
  BY <1>2 DEF GraphTypeInv
<1>5. GraphCallsFit'
  BY <1>2 DEF GraphCallsFit, Graph!Slots
<1>6. \A i \in Graph!Slots : calls[i].job # 0 => calls'[i] = calls[i]
  BY <1>1, <1>3
<1> QED
  BY <1>4, <1>5, <1>6

\* Closed, the graph forgets everything but its calls.
LEMMA GraphResetKeeps ==
  ASSUME Graph!GraphAssumption, GraphTypeInv, Graph!Reset
  PROVE  /\ Graph!FetcherWaitsForACall' /\ Graph!RecordedRangesAreLoaded'
         /\ calls' \in [Graph!Slots -> GraphCalls] /\ moves' \in Nat => GraphTypeInv'
<1>1. Graph!FetcherWaitsForACall'
  BY DEF Graph!Reset, Graph!FetcherWaitsForACall
<1>2. Graph!RecordedRangesAreLoaded'
  BY DEF Graph!Reset, Graph!RecordedRangesAreLoaded, Graph!Empty, Graph!GraphAssumption
<1>3. calls' \in [Graph!Slots -> GraphCalls] /\ moves' \in Nat => GraphTypeInv'
  BY GraphBlankIsTyped DEF Graph!Reset, GraphTypeInv
<1> QED
  BY <1>1, <1>2, <1>3

LEMMA GraphOpeningKeeps ==
  ASSUME Graph!GraphAssumption, GraphIInv, NEW s \in Opened,
         (\E clicked \in BOOLEAN : Graph!Open(s, clicked)) \/ Graph!ClickAnother(s)
  PROVE  GraphIInv'
<1>1. ASSUME NEW clicked \in BOOLEAN, Graph!Open(s, clicked) PROVE GraphIInv'
  <2> DEFINE n == (IF clicked THEN 1 ELSE 0) + (IF data.points = {} THEN 1 ELSE 0)
  <2>1. n \in Nat
    OBVIOUS
  <2>2. /\ n <= Cardinality(Graph!Free)
        /\ calls' =
             [i \in Graph!Slots |-> IF i \in Graph!FreeSlots(n) THEN Graph!StreamCall(s) ELSE calls[i]]
    BY <1>1, GraphFinite DEF Graph!Open
  <2> HIDE DEF n
  <2>3. /\ calls' \in [Graph!Slots -> GraphCalls] /\ GraphCallsFit'
        /\ \A i \in Graph!Slots : calls[i].job # 0 => calls'[i] = calls[i]
    BY <2>1, <2>2, GraphStreamCallsKeep DEF GraphIInv
  <2>4. GraphTypeInv'
    BY <1>1, <2>3 DEF Graph!Open, GraphIInv, GraphTypeInv, Graph!fetcher, Graph!chart
  <2>5. Graph!FetcherWaitsForACall'
    BY <1>1, <2>3 DEF Graph!Open, GraphIInv, Graph!FetcherWaitsForACall, Graph!fetcher
  <2>6. Graph!RecordedRangesAreLoaded'
    BY <1>1, GraphRecordsKept DEF Graph!Open, GraphIInv
  <2> QED
    BY <2>3, <2>4, <2>5, <2>6 DEF GraphIInv
<1>2. CASE Graph!ClickAnother(s)
  <2>1. Cardinality(Graph!Free) \in Nat /\ 1 <= Cardinality(Graph!Free)
    <3>1. Graph!Free # {}
      BY <1>2 DEF Graph!ClickAnother
    <3> QED
      BY <3>1, GraphFreeIsFinite, FS_EmptySet
  <2>2. calls' =
           [i \in Graph!Slots |-> IF i \in Graph!FreeSlots(1) THEN Graph!StreamCall(s) ELSE calls[i]]
    BY <1>2 DEF Graph!ClickAnother
  <2>3. calls' \in [Graph!Slots -> GraphCalls] /\ GraphCallsFit'
    BY <2>1, <2>2, GraphStreamCallsKeep DEF GraphIInv
  <2>4. moves' \in Nat
    BY <1>2 DEF Graph!ClickAnother, GraphIInv, GraphTypeInv
  <2>5. Graph!Reset
    BY <1>2 DEF Graph!ClickAnother
  <2> QED
    BY <2>3, <2>4, <2>5, GraphResetKeeps DEF GraphIInv
<1> QED
  BY <1>1, <1>2

LEMMA GraphCloseKeeps == Graph!GraphAssumption /\ GraphIInv /\ Graph!Close => GraphIInv'
<1> SUFFICES ASSUME Graph!GraphAssumption, GraphIInv, Graph!Close PROVE GraphIInv'
  OBVIOUS
<1>1. calls' \in [Graph!Slots -> GraphCalls] /\ moves' \in Nat /\ GraphCallsFit'
  BY DEF Graph!Close, GraphIInv, GraphTypeInv, GraphCallsFit
<1>2. Graph!Reset
  BY DEF Graph!Close
<1> QED
  BY <1>1, <1>2, GraphResetKeeps DEF GraphIInv

\* A step that leaves what is loaded, and either leaves the calls or fetches.
LEMMA GraphQuietKeeps ==
  ASSUME Graph!GraphAssumption, GraphIInv, GraphTypeInv', UNCHANGED <<data, fetched, replaced,
    calls, job>>
  PROVE  GraphIInv'
<1>1. GraphCallsFit' /\ Graph!FetcherWaitsForACall'
  BY DEF GraphIInv, GraphCallsFit, Graph!FetcherWaitsForACall
<1>2. Graph!RecordedRangesAreLoaded'
  BY GraphRecordsKept DEF GraphIInv
<1> QED
  BY <1>1, <1>2 DEF GraphIInv

LEMMA GraphFetchingKeeps ==
  ASSUME Graph!GraphAssumption, GraphIInv, open # Closed, NEW r \in GraphPairs,
         NEW how \in {"day", "edge", "view"}, Graph!fetchMeasurementsIfNeeded(r, how),
         UNCHANGED <<open, data, fetched, replaced>>,
         numbers' \subseteq GraphMeasurements, started' \in BOOLEAN, view' \in GraphPairs,
         echoes' \subseteq GraphPairs, held' \subseteq GraphPairs, day' \in BOOLEAN, moves' \in Nat
  PROVE  GraphIInv'
<1>1. /\ calls' \in [Graph!Slots -> GraphCalls] /\ job' \in Nat
      /\ GraphCallsFit' /\ Graph!FetcherWaitsForACall'
  BY GraphFetchKeeps DEF GraphIInv
<1>2. GraphTypeInv'
  BY <1>1 DEF GraphIInv, GraphTypeInv
<1>3. Graph!RecordedRangesAreLoaded'
  BY GraphRecordsKept DEF GraphIInv
<1> QED
  BY <1>1, <1>2, <1>3 DEF GraphIInv

LEMMA GraphPageKeeps ==
  ASSUME Graph!GraphAssumption, GraphIInv, Graph!Page
  PROVE  GraphIInv'
<1>1. Last \in Nat /\ Day \in Nat /\ <<0, Last>> \in GraphPairs
  BY DEF Graph!GraphAssumption, GraphPairs
<1>2. ASSUME NEW r PROVE Graph!Within(data.points, r) \subseteq GraphMeasurements
  BY DEF Graph!Within, GraphIInv, GraphTypeInv
<1>3. CASE Graph!ChartLoads
  <2>1. view' \in GraphPairs
    BY <1>1, <1>3 DEF Graph!ChartLoads, GraphPairs
  <2>2. GraphTypeInv'
    BY <1>3, <2>1 DEF Graph!ChartLoads, GraphIInv, GraphTypeInv, Graph!store
  <2> QED
    BY <1>3, <2>2, GraphQuietKeeps DEF Graph!ChartLoads, Graph!store
<1>4. CASE Graph!FirstFetch
  BY <1>1, <1>4, GraphFetchingKeeps DEF Graph!FirstFetch, GraphIInv, GraphTypeInv, Graph!chart
<1>5. CASE Graph!Settle
  <2>1. GraphTypeInv'
    BY <1>2, <1>5 DEF Graph!Settle, GraphIInv, GraphTypeInv, Graph!fetcher, Graph!chart
  <2> QED
    BY <1>5, <2>1, GraphQuietKeeps DEF Graph!Settle, Graph!fetcher
<1>6. ASSUME NEW r \in Graph!Ranges, Graph!Refresh(r) PROVE GraphIInv'
  <2>1. GraphTypeInv'
    BY <1>2, <1>6 DEF Graph!Refresh, GraphIInv, GraphTypeInv, Graph!fetcher
  <2> QED
    BY <1>6, <2>1, GraphQuietKeeps DEF Graph!Refresh, Graph!fetcher
<1>7. ASSUME NEW r \in Graph!Ranges, Graph!Rest(r) PROVE GraphIInv'
  <2>1. r \in GraphPairs
    BY <1>7 DEF Graph!Rest, GraphIInv, GraphTypeInv
  <2>2. Graph!Around(r) \in GraphPairs
    BY <2>1, GraphAroundIsAPair
  <2> QED
    BY <1>7, <2>2, GraphFetchingKeeps DEF Graph!Rest, GraphIInv, GraphTypeInv
<1> QED
  BY <1>3, <1>4, <1>5, <1>6, <1>7 DEF Graph!Page

\* What the user does to a drawn chart.
LEMMA GraphMovesKeep ==
  ASSUME Graph!GraphAssumption, GraphIInv,
         \/ \E length \in {Day, Week, Month} : Graph!handleRangeSelectorClick(length)
         \/ \E r \in GraphZooms : Graph!Zoom(r) \/ Graph!Scroll(r)
         \/ \E step \in {-1, 1} : Graph!Arrow(step)
         \/ \E d \in {n \in Graph!Times : n < Last /\ n % Day = 0} : Graph!PickDay(d)
  PROVE  GraphIInv'
<1>1. Last \in Nat /\ Day \in Nat /\ Week \in Nat /\ Month \in Nat /\ GraphZooms \subseteq GraphPairs
  BY DEF Graph!GraphAssumption, GraphPairs
<1>2. ASSUME NEW r PROVE Graph!Within(data.points, r) \subseteq GraphMeasurements
  BY DEF Graph!Within, GraphIInv, GraphTypeInv
<1>3. ASSUME NEW r \in GraphPairs, Graph!Move(r)
      PROVE  /\ open # Closed /\ view' = r /\ moves' \in Nat
             /\ UNCHANGED <<open, data, fetched, replaced, started, echoes>>
             /\ Graph!Seen => numbers' \subseteq GraphMeasurements
  <2>1. open # Closed /\ view' = r /\ moves' \in Nat
        /\ UNCHANGED <<open, data, fetched, replaced, started, echoes>>
    BY <1>3 DEF Graph!Move, Graph!Drawn, GraphIInv, GraphTypeInv
  <2>2. Graph!Seen => numbers' \subseteq GraphMeasurements
    BY <1>2 DEF Graph!Seen
  <2> QED
    BY <2>1, <2>2
<1>4. ASSUME NEW length \in {Day, Week, Month}, Graph!handleRangeSelectorClick(length) PROVE GraphIInv'
  <2> DEFINE end == Graph!Smaller(view[2], Last)
             r == <<Graph!Larger(end - length, 0), end>>
             q == IF Graph!Requests(r, "view") # {} THEN r ELSE Graph!Around(r)
  <2>1. end \in Int
    BY <1>1 DEF GraphIInv, GraphTypeInv, GraphPairs, Graph!Smaller
  <2>2. r \in GraphPairs
    <3> HIDE DEF end
    <3> QED BY <1>1, <2>1 DEF GraphPairs, Graph!Larger
  <2>3. q \in GraphPairs
    <3> HIDE DEF r
    <3> QED BY <2>2, GraphAroundIsAPair
  <2>4. Graph!Move(r) /\ Graph!Seen /\ Graph!fetchMeasurementsIfNeeded(q,
           "view") /\ day' = FALSE /\ held' = held
    BY <1>4 DEF Graph!handleRangeSelectorClick
  <2> HIDE DEF r, q
  <2> QED
    BY <1>3, <2>2, <2>3, <2>4, GraphFetchingKeeps DEF GraphIInv, GraphTypeInv
<1>5. ASSUME NEW r \in GraphPairs, Graph!Zoom(r) PROVE GraphIInv'
  BY <1>3, <1>5, GraphAroundIsAPair, GraphFetchingKeeps DEF Graph!Zoom, GraphIInv, GraphTypeInv
<1>6. ASSUME NEW r \in GraphPairs, Graph!Scroll(r) PROVE GraphIInv'
  <2>1. numbers' \subseteq GraphMeasurements
    BY <1>3, <1>6 DEF Graph!Scroll, GraphIInv, GraphTypeInv
  <2>2. held' \subseteq GraphPairs
    BY <1>6 DEF Graph!Scroll, GraphIInv, GraphTypeInv
  <2>3. GraphTypeInv'
    BY <1>3, <1>6, <2>1, <2>2 DEF Graph!Scroll, GraphIInv, GraphTypeInv
  <2> QED
    BY <1>3, <1>6, <2>3, GraphQuietKeeps DEF Graph!Scroll
<1>7. ASSUME NEW step \in {-1, 1}, Graph!Arrow(step) PROVE GraphIInv'
  <2>1. PICK r : /\ r \in Graph!Ranges /\ Graph!Move(r) /\ Graph!fetchMeasurementsIfNeeded(Graph!Around(r), "view")
                 /\ day' = FALSE /\ UNCHANGED <<numbers, held>>
    BY <1>7 DEF Graph!Arrow
  <2>2. r \in GraphPairs
    BY <1>1, <2>1 DEF Graph!Ranges, Graph!Times, GraphPairs
  <2> QED
    BY <1>3, <2>1, <2>2, GraphAroundIsAPair, GraphFetchingKeeps DEF GraphIInv, GraphTypeInv
<1>8. ASSUME NEW d \in Graph!Times, Graph!PickDay(d) PROVE GraphIInv'
  <2> DEFINE r == Graph!InSession(<<d, d + Day>>)
  <2>1. <<d, d + Day>> \in GraphPairs
    BY <1>1 DEF Graph!Times, GraphPairs
  <2>2. r \in GraphPairs
    BY <2>1, GraphInSessionIsAPair
  <2>3. Graph!Move(r) /\ Graph!Seen /\ Graph!fetchMeasurementsIfNeeded(r,
           "day") /\ day' = TRUE /\ held' = held
    BY <1>8 DEF Graph!PickDay
  <2> HIDE DEF r
  <2> QED
    BY <1>3, <2>2, <2>3, GraphFetchingKeeps DEF GraphIInv, GraphTypeInv
<1> QED
  BY <1>1, <1>4, <1>5, <1>6, <1>7, <1>8

\* A stream that comes replaces the measurements; a range recorded for it before is
\* no longer vouched for.
LEMMA GraphStreamAnswerKeeps ==
  ASSUME Graph!GraphAssumption, GraphIInv, NEW i \in Graph!Slots, Graph!StreamAnswer(i)
  PROVE  GraphIInv'
<1> DEFINE s == calls[i].stream
<1>1. s \in Opened /\ calls[i].job = 0
  BY DEF Graph!StreamAnswer, GraphIInv, GraphCallsFit
<1>2. calls' = [calls EXCEPT ![i] = Graph!NoCall]
  BY DEF Graph!StreamAnswer
<1>3. \/ /\ data' = [of |-> s, points |-> {s} \X RecentOf[s]]
         /\ replaced' = IF fetched[s] # {} THEN replaced \cup {s} ELSE replaced
      \/ data' = Graph!Empty /\ replaced' = replaced
  BY DEF Graph!StreamAnswer
<1>4. UNCHANGED <<open, fetched, numbers, job, started, held, day, moves>>
  BY DEF Graph!StreamAnswer, Graph!fetcher
<1> HIDE DEF s
<1>5. calls' \in [Graph!Slots -> GraphCalls]
  BY <1>2, GraphNoCallIsACall DEF GraphIInv, GraphTypeInv
<1>6. GraphCallsFit'
  BY <1>2 DEF GraphIInv, GraphTypeInv, GraphCallsFit, Graph!NoCall, Graph!Slots
<1>7. Graph!FetcherWaitsForACall'
  BY <1>1, <1>2, <1>4 DEF GraphIInv, GraphTypeInv, Graph!FetcherWaitsForACall, Graph!Slots
<1>8. /\ data' \in [of : Opened \cup {Closed}, points : SUBSET GraphMeasurements]
      /\ replaced' \subseteq Opened
  <2>1. CASE data' = Graph!Empty /\ replaced' = replaced
    BY <2>1, GraphBlankIsTyped DEF GraphIInv, GraphTypeInv
  <2>2. CASE data' = [of |-> s, points |-> {s} \X RecentOf[s]]
    <3>1. {s} \X RecentOf[s] \subseteq GraphMeasurements
      BY <1>1 DEF Graph!GraphAssumption, GraphMeasurements, Graph!Times
    <3>2. replaced' \subseteq Opened
      BY <1>1, <1>3 DEF GraphIInv, GraphTypeInv
    <3> HIDE DEF GraphMeasurements
    <3> QED
      BY <1>1, <2>2, <3>1, <3>2
  <2> QED
    BY <1>3, <2>1, <2>2
<1>9. view' \in GraphPairs /\ echoes' \subseteq GraphPairs
  BY GraphBlankIsTyped DEF Graph!StreamAnswer, Graph!Echo, GraphIInv, GraphTypeInv
<1>10. GraphTypeInv'
  BY <1>4, <1>5, <1>8, <1>9 DEF GraphIInv, GraphTypeInv
<1>11. Graph!RecordedRangesAreLoaded'
  <2>1. CASE data' = Graph!Empty
    BY <2>1 DEF Graph!RecordedRangesAreLoaded, Graph!Empty, Graph!GraphAssumption
  <2>2. CASE /\ data' = [of |-> s, points |-> {s} \X RecentOf[s]]
             /\ replaced' = IF fetched[s] # {} THEN replaced \cup {s} ELSE replaced
    BY <1>1, <1>4, <2>2 DEF Graph!RecordedRangesAreLoaded
  <2> QED
    BY <1>3, <2>1, <2>2
<1> QED
  BY <1>6, <1>7, <1>10, <1>11 DEF GraphIInv

\* Measurements that come are merged with those that are there.
LEMMA GraphRangeAnswerKeeps ==
  ASSUME Graph!GraphAssumption, GraphIInv, NEW i \in Graph!Slots, Graph!RangeAnswer(i)
  PROVE  GraphIInv'
<1> DEFINE c == calls[i]
           new == Graph!Served(c.stream, c.range)
           points == Graph!Merged(data.points, new)
<1>1. c.stream \in Opened /\ c \in GraphCalls
  BY DEF Graph!RangeAnswer, GraphIInv, GraphTypeInv, GraphCallsFit
<1>2. /\ calls' = [calls EXCEPT ![i] = Graph!NoCall]
      /\ data' = [data EXCEPT !.points = points]
      /\ fetched' = [fetched EXCEPT ![c.stream] = IF new = {} THEN @ ELSE @ \cup {c.range}]
      /\ job' = Graph!Finished(i)
      /\ UNCHANGED <<open, started, view, held, day, moves, replaced>>
  BY DEF Graph!RangeAnswer
<1>3. new \subseteq GraphMeasurements
  BY <1>1 DEF Graph!Served, Graph!Within, GraphMeasurements, Graph!Times, Graph!GraphAssumption
<1>4. data.points \subseteq points /\ points \subseteq GraphMeasurements
  <2>1. data.points \subseteq GraphMeasurements
    BY DEF GraphIInv, GraphTypeInv
  <2> HIDE DEF new
  <2> QED
    BY <1>3, <2>1 DEF Graph!Merged
<1>5. calls' \in [Graph!Slots -> GraphCalls] /\ GraphCallsFit'
  BY <1>2, GraphNoCallIsACall DEF GraphIInv, GraphTypeInv, GraphCallsFit, Graph!NoCall, Graph!Slots
<1>6. Graph!FetcherWaitsForACall' /\ job' \in Nat
  <2>1. CASE job' = 0
    BY <2>1 DEF Graph!FetcherWaitsForACall
  <2>2. CASE job' # 0
    <3>1. job' = job /\ ~(Graph!LastOfJob(i) /\ job = calls[i].job)
      BY <1>2, <2>2 DEF Graph!Finished
    <3>2. PICK k \in Graph!Slots : calls[k].job = job
      BY <2>2, <3>1 DEF GraphIInv, Graph!FetcherWaitsForACall
    <3>3. PICK m \in Graph!Slots : m # i /\ calls[m].job = job
      BY <2>2, <3>1, <3>2 DEF Graph!LastOfJob
    <3>4. calls'[m].job = job
      BY <1>2, <3>3 DEF GraphIInv, GraphTypeInv
    <3> QED
      BY <3>1, <3>4 DEF Graph!FetcherWaitsForACall, GraphIInv, GraphTypeInv
  <2> QED
    BY <2>1, <2>2
<1>7. numbers' \subseteq GraphMeasurements /\ echoes' \subseteq GraphPairs
  <2> HIDE DEF points
  <2>1. \A r : Graph!Within(points, r) \subseteq GraphMeasurements
    BY <1>4 DEF Graph!Within
  <2>2. numbers' \in {Graph!Within(points, c.bounds), Graph!Within(points, c.range), numbers}
    BY DEF Graph!RangeAnswer, points
  <2>3. echoes' \subseteq GraphPairs
    BY DEF Graph!RangeAnswer, Graph!Echo, GraphIInv, GraphTypeInv
  <2> QED
    BY <2>1, <2>2, <2>3 DEF GraphIInv, GraphTypeInv
<1>8. GraphTypeInv'
  <2> HIDE DEF points, new
  <2>1. data' \in [of : Opened \cup {Closed}, points : SUBSET GraphMeasurements]
    BY <1>2, <1>4 DEF GraphIInv, GraphTypeInv
  <2>2. c.range \in GraphPairs
    BY <1>1 DEF GraphCalls
  <2>3. fetched' \in [Opened -> SUBSET GraphPairs]
    BY <1>1, <1>2, <2>2 DEF GraphIInv, GraphTypeInv
  <2> QED
    BY <1>2, <1>5, <1>6, <1>7, <2>1, <2>3 DEF GraphIInv, GraphTypeInv
<1>9. Graph!RecordedRangesAreLoaded'
  <2> DEFINE s == data.of
  <2>1. data'.of = s /\ data'.points = points
    BY <1>2 DEF GraphIInv, GraphTypeInv
  <2> SUFFICES ASSUME s \in Opened \ replaced, points \subseteq {s} \X Graph!Times,
                      NEW r \in fetched'[s]
               PROVE  Graph!Served(s, r) \subseteq points
    BY <1>2, <2>1 DEF Graph!RecordedRangesAreLoaded
  <2>2. data.points \subseteq {s} \X Graph!Times
    BY <1>4
  <2>3. CASE r \in fetched[s]
    <3>1. Graph!Served(s, r) \subseteq data.points
      BY <2>2, <2>3 DEF GraphIInv, Graph!RecordedRangesAreLoaded
    <3> QED
      BY <1>4, <3>1
  <2>4. CASE r \notin fetched[s]
    <3>1. s = c.stream /\ r = c.range
      <4> HIDE DEF new
      <4> QED BY <1>1, <1>2, <2>4 DEF GraphIInv, GraphTypeInv
    <3>2. Graph!Served(s, r) = new
      BY <3>1
    <3>3. ASSUME NEW p \in new PROVE p \in points
      <4>1. p \in {s} \X GraphPoints[s]
        BY <3>1, <3>3 DEF Graph!Served, Graph!Within
      <4>2. CASE \E q \in data.points : q[2] = p[2]
        <5>1. PICK q \in data.points : q[2] = p[2]
          BY <4>2
        <5>2. q = <<s, q[2]>> /\ p = <<s, p[2]>>
          BY <2>2, <4>1, <5>1
        <5> QED
          BY <1>4, <5>1, <5>2
      <4>3. CASE ~\E q \in data.points : q[2] = p[2]
        BY <3>3, <4>3 DEF Graph!Merged
      <4> QED
        BY <4>2, <4>3
    <3> QED
      BY <3>2, <3>3
  <2> QED
    BY <2>3, <2>4
<1> QED
  BY <1>5, <1>6, <1>8, <1>9 DEF GraphIInv

\* The first failure of a fetch ends it; its other calls belong to none.
LEMMA GraphRangeFailsKeeps ==
  ASSUME Graph!GraphAssumption, GraphIInv, NEW i \in Graph!Slots, Graph!RangeFails(i)
  PROVE  GraphIInv'
<1>1. /\ calls' = [k \in Graph!Slots |-> IF k = i THEN Graph!NoCall
                                         ELSE IF calls[i].job # 0 /\ calls[k].job = calls[i].job
                                         THEN [calls[k] EXCEPT !.job = 0]
                                         ELSE calls[k]]
      /\ job' = IF job = calls[i].job THEN 0 ELSE job
      /\ UNCHANGED <<open, data, fetched, numbers, replaced, started, view, held, day, moves>>
  BY DEF Graph!RangeFails
<1>2. ASSUME NEW k \in Graph!Slots
      PROVE  /\ [calls[k] EXCEPT !.job = 0] \in GraphCalls
             /\ [calls[k] EXCEPT !.job = 0].kind = calls[k].kind
             /\ [calls[k] EXCEPT !.job = 0].stream = calls[k].stream
             /\ [calls[k] EXCEPT !.job = 0].job = 0
  <2>1. calls[k] \in GraphCalls
    BY DEF GraphIInv, GraphTypeInv
  <2> QED
    BY <2>1 DEF GraphCalls
<1>3. calls' \in [Graph!Slots -> GraphCalls]
  BY <1>1, <1>2, GraphNoCallIsACall DEF GraphIInv, GraphTypeInv
<1>4. GraphCallsFit'
  <2>1. Graph!NoCall.kind = "none"
    BY DEF Graph!NoCall
  <2> SUFFICES ASSUME NEW k \in Graph!Slots
               PROVE  /\ calls'[k].kind # "none" => calls'[k].stream \in Opened
                      /\ calls'[k].kind = "stream" => calls'[k].job = 0
    BY DEF GraphCallsFit, Graph!Slots
  <2>2. calls'[k] \in {Graph!NoCall, [calls[k] EXCEPT !.job = 0], calls[k]}
    BY <1>1
  <2> QED
    BY <1>2, <2>1, <2>2 DEF GraphIInv, GraphCallsFit
<1>5. Graph!FetcherWaitsForACall' /\ job' \in Nat
  <2>1. CASE job' = 0
    BY <2>1 DEF Graph!FetcherWaitsForACall
  <2>2. CASE job' # 0
    <3>1. job' = job /\ job # calls[i].job
      BY <1>1, <2>2
    <3>2. PICK k \in Graph!Slots : calls[k].job = job
      BY <2>2, <3>1 DEF GraphIInv, Graph!FetcherWaitsForACall
    <3>3. calls'[k] = calls[k]
      BY <1>1, <3>1, <3>2
    <3> QED
      BY <3>1, <3>2, <3>3 DEF Graph!FetcherWaitsForACall, GraphIInv, GraphTypeInv
  <2> QED
    BY <2>1, <2>2
<1>6. echoes' \subseteq GraphPairs
  BY DEF Graph!RangeFails, Graph!Echo, GraphIInv, GraphTypeInv
<1>7. GraphTypeInv'
  BY <1>1, <1>3, <1>5, <1>6 DEF GraphIInv, GraphTypeInv
<1>8. Graph!RecordedRangesAreLoaded'
  BY <1>1, GraphRecordsKept DEF GraphIInv
<1> QED
  BY <1>4, <1>5, <1>7, <1>8 DEF GraphIInv

-----------------------------------------------------------------------------
(* Every step. *)

LEMMA GraphNextKeeps == Graph!GraphAssumption /\ GraphIInv /\ [Graph!Next]_(Graph!vars) => GraphIInv'
<1> SUFFICES ASSUME Graph!GraphAssumption, GraphIInv, [Graph!Next]_(Graph!vars) PROVE GraphIInv'
  OBVIOUS
<1>1. CASE Graph!User
  BY <1>1, GraphOpeningKeeps, GraphCloseKeeps, GraphMovesKeep DEF Graph!User
<1>2. CASE Graph!Page
  BY <1>2, GraphPageKeeps
<1>3. ASSUME NEW i \in Graph!Slots, Graph!Answer(i) PROVE GraphIInv'
  BY <1>3, GraphStreamAnswerKeeps, GraphRangeAnswerKeeps, GraphRangeFailsKeeps DEF Graph!Answer
<1>4. CASE UNCHANGED Graph!vars
  <2>1. GraphTypeInv'
    BY <1>4 DEF Graph!vars, Graph!store, Graph!fetcher, Graph!chart, GraphIInv, GraphTypeInv
  <2> QED
    BY <1>4, <2>1, GraphQuietKeeps DEF Graph!vars, Graph!store, Graph!fetcher
<1> QED
  BY <1>1, <1>2, <1>3, <1>4 DEF Graph!Next

LEMMA GraphInvImplies == GraphIInv => Graph!FetcherWaitsForACall /\ Graph!RecordedRangesAreLoaded
BY DEF GraphIInv

-----------------------------------------------------------------------------
(* The thresholds of the map and of the graph. *)

SliderT == [Keys -> Int]

SliderTypeInv ==
  /\ defaultValues \in SliderT
  /\ userValues \in SliderT \cup {Absent}
  /\ asked \subseteq Sensors
  /\ first \in BOOLEAN
  /\ thresholdValues \in SliderT
  /\ delayed \in SliderT \cup {Absent}
  /\ activeInput \in Keys \cup {Absent}
  /\ inputValue \in Int \cup {Absent}
  /\ drag = NoDrag \/ drag \in [key : Thumbs, from : SliderT]
  /\ useColorBoxStyle \in BOOLEAN
  /\ crossed \in BOOLEAN

\* Not only the thresholds in force ascend: so do those that are stored, those that
\* will be, and those a drag computes with.
SliderOrdered ==
  ~crossed =>
    /\ Ascend(defaultValues)
    /\ userValues # Absent => Ascend(userValues)
    /\ Ascend(thresholdValues)
    /\ delayed # Absent => Ascend(delayed)
    /\ Ascend(drag.from)

\* The slider shows what is stored or what it is about to store.
SliderInStep == thresholdValues = Thresholds \/ (delayed # Absent /\ thresholdValues = delayed)

\* The inductive invariant.
SliderIInv == SliderTypeInv /\ SliderOrdered /\ SliderInStep

-----------------------------------------------------------------------------
(* What the slider computes. *)

\* An entered value leaves thresholds, in their order.
LEMMA SliderInputKeepsOrder ==
  ASSUME NEW t \in SliderT, NEW key \in Keys, NEW value \in Int \cup {Absent}
  PROVE  /\ handleInputChange(t, key, value) \in SliderT
         /\ Ascend(t) => Ascend(handleInputChange(t, key, value))
<1>1. CASE handleInputChange(t, key, value) = t
  BY <1>1
<1>2. CASE handleInputChange(t, key, value) # t
  <2>1. /\ value \in Int
        /\ validateThresholdOrder(t, key, value)
        /\ handleInputChange(t, key, value) = [t EXCEPT ![key] = value]
    BY <1>2 DEF handleInputChange
  <2>2. [t EXCEPT ![key] = value] \in SliderT
    BY <2>1 DEF SliderT
  <2>3. ASSUME Ascend(t) PROVE Ascend([t EXCEPT ![key] = value])
    <3>1. CASE key = "min"
      BY <2>1, <2>3, <3>1 DEF SliderT, Keys, Ascend, validateThresholdOrder
    <3>2. CASE key = "low"
      BY <2>1, <2>3, <3>2 DEF SliderT, Keys, Ascend, validateThresholdOrder
    <3>3. CASE key = "middle"
      BY <2>1, <2>3, <3>3 DEF SliderT, Keys, Ascend, validateThresholdOrder
    <3>4. CASE key = "high"
      BY <2>1, <2>3, <3>4 DEF SliderT, Keys, Ascend, validateThresholdOrder
    <3>5. CASE key = "max"
      BY <2>1, <2>3, <3>5 DEF SliderT, Keys, Ascend, validateThresholdOrder
    <3> QED
      BY <3>1, <3>2, <3>3, <3>4, <3>5 DEF Keys
  <2> QED
    BY <2>1, <2>2, <2>3
<1> QED
  BY <1>1, <1>2

\* Two whole numbers are at least One apart.
LEMMA SliderGap ==
  ASSUME NEW m \in Int, NEW n \in Int, IsWhole(m), IsWhole(n), m < n
  PROVE  m + One <= n
<1> DEFINE a == m \div One
           b == n \div One
<1>1. One \in Int /\ One > 0
  BY ScaleAssumption
<1>2. a \in Int /\ m = One * a
  BY <1>1 DEF IsWhole
<1>3. b \in Int /\ n = One * b
  BY <1>1 DEF IsWhole
<1> HIDE DEF a, b
<1>4. a < b
  <2> SUFFICES ASSUME b <= a PROVE FALSE
    BY <1>2, <1>3
  <2>1. One * b <= One * a
    BY <1>1, <1>2, <1>3
  <2> QED
    BY <1>2, <1>3, <2>1
<1>5. a + 1 <= b
  BY <1>2, <1>3, <1>4
<1>6. One * (a + 1) <= One * b
  BY <1>1, <1>2, <1>3, <1>5
<1>7. One * (a + 1) = One * a + One
  BY <1>1, <1>2
<1> QED
  BY <1>2, <1>3, <1>6, <1>7

\* A drag leaves thresholds; within the scale, and where all thumbs are on whole
\* numbers, it keeps their order.
LEMMA SliderPushedKeepsOrder ==
  ASSUME NEW t \in SliderT, NEW key \in Thumbs, NEW v \in Int
  PROVE  /\ Pushed(t, key, v) \in SliderT
         /\ /\ Ascend(t) /\ t.min <= v /\ v <= t.max
            /\ \A thumb \in Thumbs : IsWhole(t[thumb])
            /\ IsWhole(v) \/ v = t.min \/ v = t.max
            => Ascend(Pushed(t, key, v))
<1>0. One \in Int /\ One > 0
  BY ScaleAssumption
<1>1. CASE key = "low"
  <2> DEFINE m == IF v >= t.middle /\ t.middle # t.max THEN Least(v + One, t.max) ELSE t.middle
             h == IF v >= t.high /\ t.high # t.max THEN Least(v + 2 * One, t.max) ELSE t.high
  <2>1. Pushed(t, key, v) = [t EXCEPT !.low = v, !.middle = m, !.high = h]
    BY <1>1 DEF Pushed, SliderT, Keys
  <2>2. m \in Int /\ h \in Int
    BY <1>0 DEF SliderT, Keys, Least
  <2>3. ASSUME Ascend(t), t.min <= v, v <= t.max, \A thumb \in Thumbs : IsWhole(t[thumb]),
               IsWhole(v) \/ v = t.min \/ v = t.max
        PROVE  v <= m /\ m <= h /\ h <= t.max
    <3>1. v >= t.middle /\ v < t.high => v + One <= t.high
      <4> SUFFICES ASSUME v >= t.middle, v < t.high PROVE v + One <= t.high
        OBVIOUS
      <4>1. IsWhole(t.middle) /\ IsWhole(t.high)
        BY <2>3 DEF Thumbs
      <4>2. v = t.middle \/ IsWhole(v)
        BY <2>3 DEF SliderT, Keys, Ascend
      <4> QED
        BY <4>1, <4>2, SliderGap DEF SliderT, Keys
    <3> QED
      BY <1>0, <2>3, <3>1 DEF SliderT, Keys, Least, Ascend
  <2> QED
    <3> HIDE DEF m, h
    <3> QED
      BY <2>1, <2>2, <2>3 DEF SliderT, Keys, Ascend
<1>2. CASE key = "middle"
  <2> DEFINE l == IF v <= t.low /\ t.low # t.min THEN Greatest(v - One, t.min) ELSE t.low
             h == IF v > t.high /\ t.high # t.max THEN Least(v + One, t.max) ELSE t.high
  <2>1. Pushed(t, key, v) = [t EXCEPT !.middle = v, !.low = l, !.high = h]
    BY <1>2 DEF Pushed, SliderT, Keys
  <2>2. l \in Int /\ h \in Int
    BY <1>0 DEF SliderT, Keys, Least, Greatest
  <2>3. Ascend(t) /\ t.min <= v /\ v <= t.max => t.min <= l /\ l <= v /\ v <= h /\ h <= t.max
    BY <1>0 DEF SliderT, Keys, Least, Greatest, Ascend
  <2> QED
    <3> HIDE DEF l, h
    <3> QED
      BY <2>1, <2>2, <2>3 DEF SliderT, Keys, Ascend
<1>3. CASE key = "high"
  <2> DEFINE m == IF v <= t.middle /\ t.middle # t.min THEN Greatest(v - One, t.min) ELSE t.middle
             l == IF v <= t.low /\ t.low # t.min THEN Greatest(v - 2 * One, t.min) ELSE t.low
  <2>1. Pushed(t, key, v) = [t EXCEPT !.high = v, !.middle = m, !.low = l]
    BY <1>3 DEF Pushed, SliderT, Keys
  <2>2. l \in Int /\ m \in Int
    BY <1>0 DEF SliderT, Keys, Greatest
  <2>3. ASSUME Ascend(t), t.min <= v, v <= t.max, \A thumb \in Thumbs : IsWhole(t[thumb]),
               IsWhole(v) \/ v = t.min \/ v = t.max
        PROVE  t.min <= l /\ l <= m /\ m <= v
    <3>1. v <= t.middle /\ t.low < v => t.low + One <= v
      <4> SUFFICES ASSUME v <= t.middle, t.low < v PROVE t.low + One <= v
        OBVIOUS
      <4>1. IsWhole(t.middle) /\ IsWhole(t.low)
        BY <2>3 DEF Thumbs
      <4>2. v = t.middle \/ IsWhole(v)
        BY <2>3 DEF SliderT, Keys, Ascend
      <4> QED
        BY <4>1, <4>2, SliderGap DEF SliderT, Keys
    <3> QED
      BY <1>0, <2>3, <3>1 DEF SliderT, Keys, Greatest, Ascend
  <2> QED
    <3> HIDE DEF l, m
    <3> QED
      BY <2>1, <2>2, <2>3 DEF SliderT, Keys, Ascend
<1> QED
  BY <1>1, <1>2, <1>3 DEF Thumbs

\* A click moves the closest thumb, which passes none unless two coincide.
LEMMA SliderClickKeepsOrder ==
  ASSUME NEW t \in SliderT, NEW v \in Int,
         ~(closestThumb(t, v) = "high" /\ v >= t.max),
         ~(closestThumb(t, v) = "low" /\ v <= t.min)
  PROVE  /\ [t EXCEPT ![closestThumb(t, v)] = v] \in SliderT
         /\ Ascend(t) /\ t.low # t.middle /\ t.middle # t.high
              => Ascend([t EXCEPT ![closestThumb(t, v)] = v])
<1>1. CASE closestThumb(t, v) = "low"
  BY <1>1 DEF SliderT, Keys, Ascend, closestThumb, Distance
<1>2. CASE closestThumb(t, v) = "middle"
  BY <1>2 DEF SliderT, Keys, Ascend, closestThumb, Distance
<1>3. CASE closestThumb(t, v) = "high"
  BY <1>3 DEF SliderT, Keys, Ascend, closestThumb, Distance
<1> QED
  BY <1>1, <1>2, <1>3 DEF closestThumb

\* A uniform distribution ascends.
LEMMA SliderUniformAscends ==
  ASSUME NEW lowest \in Int, NEW highest \in Int
  PROVE  /\ calculateUniformThresholds(lowest, highest) \in SliderT
         /\ Ascend(calculateUniformThresholds(lowest, highest))
<1> DEFINE whole == (highest - lowest) \div (4 * One)
           step == Greatest(One * whole, One)
<1>0. One \in Int /\ One > 0
  BY ScaleAssumption
<1>1. whole \in Int
  BY <1>0
<1> HIDE DEF whole
<1>2. step \in Int /\ step > 0
  <2>1. One * whole \in Int
    BY <1>0, <1>1
  <2> QED
    BY <1>0, <2>1 DEF Greatest
<1> HIDE DEF step
<1>3. Greatest(lowest + 4 * step, highest) \in Int
  BY <1>2 DEF Greatest
<1>4. lowest + 3 * step <= Greatest(lowest + 4 * step, highest)
  BY <1>2 DEF Greatest
<1>5. calculateUniformThresholds(lowest, highest)
        = [min |-> lowest, low |-> lowest + step, middle |-> lowest + 2 * step,
           high |-> lowest + 3 * step, max |-> Greatest(lowest + 4 * step, highest)]
  BY DEF calculateUniformThresholds, step, whole
<1> QED
  BY <1>2, <1>3, <1>4, <1>5 DEF SliderT, Keys, Ascend

-----------------------------------------------------------------------------
(* What the parts of the actions preserve. *)

\* What the slider takes from the store.
LEMMA SliderFollowKeeps ==
  ASSUME SliderTypeInv, Follow, defaultValues' \in SliderT, userValues' \in SliderT \cup {Absent}
  PROVE  /\ Thresholds' \in SliderT /\ thresholdValues' \in SliderT
         /\ activeInput' = activeInput /\ inputValue' \in Int \cup {Absent}
         /\ thresholdValues' = Thresholds' \/ (thresholdValues' = thresholdValues /\ Thresholds' = Thresholds)
<1>1. Thresholds' \in SliderT
  BY DEF Thresholds
<1>2. /\ thresholdValues' \in SliderT
      /\ thresholdValues' = Thresholds' \/ (thresholdValues' = thresholdValues /\ Thresholds' = Thresholds)
  BY <1>1 DEF SliderTypeInv, Follow
<1>3. activeInput' = activeInput
  BY DEF Follow
<1>4. inputValue' \in Int \cup {Absent}
  <2>1. CASE thresholdValues' = thresholdValues \/ activeInput = Absent
    BY <1>3, <2>1 DEF Follow, Shown, SliderTypeInv
  <2>2. CASE thresholdValues' # thresholdValues /\ activeInput # Absent
    <3>1. activeInput \in Keys /\ inputValue' = thresholdValues'[activeInput]
      BY <1>3, <2>2 DEF Follow, Shown, SliderTypeInv
    <3> QED
      BY <1>2, <3>1 DEF SliderT
  <2> QED
    BY <2>1, <2>2
<1> QED
  BY <1>1, <1>2, <1>3, <1>4

\* What the slider gives to the store, later.
LEMMA SliderSetKeeps ==
  ASSUME SliderTypeInv, SliderInStep, NEW t \in SliderT, SetThresholdValues(t), UNCHANGED store
  PROVE  /\ thresholdValues' = t
         /\ delayed' = t \/ delayed' = delayed
         /\ SliderInStep'
<1>1. t # Absent
  BY ScaleAssumption DEF SliderT
<1>2. Thresholds' = Thresholds
  BY DEF Thresholds, store
<1> QED
  BY <1>1, <1>2 DEF SetThresholdValues, SliderInStep

\* A step by which the slider follows the store: new values that ascend keep it so.
LEMMA SliderFollowStep ==
  ASSUME SliderIInv, Follow, UNCHANGED <<drag, crossed, useColorBoxStyle>>,
         defaultValues' \in SliderT, userValues' \in SliderT \cup {Absent},
         ~crossed => Ascend(defaultValues') /\ (userValues' # Absent => Ascend(userValues')),
         \/ delayed' = delayed
         \/ delayed' = Absent /\ delayed # Absent /\ userValues' = delayed,
         asked' \subseteq Sensors, first' \in BOOLEAN
  PROVE  SliderIInv'
<1>1. SliderTypeInv'
  BY SliderFollowKeeps DEF SliderIInv, SliderTypeInv
<1>2. ~crossed => Ascend(Thresholds')
  BY DEF Thresholds
<1>3. SliderOrdered'
  BY <1>2, SliderFollowKeeps DEF SliderIInv, SliderOrdered
<1>4. SliderInStep'
  <2>1. thresholdValues' = Thresholds' \/ (thresholdValues' = thresholdValues /\ Thresholds' = Thresholds)
    BY SliderFollowKeeps DEF SliderIInv
  <2>2. CASE delayed' = delayed
    BY <2>1, <2>2 DEF SliderIInv, SliderInStep
  <2>3. CASE delayed # Absent /\ userValues' = delayed
    <3>1. Thresholds' = delayed
      BY <2>3 DEF Thresholds
    <3> QED
      BY <2>1, <3>1 DEF SliderIInv, SliderInStep
  <2> QED
    BY <2>2, <2>3
<1> QED
  BY <1>1, <1>3, <1>4 DEF SliderIInv

\* A step by which the user sets thresholds on the slider.
LEMMA SliderSetStep ==
  ASSUME SliderIInv, NEW t \in SliderT, SetThresholdValues(t),
         UNCHANGED <<store, asked, first, useColorBoxStyle>>,
         activeInput' \in Keys \cup {Absent}, inputValue' \in Int \cup {Absent},
         drag' = drag \/ drag' \in [key : Thumbs, from : {thresholdValues}],
         crossed' \in BOOLEAN,
         ~crossed' => ~crossed /\ Ascend(t)
  PROVE  SliderIInv'
<1>1. thresholdValues' = t /\ (delayed' = t \/ delayed' = delayed) /\ SliderInStep'
  BY SliderSetKeeps DEF SliderIInv
<1>2. drag' = NoDrag \/ drag' \in [key : Thumbs, from : SliderT]
  BY DEF SliderIInv, SliderTypeInv
<1>3. SliderTypeInv'
  BY <1>1, <1>2 DEF SliderIInv, SliderTypeInv, store
<1>4. ~crossed' => Ascend(drag'.from)
  BY DEF SliderIInv, SliderOrdered
<1>5. SliderOrdered'
  BY <1>1, <1>4 DEF SliderIInv, SliderOrdered, store
<1> QED
  BY <1>1, <1>3, <1>5 DEF SliderIInv

-----------------------------------------------------------------------------
(* The invariant. *)

\* A link's thresholds, unless they are the exception, and the zeros before any ascend.
LEMMA SliderInitHolds == Init => SliderIInv
<1> SUFFICES ASSUME Init PROVE SliderIInv
  OBVIOUS
<1>1. Zeros \in SliderT /\ Ascend(Zeros)
  BY ScaleAssumption DEF SliderT, Keys, Ascend
<1>2. /\ userValues \in SliderT \cup {Absent} /\ crossed \in BOOLEAN
      /\ ~crossed /\ userValues # Absent => Ascend(userValues)
  BY ScaleAssumption DEF Init, SliderT
<1>3. Thresholds \in SliderT /\ (~crossed => Ascend(Thresholds))
  BY <1>1, <1>2 DEF Init, Thresholds
<1>4. SliderTypeInv
  BY <1>1, <1>2, <1>3 DEF Init, SliderTypeInv
<1>5. SliderOrdered
  BY <1>1, <1>2, <1>3 DEF Init, SliderOrdered, NoDrag
<1> QED
  BY <1>4, <1>5 DEF Init, SliderInStep, SliderIInv

\* What the server answers, and the update that was delayed.
LEMMA SliderStoreStep ==
  ASSUME SliderIInv, Server \/ setUserThresholdValues, UNCHANGED useColorBoxStyle
  PROVE  SliderIInv'
<1>1. ASSUME NEW s \in Sensors, ThresholdsArrive(s) PROVE SliderIInv'
  <2>1. DefaultsOf[s] \in SliderT /\ Ascend(DefaultsOf[s])
    BY ScaleAssumption DEF SliderT
  <2>2. /\ defaultValues' \in SliderT /\ Ascend(defaultValues')
        /\ userValues' = defaultValues' \/ (userValues' = userValues /\ userValues # Absent)
    BY <1>1, <2>1 DEF ThresholdsArrive
  <2> QED
    BY <1>1, <2>2, SliderFollowStep DEF ThresholdsArrive, SliderIInv, SliderTypeInv, SliderOrdered
<1>2. ASSUME NEW s \in Sensors, ThresholdsFail(s) PROVE SliderIInv'
  BY <1>2 DEF ThresholdsFail, SliderIInv, SliderTypeInv, SliderOrdered, SliderInStep, Thresholds,
      store, input
<1>3. CASE setUserThresholdValues
  <2>1. delayed \in SliderT /\ (~crossed => Ascend(delayed))
    BY <1>3 DEF setUserThresholdValues, SliderIInv, SliderTypeInv, SliderOrdered
  <2> QED
    BY <1>3, <2>1, SliderFollowStep DEF setUserThresholdValues, SliderIInv, SliderTypeInv,
        SliderOrdered
<1> QED
  BY <1>1, <1>2, <1>3 DEF Server

\* The fields.
LEMMA SliderTypingStep ==
  ASSUME SliderIInv, Typing, UNCHANGED useColorBoxStyle
  PROVE  SliderIInv'
<1>1. ASSUME NEW key \in Keys, handleInputFocus(key) PROVE SliderIInv'
  <2>1. inputValue' \in Int \cup {Absent}
    BY <1>1 DEF handleInputFocus, SliderIInv, SliderTypeInv, SliderT
  <2> QED
    BY <1>1, <2>1 DEF handleInputFocus, SliderIInv, SliderTypeInv, SliderOrdered, SliderInStep,
        Thresholds, store
<1>2. ASSUME NEW v \in Scale \cup {Absent}, Type(v) PROVE SliderIInv'
  <2>1. inputValue' \in Int \cup {Absent}
    BY <1>2, ScaleAssumption DEF Type
  <2> QED
    BY <1>2, <2>1 DEF Type, SliderIInv, SliderTypeInv, SliderOrdered, SliderInStep, Thresholds,
        store
<1>3. ASSUME NEW step \in {-One, 0, One}, handleInputKeyDown(step) PROVE SliderIInv'
  <2> DEFINE value == IF inputValue = Absent THEN Absent ELSE inputValue + step
             t == handleInputChange(thresholdValues, activeInput, value)
  <2>1. value \in Int \cup {Absent} /\ activeInput \in Keys /\ thresholdValues \in SliderT
    <3>1. step \in Int
      BY ScaleAssumption
    <3> QED
      BY <1>3, <3>1 DEF handleInputKeyDown, renderColorBoxSlider, Thumbs, Keys, SliderIInv,
          SliderTypeInv
  <2>2. /\ SetThresholdValues(t) /\ inputValue' = value
        /\ UNCHANGED <<store, asked, first, activeInput, drag, crossed>>
    BY <1>3 DEF handleInputKeyDown
  <2> HIDE DEF value
  <2>3. t \in SliderT /\ (Ascend(thresholdValues) => Ascend(t))
    BY <2>1, SliderInputKeepsOrder
  <2> HIDE DEF t
  <2> QED
    BY <2>1, <2>2, <2>3, SliderSetStep DEF SliderIInv, SliderTypeInv, SliderOrdered
<1>4. CASE handleInputBlur
  <2> DEFINE t == handleInputChange(thresholdValues, activeInput, inputValue)
  <2>1. inputValue \in Int \cup {Absent} /\ activeInput \in Keys /\ thresholdValues \in SliderT
    BY <1>4 DEF handleInputBlur, SliderIInv, SliderTypeInv
  <2>2. t \in SliderT /\ (Ascend(thresholdValues) => Ascend(t))
    BY <2>1, SliderInputKeepsOrder
  <2>3. /\ SetThresholdValues(t) /\ activeInput' = Absent
        /\ UNCHANGED <<store, asked, first, inputValue, drag, crossed>>
    BY <1>4 DEF handleInputBlur
  <2> HIDE DEF t
  <2> QED
    BY <2>1, <2>2, <2>3, SliderSetStep DEF SliderIInv, SliderTypeInv, SliderOrdered
<1> QED
  BY <1>1, <1>2, <1>3, <1>4 DEF Typing

\* The thumbs.
LEMMA SliderDraggingStep ==
  ASSUME SliderIInv, Dragging, UNCHANGED useColorBoxStyle
  PROVE  SliderIInv'
<1>1. ASSUME NEW key \in Thumbs, handleMouseDown(key) PROVE SliderIInv'
  <2> DEFINE t == IF activeInput = Absent THEN thresholdValues
                  ELSE handleInputChange(thresholdValues, activeInput, inputValue)
  <2>1. inputValue \in Int \cup {Absent} /\ activeInput \in Keys \cup {Absent} /\ thresholdValues \in SliderT
    BY DEF SliderIInv, SliderTypeInv
  <2>2. t \in SliderT /\ (Ascend(thresholdValues) => Ascend(t))
    BY <2>1, SliderInputKeepsOrder
  <2>3. /\ SetThresholdValues(t) /\ activeInput' = Absent
        /\ drag' = [key |-> key, from |-> thresholdValues]
        /\ UNCHANGED <<store, asked, first, inputValue, crossed>>
    BY <1>1 DEF handleMouseDown
  <2> HIDE DEF t
  <2> QED
    BY <2>1, <2>2, <2>3, SliderSetStep DEF SliderIInv, SliderTypeInv, SliderOrdered
<1>2. ASSUME NEW v \in Rounded, handleMouseMove(v) PROVE SliderIInv'
  <2> DEFINE within == Greatest(Least(v, drag.from.max), drag.from.min)
             t == Pushed(drag.from, drag.key, within)
  <2>1. v \in Int /\ IsWhole(v) /\ drag.key \in Thumbs /\ drag.from \in SliderT
    BY <1>2, ScaleAssumption DEF Rounded, handleMouseMove, SliderIInv, SliderTypeInv
  <2>2. /\ SetThresholdValues(t) /\ inputValue' = within
        /\ crossed' = (crossed \/ \E thumb \in Thumbs : ~IsWhole(drag.from[thumb]))
        /\ UNCHANGED <<store, asked, first, activeInput, drag>>
    BY <1>2 DEF handleMouseMove
  <2>3. drag.from.min \in Int /\ drag.from.max \in Int
    BY <2>1 DEF SliderT, Keys
  <2>4. /\ within \in Int
        /\ drag.from.min <= drag.from.max => drag.from.min <= within /\ within <= drag.from.max
        /\ IsWhole(within) \/ within = drag.from.min \/ within = drag.from.max
    BY <2>1, <2>3 DEF Greatest, Least
  <2>5. Ascend(drag.from) => drag.from.min <= drag.from.max
    BY <2>1 DEF Ascend, SliderT, Keys
  <2> HIDE DEF within
  <2>6. /\ t \in SliderT
        /\ Ascend(drag.from) /\ (\A thumb \in Thumbs : IsWhole(drag.from[thumb])) => Ascend(t)
    BY <2>1, <2>4, <2>5, SliderPushedKeepsOrder
  <2> HIDE DEF t
  <2>7. crossed' \in BOOLEAN /\ (~crossed' => ~crossed /\ Ascend(t))
    <3> DEFINE whole == \A thumb \in Thumbs : IsWhole(drag.from[thumb])
    <3>1. crossed' = (crossed \/ ~whole)
      BY <2>2
    <3>2. Ascend(drag.from) /\ whole => Ascend(t)
      BY <2>6
    <3> HIDE DEF whole
    <3> QED
      BY <3>1, <3>2 DEF SliderIInv, SliderTypeInv, SliderOrdered
  <2> QED
    BY <2>2, <2>4, <2>6, <2>7, SliderSetStep DEF SliderIInv, SliderTypeInv
<1>3. CASE handleMouseUp
  <2>1. ~crossed => Ascend(NoDrag.from)
    BY ScaleAssumption DEF NoDrag, Ascend, Keys
  <2> QED
    BY <1>3, <2>1 DEF handleMouseUp, SliderIInv, SliderTypeInv, SliderOrdered, SliderInStep,
        Thresholds, store, input
<1> QED
  BY <1>1, <1>2, <1>3 DEF Dragging

\* The clicks.
LEMMA SliderClickingStep ==
  ASSUME SliderIInv, Clicking, UNCHANGED useColorBoxStyle
  PROVE  SliderIInv'
<1>1. ASSUME NEW s \in Sensors, fetchThresholds(s) PROVE SliderIInv'
  BY <1>1 DEF fetchThresholds, SliderIInv, SliderTypeInv, SliderOrdered, SliderInStep, Thresholds,
      store, input
<1>2. ASSUME NEW v \in Rounded, handleSliderClick(v) PROVE SliderIInv'
  <2> DEFINE t == [thresholdValues EXCEPT ![closestThumb(thresholdValues, v)] = v]
  <2>1. thresholdValues \in SliderT /\ v \in Int
    BY ScaleAssumption DEF Rounded, SliderIInv, SliderTypeInv
  <2>2. /\ ~(closestThumb(thresholdValues, v) = "high" /\ v >= thresholdValues.max)
        /\ ~(closestThumb(thresholdValues, v) = "low" /\ v <= thresholdValues.min)
        /\ SetThresholdValues(t)
        /\ crossed' = (crossed \/ thresholdValues.low = thresholdValues.middle
                         \/ thresholdValues.middle = thresholdValues.high)
        /\ UNCHANGED <<store, asked, first, input, drag>>
    BY <1>2 DEF handleSliderClick
  <2>3. /\ t \in SliderT
        /\ /\ Ascend(thresholdValues)
           /\ thresholdValues.low # thresholdValues.middle
           /\ thresholdValues.middle # thresholdValues.high
           => Ascend(t)
    BY <2>1, <2>2, SliderClickKeepsOrder
  <2> HIDE DEF t
  <2>4. crossed' \in BOOLEAN /\ (~crossed' => ~crossed /\ Ascend(t))
    BY <2>2, <2>3 DEF SliderIInv, SliderTypeInv, SliderOrdered
  <2> QED
    BY <2>2, <2>3, <2>4, SliderSetStep DEF SliderIInv, SliderTypeInv, input
<1>3. ASSUME NEW a \in Rounded, NEW b \in Rounded, distributeThresholds(a, b) PROVE SliderIInv'
  <2>1. userValues' \in SliderT /\ Ascend(userValues')
    <3>1. a \in Int /\ b \in Int
      BY ScaleAssumption DEF Rounded
    <3> QED
      BY <1>3, <3>1, SliderUniformAscends DEF distributeThresholds
  <2> QED
    BY <1>3, <2>1, SliderFollowStep DEF distributeThresholds, SliderIInv, SliderTypeInv,
        SliderOrdered
<1>4. CASE resetUserThresholds
  BY <1>4, SliderFollowStep DEF resetUserThresholds, SliderIInv, SliderTypeInv, SliderOrdered
<1> QED
  BY <1>1, <1>2, <1>3, <1>4 DEF Clicking

\* Every step of the slider's, the user's and the server's.
LEMMA SliderNextKeeps == SliderIInv /\ [Next]_vars => SliderIInv'
<1> SUFFICES ASSUME SliderIInv, [Next]_vars PROVE SliderIInv'
  OBVIOUS
<1>1. CASE UNCHANGED vars
  BY <1>1 DEF vars, store, input, SliderIInv, SliderTypeInv, SliderOrdered, SliderInStep, Thresholds
<1>2. CASE Next
  BY <1>2, SliderStoreStep, SliderTypingStep, SliderDraggingStep, SliderClickingStep DEF Next
<1> QED
  BY <1>1, <1>2

\* What is in order in the store and in the slider is so on the axis of the graph.
LEMMA SliderInvImplies == SliderIInv => ThresholdsAscend /\ SliderAndMapAgree
<1> SUFFICES ASSUME SliderIInv PROVE ThresholdsAscend /\ SliderAndMapAgree
  OBVIOUS
<1>1. ThresholdsAscend
  <2> SUFFICES ASSUME ~crossed
               PROVE  /\ Ascend(thresholdValues)
                      /\ \A i \in 1..4 : getYAxisOptions[i] <= getYAxisOptions[i + 1]
    BY DEF ThresholdsAscend
  <2>1. Ascend(thresholdValues) /\ Ascend(Thresholds)
    BY DEF SliderIInv, SliderOrdered, Thresholds
  <2>2. ASSUME NEW i \in 1..4 PROVE getYAxisOptions[i] <= getYAxisOptions[i + 1]
    <3>1. i = 1 \/ i = 2 \/ i = 3 \/ i = 4
      OBVIOUS
    <3> QED
      BY <2>1, <3>1 DEF getYAxisOptions, Ascend
  <2> QED
    BY <2>1, <2>2
<1>2. SliderAndMapAgree
  BY DEF SliderIInv, SliderInStep, SliderAndMapAgree
<1> QED
  BY <1>1, <1>2

-----------------------------------------------------------------------------
(* A mobile session on the map. *)

MobileFrames == [of : Opened, version : Nat, gone : BOOLEAN]

MobileTypeInv ==
  /\ sessions \subseteq Opened
  /\ selected \in Opened \cup {Nothing} /\ data \in Opened \cup {Nothing}
  /\ calls \subseteq [of : Opened, nth : {1, 2}]
  /\ thresholds \in Nat
  /\ frames \in Seq(MobileFrames)

\* The list is that of the sessions, and without an open one there is no path.
MobileListFits ==
  due = {} =>
    /\ list = Mobile!MobileMarkers
    /\ selected = Nothing => path = Nothing /\ \A i \in DOMAIN frames : frames[i].gone

MobileLoadingEnds == markersLoading => frames # <<>>

\* Both answers are to come, or the stream is there.
MobileAnswered ==
  selected # Nothing /\ "answer" \notin excused =>
    /\ \A c \in calls : c.of = selected
    /\ data = selected \/ {[of |-> selected, nth |-> n] : n \in {1, 2}} \subseteq calls

\* The path p of stream s, in colours of version v.
MobileIsPath(p, s, v) ==
  /\ p = [points |-> p.points, notes |-> [at \in Mobile!Places(s) |-> s], line |-> s]
  /\ p.points = [i \in Mobile!sortedSessions(s) |-> [at |-> PathOf[s][i],
       colour |-> Mobile!colour(s, i, v)]]

MobileAllGone(fs, n) == \A i \in 1..n : fs[i].gone

\* The path is about to be cleared, is empty, is to be drawn in the last frame, or is drawn.
MobilePathFits ==
  selected # Nothing /\ "frame" \notin excused =>
    \/ "stream" \in due /\ MobileAllGone(frames, Len(frames))
    \/ /\ "stream" \notin due /\ path = Mobile!Blank /\ data = Nothing /\ MobileAllGone(frames,
         Len(frames))
    \/ /\ due \cap {"stream", "thresholds"} = {} /\ path = Mobile!Blank /\ data # Nothing
       /\ frames # <<>> /\ MobileAllGone(frames, Len(frames) - 1)
       /\ frames[Len(frames)] = [of |-> data, version |-> thresholds, gone |-> FALSE]
    \/ /\ "stream" \notin due /\ data # Nothing /\ MobileAllGone(frames, Len(frames))
       /\ \E v \in Nat : MobileIsPath(path, data, v) /\ (v = thresholds \/ "thresholds" \in due)

\* The note that is shown was taken where its popup stands.
MobilePopupFits ==
  selected # Nothing /\ popover # Mobile!NoPopover /\ excused \subseteq {"gone"} =>
    /\ data # Nothing
    /\ \A k \in {slide, popover.slide} : k \in DOMAIN NotesOf[data] /\ NotesOf[data][k] = popover.key

\* Whatever a component leaves behind was under way when its session was closed.
MobileGoneIsExcused ==
  "gone" \notin excused => left = {} /\ \A i \in DOMAIN frames : ~frames[i].gone

MobileDrawnInv == MobileTypeInv /\ MobileListFits /\ MobileLoadingEnds /\ MobileAnswered /\ MobilePathFits /\ MobilePopupFits

\* The inductive invariant.
MobileIInv == MobileDrawnInv /\ MobileGoneIsExcused

-----------------------------------------------------------------------------
(* Paths and frames. *)

\* A path is something.
LEMMA MobilePathIsThere ==
  ASSUME Mobile!MobileAssumption, NEW s \in Opened, NEW v \in Nat, NEW p, MobileIsPath(p, s, v)
  PROVE  p # Nothing
<1> DEFINE at == {PathOf[s][i] : i \in DOMAIN PathOf[s]}
           P == [at : at, colour : {s} \X (DOMAIN PathOf[s]) \X Nat]
           Q == [Mobile!sortedSessions(s) -> P]
           N == [Mobile!Places(s) -> {s}]
<1>1. \A i \in Mobile!sortedSessions(s) : i \in DOMAIN PathOf[s]
  BY DEF Mobile!sortedSessions
<1>2. \A i \in Mobile!sortedSessions(s) : [at |-> PathOf[s][i], colour |-> Mobile!colour(s, i, v)] \in P
  BY <1>1 DEF Mobile!colour
<1>3. p.points \in Q
  BY <1>2 DEF MobileIsPath
<1>4. [x \in Mobile!Places(s) |-> s] \in N
  OBVIOUS
<1>5. Nothing \notin [points : Q, notes : N, line : {s}]
  BY DEF Mobile!MobileAssumption
<1> HIDE DEF Q, N
<1>6. p \in [points : Q, notes : N, line : {s}]
  BY <1>3, <1>4 DEF MobileIsPath
<1> QED
  BY <1>5, <1>6

\* What the callback draws.
LEMMA MobileDrawnIsPath ==
  ASSUME NEW f, NEW s, NEW v, f.of = s, f.version = v
  PROVE  MobileIsPath(Mobile!Drawn(Mobile!Blank, f), s, v)
<1> DEFINE marked == [i \in Mobile!sortedSessions(s) |-> Mobile!createOrUpdateMarker(Mobile!Blank,
  s, i, v)]
           notes0 == [at \in Mobile!Places(s) |-> s]
<1>1. Mobile!Drawn(Mobile!Blank, f) = [points |-> marked, notes |-> notes0, line |-> s]
  BY DEF Mobile!Drawn
<1>2. DOMAIN Mobile!Blank.points = {}
  BY DEF Mobile!Blank
<1>3. \A i \in Mobile!sortedSessions(s) :
        Mobile!createOrUpdateMarker(Mobile!Blank, s, i, v) = [at |-> PathOf[s][i],
          colour |-> Mobile!colour(s, i, v)]
  BY <1>2 DEF Mobile!createOrUpdateMarker
<1>4. marked = [i \in Mobile!sortedSessions(s) |-> [at |-> PathOf[s][i],
         colour |-> Mobile!colour(s, i, v)]]
  BY <1>3
<1> HIDE DEF marked, notes0
<1>5. Mobile!Drawn(Mobile!Blank, f).points = marked
  BY <1>1
<1> QED
  BY <1>1, <1>4, <1>5 DEF MobileIsPath, notes0

\* Changed thresholds colour a path anew, and nothing of an empty one.
LEMMA MobileColouredIsPath ==
  ASSUME data # Nothing, NEW v, NEW p, MobileIsPath(p, data, v)
  PROVE  MobileIsPath(Mobile!Coloured(p), data, thresholds)
<1> DEFINE marks == [i \in DOMAIN p.points |->
                       IF data # Nothing /\ i \in Mobile!sortedSessions(data)
                       THEN [p.points[i] EXCEPT !.colour = Mobile!colour(data, i,
                         thresholds)] ELSE p.points[i]]
           notes0 == [at \in Mobile!Places(data) |-> data]
<1>1. Mobile!Coloured(p) = [p EXCEPT !.points = marks]
  BY DEF Mobile!Coloured
<1>2. DOMAIN p.points = Mobile!sortedSessions(data)
  BY DEF MobileIsPath
<1>3. \A i \in Mobile!sortedSessions(data) : p.points[i] = [at |-> PathOf[data][i],
         colour |-> Mobile!colour(data, i, v)]
  BY DEF MobileIsPath
<1>4. ASSUME NEW i \in Mobile!sortedSessions(data)
      PROVE  [p.points[i] EXCEPT !.colour = Mobile!colour(data, i, thresholds)]
               = [at |-> PathOf[data][i], colour |-> Mobile!colour(data, i, thresholds)]
  <2> DEFINE old == Mobile!colour(data, i, v)
             new == Mobile!colour(data, i, thresholds)
  <2>1. p.points[i] = [at |-> PathOf[data][i], colour |-> old]
    BY <1>3
  <2> HIDE DEF old, new
  <2>2. [p.points[i] EXCEPT !.colour = new] = [at |-> PathOf[data][i], colour |-> new]
    BY <2>1
  <2> QED
    BY <2>2 DEF new
<1>5. marks = [i \in Mobile!sortedSessions(data) |-> [at |-> PathOf[data][i],
         colour |-> Mobile!colour(data, i, thresholds)]]
  BY <1>2, <1>4
<1>6. p = [points |-> p.points, notes |-> notes0, line |-> data]
  BY DEF MobileIsPath
<1> HIDE DEF marks, notes0
<1>7. Mobile!Coloured(p) = [points |-> marks, notes |-> notes0, line |-> data]
  BY <1>1, <1>6
<1>8. Mobile!Coloured(p).points = marks
  BY <1>7
<1> QED
  BY <1>7, <1>8, <1>5 DEF MobileIsPath, notes0

LEMMA MobileBlankStaysBlank == Mobile!Coloured(Mobile!Blank) = Mobile!Blank
<1> DEFINE marks == [i \in DOMAIN Mobile!Blank.points |->
                       IF data # Nothing /\ i \in Mobile!sortedSessions(data)
                       THEN [Mobile!Blank.points[i] EXCEPT !.colour = Mobile!colour(data, i,
                         thresholds)] ELSE Mobile!Blank.points[i]]
<1>1. Mobile!Coloured(Mobile!Blank) = [Mobile!Blank EXCEPT !.points = marks]
  BY DEF Mobile!Coloured
<1>2. Mobile!Blank.points = <<>>
  BY DEF Mobile!Blank
<1>3. marks = <<>>
  BY <1>2
<1> HIDE DEF marks
<1>4. [Mobile!Blank EXCEPT !.points = marks] = [points |-> marks, notes |-> Mobile!Blank.notes,
         line |-> Mobile!Blank.line]
  BY DEF Mobile!Blank
<1> QED
  BY <1>1, <1>3, <1>4 DEF Mobile!Blank

LEMMA MobileGoneAreFrames ==
  ASSUME MobileTypeInv
  PROVE  /\ Mobile!Gone(frames) \in Seq(MobileFrames) /\ DOMAIN Mobile!Gone(frames) = DOMAIN frames
         /\ \A i \in DOMAIN frames : Mobile!Gone(frames)[i].gone
<1>1. frames \in Seq(MobileFrames)
  BY DEF MobileTypeInv
<1>2. Len(frames) \in Nat /\ DOMAIN frames = 1..Len(frames)
  BY <1>1
<1>3. \A i \in DOMAIN frames : frames[i] \in MobileFrames
  BY <1>1
<1>4. \A i \in DOMAIN frames : [frames[i] EXCEPT !.gone = TRUE] \in MobileFrames /\ [frames[i] EXCEPT !.gone = TRUE].gone
  BY <1>3 DEF MobileFrames
<1>5. Mobile!Gone(frames) \in [1..Len(frames) -> MobileFrames]
  BY <1>2, <1>4 DEF Mobile!Gone
<1>6. Mobile!Gone(frames) \in Seq(MobileFrames)
  <2> DEFINE n == Len(frames)
             g == Mobile!Gone(frames)
  <2> HIDE DEF n, g
  <2>1. n \in Nat /\ g \in [1..n -> MobileFrames]
    BY <1>2, <1>5 DEF n, g
  <2> QED
    BY <2>1 DEF g
<1> QED
  BY <1>4, <1>6 DEF Mobile!Gone

\* The frames when one more is to come, and when one has come.
LEMMA MobileFramesAfter ==
  ASSUME MobileTypeInv
  PROVE  /\ DOMAIN frames = 1..Len(frames) /\ Len(frames) \in Nat
         /\ \A f \in MobileFrames : /\ Append(frames, f) \in Seq(MobileFrames)
                               /\ Append(frames, f) # <<>>
                               /\ Len(Append(frames, f)) = Len(frames) + 1
                               /\ Append(frames, f)[Len(frames) + 1] = f
                               /\ \A i \in 1..Len(frames) : Append(frames, f)[i] = frames[i]
         /\ frames # <<>> =>
              /\ Head(frames) = frames[1] /\ Head(frames) \in MobileFrames
              /\ Tail(frames) \in Seq(MobileFrames) /\ Len(Tail(frames)) = Len(frames) - 1
              /\ \A i \in 1..(Len(frames) - 1) : Tail(frames)[i] = frames[i + 1]
              /\ Len(frames) > 0
<1>1. frames \in Seq(MobileFrames)
  BY DEF MobileTypeInv
<1>2. frames # <<>> => Head(frames) \in MobileFrames /\ Tail(frames) \in Seq(MobileFrames) /\ Len(frames) > 0
  BY <1>1, EmptySeq, HeadTailProperties
<1> QED
  BY <1>1, <1>2, AppendProperties, HeadTailProperties

-----------------------------------------------------------------------------
(* What keeps the invariant. *)

LEMMA MobileBlankRender ==
  ASSUME Mobile!MobileAssumption, MobileDrawnInv, Mobile!Render, selected # Nothing,
    "stream" \in due \/ path = Nothing
  PROVE  MobileTypeInv' /\ MobileLoadingEnds' /\ MobilePathFits'
<1>1. MobileTypeInv
  BY DEF MobileDrawnInv
<1>2. /\ path' = Mobile!Blank /\ due' = {}
      /\ frames' = IF data = Nothing THEN frames
                   ELSE Append(frames, [of |-> data, version |-> thresholds, gone |-> FALSE])
      /\ markersLoading' = (data # Nothing)
      /\ UNCHANGED <<sessions, selected, data, calls, thresholds, zoom, popover, moves, left, excused>>
  BY DEF Mobile!Render, Mobile!net
<1>3. ASSUME "frame" \notin excused PROVE MobileAllGone(frames, Len(frames))
  <2>1. Nothing # Mobile!Blank
    BY DEF Mobile!MobileAssumption
  <2>2. ASSUME data # Nothing, NEW v \in Nat, MobileIsPath(path, data, v) PROVE path # Nothing
    BY <1>1, <2>2, MobilePathIsThere DEF MobileTypeInv
  <2> QED
    BY <1>3, <2>1, <2>2 DEF MobileDrawnInv, MobilePathFits
<1>4. CASE data = Nothing
  <2>1. frames' = frames /\ markersLoading' = FALSE
    BY <1>2, <1>4
  <2>2. MobileAllGone(frames', Len(frames')) = MobileAllGone(frames, Len(frames))
    BY <2>1 DEF MobileAllGone
  <2> QED
    BY <1>1, <1>2, <1>3, <1>4, <2>1, <2>2 DEF MobileTypeInv, MobileLoadingEnds, MobilePathFits
<1>5. CASE data # Nothing
  <2> DEFINE f == [of |-> data, version |-> thresholds, gone |-> FALSE]
  <2>1. f \in MobileFrames /\ frames' = Append(frames, f)
    BY <1>1, <1>2, <1>5 DEF MobileTypeInv, MobileFrames
  <2> HIDE DEF f
  <2>2. /\ frames' \in Seq(MobileFrames) /\ frames' # <<>> /\ Len(frames') = Len(frames) + 1
        /\ frames'[Len(frames')] = f /\ \A i \in 1..Len(frames) : frames'[i] = frames[i]
        /\ Len(frames) \in Nat
    BY <1>1, <2>1, MobileFramesAfter
  <2>3. MobileAllGone(frames, Len(frames)) => MobileAllGone(frames', Len(frames') - 1)
    BY <2>2 DEF MobileAllGone
  <2>4. MobileTypeInv'
    BY <1>1, <1>2, <2>2 DEF MobileTypeInv
  <2>5. frames'[Len(frames')] = [of |-> data', version |-> thresholds', gone |-> FALSE]
    BY <1>2, <2>2 DEF f
  <2> QED
    BY <1>2, <1>3, <1>5, <2>2, <2>3, <2>4, <2>5 DEF MobileLoadingEnds, MobilePathFits
<1> QED
  BY <1>4, <1>5

LEMMA MobileKeepingRender ==
  ASSUME Mobile!MobileAssumption, MobileDrawnInv, Mobile!Render, selected # Nothing,
    "stream" \notin due, path # Nothing
  PROVE  MobileTypeInv' /\ MobileLoadingEnds' /\ MobilePathFits'
<1>1. MobileTypeInv /\ MobileLoadingEnds
  BY DEF MobileDrawnInv
<1>2. /\ path' = IF "thresholds" \in due THEN Mobile!Coloured(path) ELSE path
      /\ due' = {}
      /\ UNCHANGED <<frames, markersLoading, sessions, selected, data, calls, thresholds, zoom, popover,
                     moves, left, excused>>
  BY DEF Mobile!Render, Mobile!net
<1>3. MobileTypeInv' /\ MobileLoadingEnds'
  BY <1>1, <1>2 DEF MobileTypeInv, MobileLoadingEnds
<1>4. /\ MobileAllGone(frames', Len(frames') - 1) = MobileAllGone(frames, Len(frames) - 1)
      /\ MobileAllGone(frames', Len(frames')) = MobileAllGone(frames, Len(frames))
  BY <1>2 DEF MobileAllGone
<1>5. ASSUME "frame" \notin excused, path = Mobile!Blank
      PROVE  path' = Mobile!Blank
  BY <1>2, <1>5, MobileBlankStaysBlank
<1>6. ASSUME data # Nothing, NEW v \in Nat, MobileIsPath(path, data, v),
         v = thresholds \/ "thresholds" \in due
      PROVE  thresholds \in Nat /\ MobileIsPath(path', data, thresholds)
  BY <1>1, <1>2, <1>6, MobileColouredIsPath DEF MobileTypeInv
<1>7. MobilePathFits'
  <2> SUFFICES ASSUME "frame" \notin excused PROVE MobilePathFits'
    BY <1>2 DEF MobilePathFits
  <2>1. CASE path = Mobile!Blank /\ data = Nothing /\ MobileAllGone(frames, Len(frames))
    BY <1>2, <1>4, <1>5, <2>1 DEF MobilePathFits
  <2>2. CASE /\ path = Mobile!Blank /\ data # Nothing
             /\ frames # <<>> /\ MobileAllGone(frames, Len(frames) - 1)
             /\ frames[Len(frames)] = [of |-> data, version |-> thresholds, gone |-> FALSE]
    BY <1>2, <1>4, <1>5, <2>2 DEF MobilePathFits
  <2>3. CASE /\ data # Nothing /\ MobileAllGone(frames, Len(frames))
             /\ \E v \in Nat : MobileIsPath(path, data, v) /\ (v = thresholds \/ "thresholds" \in due)
    <3>1. thresholds \in Nat /\ MobileIsPath(path', data, thresholds)
      BY <1>6, <2>3
    <3>2. MobileIsPath(path, data, thresholds)' /\ thresholds' \in Nat
      BY <1>2, <3>1 DEF MobileIsPath, Mobile!Places, Mobile!sortedSessions, Mobile!colour
    <3> QED
      BY <1>2, <1>4, <2>3, <3>2 DEF MobilePathFits
  <2> QED
    BY <2>1, <2>2, <2>3 DEF MobileDrawnInv, MobilePathFits
<1> QED
  BY <1>3, <1>7

LEMMA MobileRenderKeeps ==
  ASSUME Mobile!MobileAssumption, MobileDrawnInv, Mobile!Render
  PROVE  MobileDrawnInv'
<1>1. MobileTypeInv
  BY DEF MobileDrawnInv
<1>2. /\ due' = {} /\ list' = Mobile!MobileMarkers /\ slide' \in {slide, popover.slide}
      /\ ("answer" \in excused') = ("answer" \in excused)
      /\ (excused' \subseteq {"gone"}) = (excused \subseteq {"gone"})
      /\ UNCHANGED <<sessions, selected, data, calls, thresholds, zoom, popover>>
  BY DEF Mobile!Render, Mobile!net
<1>3. MobileAnswered'
  BY <1>2 DEF MobileDrawnInv, MobileAnswered
<1>4. MobilePopupFits'
  BY <1>2 DEF MobileDrawnInv, MobilePopupFits
<1>5. Mobile!MobileMarkers' = Mobile!MobileMarkers
  BY <1>2 DEF Mobile!MobileMarkers, Mobile!mobilePoints, Mobile!updateMarkers,
      Mobile!areMarkersTooClose
<1>6. CASE selected = Nothing
  <2>1. path' = Nothing /\ frames' = Mobile!Gone(frames) /\ markersLoading' = FALSE
    BY <1>6 DEF Mobile!Render
  <2>2. MobileTypeInv'
    BY <1>1, <1>2, <2>1, MobileGoneAreFrames DEF MobileTypeInv
  <2>3. MobileListFits'
    BY <1>1, <1>2, <1>5, <2>1, MobileGoneAreFrames DEF MobileListFits
  <2>4. MobileLoadingEnds' /\ MobilePathFits'
    BY <1>2, <1>6, <2>1 DEF MobileLoadingEnds, MobilePathFits
  <2> QED
    BY <1>3, <1>4, <2>2, <2>3, <2>4 DEF MobileDrawnInv
<1>7. CASE selected # Nothing
  <2>1. MobileListFits'
    BY <1>2, <1>5, <1>7 DEF MobileListFits
  <2> QED
    BY <1>3, <1>4, <1>7, <2>1, MobileBlankRender, MobileKeepingRender DEF MobileDrawnInv
<1> QED
  BY <1>6, <1>7

LEMMA MobileFrameKeeps ==
  ASSUME Mobile!MobileAssumption, MobileDrawnInv, due = {}, Mobile!AnimationFrame
  PROVE  MobileDrawnInv'
<1> DEFINE f == Head(frames)
<1>1. MobileTypeInv /\ frames # <<>> /\ f \in MobileFrames /\ f = frames[1]
  BY MobileFramesAfter DEF MobileDrawnInv, Mobile!AnimationFrame
<1>2. /\ frames' = Tail(frames) /\ markersLoading' = FALSE
      /\ path' = IF f.gone THEN path ELSE Mobile!Drawn(path, f)
      /\ slide' \in {slide, popover.slide}
      /\ UNCHANGED <<sessions, selected, data, calls, thresholds, zoom, due, list, popover, excused>>
  BY DEF Mobile!AnimationFrame, Mobile!net
<1>3. /\ DOMAIN frames = 1..Len(frames) /\ Len(frames) \in Nat /\ Len(frames) > 0
      /\ frames' \in Seq(MobileFrames) /\ Len(frames') = Len(frames) - 1
      /\ \A i \in 1..Len(frames') : frames'[i] = frames[i + 1]
  BY <1>1, <1>2, MobileFramesAfter
<1> HIDE DEF f
<1>4. MobileTypeInv'
  BY <1>1, <1>2, <1>3 DEF MobileTypeInv
<1>5. MobileLoadingEnds' /\ MobileAnswered'
  BY <1>2 DEF MobileDrawnInv, MobileLoadingEnds, MobileAnswered
<1>6. MobilePopupFits'
  BY <1>2 DEF MobileDrawnInv, MobilePopupFits
<1>7. Mobile!MobileMarkers' = Mobile!MobileMarkers
  BY <1>2 DEF Mobile!MobileMarkers, Mobile!mobilePoints, Mobile!updateMarkers,
      Mobile!areMarkersTooClose
<1>8. DOMAIN frames' = 1..Len(frames')
  BY <1>3
<1>9. MobileListFits'
  <2>1. list' = Mobile!MobileMarkers'
    BY <1>2, <1>7 DEF MobileDrawnInv, MobileListFits
  <2>2. ASSUME selected = Nothing
        PROVE  path' = Nothing /\ \A i \in DOMAIN frames' : frames'[i].gone
    <3>1. path = Nothing /\ \A i \in DOMAIN frames : frames[i].gone
      BY <2>2 DEF MobileDrawnInv, MobileListFits
    <3>2. f.gone
      BY <1>1, <1>3, <3>1
    <3> QED
      BY <1>2, <1>3, <1>8, <3>1, <3>2
  <2> QED
    BY <1>2, <2>1, <2>2 DEF MobileListFits
<1>10. \A n \in 0..Len(frames) : MobileAllGone(frames,
          n) => (n = 0 \/ f.gone) /\ MobileAllGone(frames', n - 1)
  <2> SUFFICES ASSUME NEW n \in 0..Len(frames), MobileAllGone(frames, n)
               PROVE  (n = 0 \/ f.gone) /\ MobileAllGone(frames', n - 1)
    OBVIOUS
  <2> QED
    BY <1>1, <1>2, <1>3 DEF MobileAllGone
<1>11. MobilePathFits'
  <2> SUFFICES ASSUME selected # Nothing, "frame" \notin excused PROVE MobilePathFits'
    BY <1>2 DEF MobilePathFits
  <2>1. CASE path = Mobile!Blank /\ data = Nothing /\ MobileAllGone(frames, Len(frames))
    BY <1>2, <1>3, <1>10, <2>1 DEF MobilePathFits
  <2>2. CASE /\ path = Mobile!Blank /\ data # Nothing
             /\ frames # <<>> /\ MobileAllGone(frames, Len(frames) - 1)
             /\ frames[Len(frames)] = [of |-> data, version |-> thresholds, gone |-> FALSE]
    <3>1. CASE Len(frames) = 1
      <4>1. f = [of |-> data, version |-> thresholds, gone |-> FALSE]
        BY <1>1, <2>2, <3>1
      <4>2. MobileIsPath(path', data, thresholds)
        BY <1>2, <2>2, <4>1, MobileDrawnIsPath
      <4>3. MobileIsPath(path, data, thresholds)' /\ thresholds' \in Nat
        BY <1>1, <1>2, <4>2 DEF MobileIsPath, Mobile!Places, Mobile!sortedSessions, Mobile!colour,
            MobileTypeInv
      <4>4. MobileAllGone(frames', Len(frames'))
        BY <1>3, <3>1 DEF MobileAllGone
      <4> QED
        BY <1>2, <2>2, <4>3, <4>4 DEF MobilePathFits
    <3>2. CASE Len(frames) # 1
      <4>1. f.gone /\ MobileAllGone(frames', Len(frames') - 1)
        BY <1>3, <1>10, <2>2, <3>2
      <4>2. frames'[Len(frames')] = frames[Len(frames)] /\ Len(frames') > 0
        BY <1>3, <3>2
      <4>3. frames' # <<>>
        BY <4>2
      <4>4. MobileAllGone(frames', Len(frames') - 1)
        BY <1>3, <4>1 DEF MobileAllGone
      <4> QED
        BY <1>2, <2>2, <4>1, <4>2, <4>3, <4>4 DEF MobilePathFits
    <3> QED
      BY <3>1, <3>2
  <2>3. CASE /\ data # Nothing /\ MobileAllGone(frames, Len(frames))
             /\ \E v \in Nat : MobileIsPath(path, data, v) /\ (v = thresholds \/ "thresholds" \in due)
    <3>1. f.gone /\ MobileAllGone(frames', Len(frames'))
      BY <1>3, <1>10, <2>3
    <3>2. path' = path /\ MobileAllGone(frames', Len(frames'))
      BY <1>2, <1>3, <3>1 DEF MobileAllGone
    <3>3. PICK v \in Nat : MobileIsPath(path, data, v) /\ v = thresholds
      BY <1>2, <2>3
    <3>4. data' = data
      BY <1>2
    <3>5. MobileIsPath(path', data', v)
      BY <3>2, <3>3, <3>4
    <3> QED
      BY <1>2, <2>3, <3>2, <3>3, <3>5 DEF MobilePathFits
  <2> QED
    BY <2>1, <2>2, <2>3 DEF MobileDrawnInv, MobilePathFits
<1> QED
  BY <1>4, <1>5, <1>6, <1>9, <1>11 DEF MobileDrawnInv

\* What is left as it was when nothing is due.
LEMMA MobilePathStays ==
  ASSUME MobileDrawnInv, due = {}, "stream" \notin due',
         UNCHANGED <<selected, path, data, frames>>,
         selected # Nothing /\ "frame" \notin excused' =>
           /\ "frame" \notin excused
           /\ \/ "thresholds" \notin due' /\ UNCHANGED thresholds
              \/ "thresholds" \in due' /\ frames = <<>>
  PROVE  MobilePathFits'
<1> SUFFICES ASSUME selected # Nothing, "frame" \notin excused' PROVE MobilePathFits'
  BY DEF MobilePathFits
<1>1. /\ MobileAllGone(frames', Len(frames') - 1) = MobileAllGone(frames, Len(frames) - 1)
      /\ MobileAllGone(frames', Len(frames')) = MobileAllGone(frames, Len(frames))
  BY DEF MobileAllGone
<1>2. "frame" \notin excused /\ (("thresholds" \notin due' /\ UNCHANGED thresholds) \/ ("thresholds" \in due' /\ frames = <<>>))
  OBVIOUS
<1>3. CASE path = Mobile!Blank /\ data = Nothing /\ MobileAllGone(frames, Len(frames))
  BY <1>1, <1>3 DEF MobilePathFits
<1>4. CASE /\ path = Mobile!Blank /\ data # Nothing
           /\ frames # <<>> /\ MobileAllGone(frames, Len(frames) - 1)
           /\ frames[Len(frames)] = [of |-> data, version |-> thresholds, gone |-> FALSE]
  BY <1>1, <1>2, <1>4 DEF MobilePathFits
<1>5. CASE /\ data # Nothing /\ MobileAllGone(frames, Len(frames))
           /\ \E v \in Nat : MobileIsPath(path, data, v) /\ (v = thresholds \/ "thresholds" \in due)
  <2> SUFFICES ASSUME NEW v \in Nat, MobileIsPath(path, data, v), v = thresholds PROVE MobilePathFits'
    BY <1>5
  <2>1. MobileIsPath(path', data', v)
    BY DEF MobileIsPath, Mobile!Places, Mobile!sortedSessions, Mobile!colour
  <2> QED
    BY <1>1, <1>2, <1>5, <2>1 DEF MobilePathFits
<1> QED
  BY <1>2, <1>3, <1>4, <1>5 DEF MobileDrawnInv, MobilePathFits

\* The list is drawn anew when something of it changes.
LEMMA MobileListStays ==
  ASSUME MobileDrawnInv, due = {}, UNCHANGED list,
         due' # {} \/ UNCHANGED <<sessions, selected, zoom, path, frames>>
  PROVE  MobileListFits'
<1>1. CASE due' # {}
  BY <1>1 DEF MobileListFits
<1>2. CASE UNCHANGED <<sessions, selected, zoom, path, frames>>
  <2>1. Mobile!MobileMarkers' = Mobile!MobileMarkers
    BY <1>2 DEF Mobile!MobileMarkers, Mobile!mobilePoints, Mobile!updateMarkers,
        Mobile!areMarkersTooClose
  <2> QED
    BY <1>2, <2>1 DEF MobileDrawnInv, MobileListFits
<1> QED
  BY <1>1, <1>2

LEMMA MobileAnswerKeeps ==
  ASSUME Mobile!MobileAssumption, MobileDrawnInv, due = {}, NEW c \in calls, NEW found \in BOOLEAN,
    Mobile!StreamAnswer(c, found)
  PROVE  MobileDrawnInv'
<1>1. MobileTypeInv /\ c \in [of : Opened, nth : {1, 2}]
  BY DEF MobileDrawnInv, MobileTypeInv
<1>2. /\ calls' = calls \ {c} /\ data' = (IF found THEN c.of ELSE Nothing)
      /\ due' = (IF data' = data THEN {} ELSE {"stream"})
      /\ excused \subseteq excused'
      /\ ~(found /\ c.of = selected) => "answer" \in excused'
      /\ frames # <<>> => "frame" \in excused'
      /\ ~(popover = Mobile!NoPopover \/ data' = data) => "popup" \in excused'
      /\ UNCHANGED <<sessions, selected, thresholds, zoom, list, path, frames, markersLoading,
           popover, slide>>
  BY DEF Mobile!StreamAnswer, Mobile!notes
<1>3. MobileTypeInv'
  BY <1>1, <1>2 DEF MobileTypeInv
<1>4. MobileListFits' /\ MobileLoadingEnds'
  BY <1>2, MobileListStays DEF MobileDrawnInv, MobileLoadingEnds
<1>5. MobileAnswered'
  <2> SUFFICES ASSUME selected # Nothing, "answer" \notin excused' PROVE MobileAnswered'
    BY <1>2 DEF MobileAnswered
  <2>1. data' = selected /\ \A d \in calls : d.of = selected
    BY <1>2 DEF MobileDrawnInv, MobileAnswered
  <2> QED
    BY <1>2, <2>1 DEF MobileAnswered
<1>6. MobilePathFits'
  <2>1. CASE data' = data
    BY <1>2, <2>1, MobilePathStays
  <2>2. CASE data' # data
    <3>1. frames = <<>> => MobileAllGone(frames', Len(frames'))
      BY <1>2 DEF MobileAllGone
    <3> QED
      BY <1>2, <2>2, <3>1 DEF MobilePathFits
  <2> QED
    BY <2>1, <2>2
<1>7. MobilePopupFits'
  <2> SUFFICES ASSUME selected # Nothing, popover # Mobile!NoPopover, excused' \subseteq {"gone"}
               PROVE  MobilePopupFits'
    BY <1>2 DEF MobilePopupFits
  <2>1. data' = data /\ excused \subseteq {"gone"}
    BY <1>2
  <2> QED
    BY <1>2, <2>1 DEF MobileDrawnInv, MobilePopupFits
<1> QED
  BY <1>3, <1>4, <1>5, <1>6, <1>7 DEF MobileDrawnInv

LEMMA MobileClickKeeps ==
  ASSUME MobileDrawnInv, due = {}, NEW s \in Opened, Mobile!handleMarkerClick(s)
  PROVE  MobileDrawnInv'
<1>1. MobileTypeInv /\ selected = Nothing
  BY DEF MobileDrawnInv, Mobile!handleMarkerClick, Mobile!createMarker
<1>2. /\ selected' = s /\ calls' = calls \cup {[of |-> s, nth |-> n] : n \in {1, 2}}
      /\ due' = {"list", "stream"}
      /\ "frame" \notin excused'
      /\ "answer" \notin excused' => calls = {}
      /\ excused' \subseteq {"gone"} => popover = Mobile!NoPopover
      /\ UNCHANGED <<sessions, data, thresholds, zoom, list, path, frames, markersLoading, popover,
           slide>>
  BY DEF Mobile!handleMarkerClick, Mobile!notes
<1>3. MobileTypeInv'
  BY <1>1, <1>2 DEF MobileTypeInv
<1>4. MobileListFits' /\ MobileLoadingEnds'
  BY <1>2, MobileListStays DEF MobileDrawnInv, MobileLoadingEnds
<1>5. MobileAnswered'
  BY <1>2 DEF MobileAnswered
<1>6. MobilePathFits'
  <2>1. \A i \in DOMAIN frames : frames[i].gone
    BY <1>1 DEF MobileDrawnInv, MobileListFits
  <2>2. MobileAllGone(frames', Len(frames'))
    BY <1>1, <1>2, <2>1, MobileFramesAfter DEF MobileAllGone
  <2> QED
    BY <1>2, <2>2 DEF MobilePathFits
<1>7. MobilePopupFits'
  BY <1>2 DEF MobilePopupFits
<1> QED
  BY <1>3, <1>4, <1>5, <1>6, <1>7 DEF MobileDrawnInv

LEMMA MobileClosingKeeps ==
  ASSUME MobileDrawnInv, due = {}, Mobile!CloseSession \/ Mobile!Back
  PROVE  MobileDrawnInv'
<1>1. /\ selected' = Nothing /\ due' # {} /\ data' \in {data, Nothing}
      /\ UNCHANGED <<sessions, calls, thresholds, zoom, list, path, frames, markersLoading>>
  BY DEF Mobile!CloseSession, Mobile!Back, Mobile!net
<1>2. MobileTypeInv'
  BY <1>1 DEF MobileDrawnInv, MobileTypeInv
<1>3. MobileListFits' /\ MobileLoadingEnds'
  BY <1>1, MobileListStays DEF MobileDrawnInv, MobileLoadingEnds
<1>4. MobileAnswered' /\ MobilePathFits' /\ MobilePopupFits'
  BY <1>1 DEF MobileAnswered, MobilePathFits, MobilePopupFits
<1> QED
  BY <1>2, <1>3, <1>4 DEF MobileDrawnInv

\* The first note at a place is there.
LEMMA MobileFirstIsThere ==
  ASSUME Mobile!MobileAssumption, NEW s \in Opened, NEW at \in Mobile!Places(s)
  PROVE  Mobile!FirstAt(s, at) \in DOMAIN NotesOf[s] /\ NotesOf[s][Mobile!FirstAt(s, at)] = at
<1> DEFINE K == {k \in DOMAIN NotesOf[s] : NotesOf[s][k] = at}
           m == Min(K)
<1>1. DOMAIN NotesOf[s] = 1..Len(NotesOf[s]) /\ Len(NotesOf[s]) \in Nat
  BY DEF Mobile!MobileAssumption
<1>2. K # {} /\ K \subseteq Nat
  BY <1>1 DEF Mobile!Places
<1>3. m \in K /\ \A y \in K : m <= y
  <2> HIDE DEF K
  <2> QED
    BY <1>2, MinOfNaturals
<1>5. m \in DOMAIN NotesOf[s] /\ NotesOf[s][m] = at
  BY <1>3
<1>10. \A j \in DOMAIN NotesOf[s] : NotesOf[s][j] = at => m <= j
  BY <1>3
<1> HIDE DEF m
<1>4. \A j \in 1..(m - 1) : NotesOf[s][j] # at
  <2> TAKE j \in 1..(m - 1)
  <2>1. m \in 1..Len(NotesOf[s]) /\ j < m
    BY <1>1, <1>5
  <2>2. j \in DOMAIN NotesOf[s]
    BY <2>1, <1>1
  <2> QED
    BY <2>1, <2>2, <1>1, <1>10
<1>6. \E k \in DOMAIN NotesOf[s] : NotesOf[s][k] = at /\ \A j \in 1..(k - 1) : NotesOf[s][j] # at
  BY <1>4, <1>5
<1> DEFINE P(k) == NotesOf[s][k] = at /\ \A j \in 1..(k - 1) : NotesOf[s][j] # at
<1>7. Mobile!FirstAt(s, at) = CHOOSE k \in DOMAIN NotesOf[s] : P(k)
  BY DEF Mobile!FirstAt
<1>8. \E k \in DOMAIN NotesOf[s] : P(k)
  BY <1>6
<1>9. P(Mobile!FirstAt(s, at)) /\ Mobile!FirstAt(s, at) \in DOMAIN NotesOf[s]
  <2> HIDE DEF P
  <2> QED
    BY <1>7, <1>8
<1> QED
  BY <1>9

\* What changes but the popup.
LEMMA MobilePopupKeeps ==
  ASSUME MobileDrawnInv, due = {},
         UNCHANGED <<sessions, selected, data, calls, thresholds, zoom, due, list, path, frames,
           markersLoading, excused>>,
         MobilePopupFits'
  PROVE  MobileDrawnInv'
<1>1. MobileTypeInv' /\ MobileListFits' /\ MobileLoadingEnds' /\ MobileAnswered'
  BY MobileListStays DEF MobileDrawnInv, MobileTypeInv, MobileLoadingEnds, MobileAnswered
<1>2. MobilePathFits'
  BY MobilePathStays
<1> QED
  BY <1>1, <1>2 DEF MobileDrawnInv

\* A path with notes is the one that is drawn.
LEMMA MobileNotesAreOfTheStream ==
  ASSUME Mobile!MobileAssumption, MobileDrawnInv, due = {}, path # Nothing, selected # Nothing,
    excused \subseteq {"gone"},
         NEW at \in DOMAIN path.notes
  PROVE  data \in Opened /\ path.notes[at] = data /\ at \in Mobile!Places(data)
<1>1. DOMAIN Mobile!Blank.notes = {}
  BY DEF Mobile!Blank
<1>2. path # Mobile!Blank
  BY <1>1
<1>3. PICK v \in Nat : data # Nothing /\ MobileIsPath(path, data, v)
  BY <1>2 DEF MobileDrawnInv, MobilePathFits
<1>4. path.notes = [x \in Mobile!Places(data) |-> data]
  BY <1>3 DEF MobileIsPath
<1> QED
  BY <1>3, <1>4 DEF MobileDrawnInv, MobileTypeInv

LEMMA MobileNotesKeep ==
  ASSUME Mobile!MobileAssumption, MobileDrawnInv, due = {},
         \/ \E at \in UNION {Mobile!Places(s) : s \in Opened} : Mobile!onOpen(at)
         \/ \E k \in UNION {DOMAIN NotesOf[s] : s \in Opened} : Mobile!onSlideChange(k)
         \/ Mobile!closePopover
  PROVE  MobileDrawnInv'
<1>1. ASSUME NEW at, Mobile!onOpen(at) PROVE MobileDrawnInv'
  <2> DEFINE k == Mobile!FirstAt(path.notes[at], at)
  <2>1. /\ path # Nothing /\ at \in DOMAIN path.notes
        /\ popover' = [key |-> at, slide |-> k] /\ slide' = k
        /\ UNCHANGED <<sessions, selected, data, calls, thresholds, zoom, due, list, path, frames,
                       markersLoading, excused>>
    BY <1>1 DEF Mobile!onOpen, Mobile!openPopover, Mobile!net
  <2>2. ASSUME selected # Nothing, excused \subseteq {"gone"}
        PROVE  data # Nothing /\ k \in DOMAIN NotesOf[data] /\ NotesOf[data][k] = at
    <3>1. data \in Opened /\ path.notes[at] = data /\ at \in Mobile!Places(data)
      BY <2>1, <2>2, MobileNotesAreOfTheStream
    <3> QED
      BY <3>1, MobileFirstIsThere DEF Mobile!MobileAssumption
  <2> HIDE DEF k
  <2>3. MobilePopupFits'
    BY <2>1, <2>2 DEF MobilePopupFits
  <2> QED
    BY <2>1, <2>3, MobilePopupKeeps
<1>2. ASSUME NEW k, Mobile!onSlideChange(k) PROVE MobileDrawnInv'
  <2> DEFINE places == NotesOf[path.notes[popover.key]]
  <2>1. /\ path # Nothing /\ popover.key \in DOMAIN path.notes /\ k \in DOMAIN places
        /\ slide' = k
        /\ IF places[k] # popover.key THEN popover' = [key |-> places[k],
             slide |-> k] ELSE UNCHANGED popover
        /\ UNCHANGED <<sessions, selected, data, calls, thresholds, zoom, due, list, path, frames,
                       markersLoading, excused>>
    BY <1>2 DEF Mobile!onSlideChange, Mobile!Open, Mobile!openPopover, Mobile!net
  <2>2. ASSUME selected # Nothing, excused \subseteq {"gone"}
        PROVE  data \in Opened /\ path.notes[popover.key] = data /\ popover.key \in Mobile!Places(data)
    BY <2>1, <2>2, MobileNotesAreOfTheStream
  <2>3. MobilePopupFits'
    <3> SUFFICES ASSUME selected # Nothing, popover' # Mobile!NoPopover, excused \subseteq {"gone"}
                 PROVE  MobilePopupFits'
      BY <2>1 DEF MobilePopupFits
    <3>1. data \in Opened /\ data # Nothing /\ places = NotesOf[data] /\ popover.key # Nothing
      BY <2>2 DEF Mobile!MobileAssumption
    <3>2. popover # Mobile!NoPopover
      BY <3>1 DEF Mobile!NoPopover
    <3>3. popover.slide \in DOMAIN places /\ places[popover.slide] = popover.key
      BY <3>1, <3>2 DEF MobileDrawnInv, MobilePopupFits
    <3>4. CASE places[k] # popover.key
      BY <2>1, <3>1, <3>4 DEF MobilePopupFits
    <3>5. CASE places[k] = popover.key
      BY <2>1, <3>1, <3>3, <3>5 DEF MobilePopupFits
    <3> QED
      BY <3>4, <3>5
  <2> QED
    BY <2>1, <2>3, MobilePopupKeeps
<1>3. CASE Mobile!closePopover
  <2>1. /\ popover' = Mobile!NoPopover
        /\ UNCHANGED <<sessions, selected, data, calls, thresholds, zoom, due, list, path, frames,
                       markersLoading, excused>>
    BY <1>3 DEF Mobile!closePopover, Mobile!net
  <2> QED
    BY <2>1, MobilePopupKeeps DEF MobilePopupFits
<1> QED
  BY <1>1, <1>2, <1>3

LEMMA MobileMapKeeps ==
  ASSUME MobileDrawnInv, due = {},
         (\E s \in SUBSET Opened : Mobile!SessionsArrive(s)) \/ (\E z \in Mobile!Zooms : Mobile!handleMapIdle(z)) \/ Mobile!ThresholdsChange
  PROVE  MobileDrawnInv'
<1>1. /\ sessions' \subseteq Opened /\ thresholds' \in Nat
      /\ due' \in {{"list"}, {"list", "thresholds"}}
      /\ excused \subseteq excused' /\ ("answer" \in excused') = ("answer" \in excused)
      /\ ("thresholds" \notin due' /\ UNCHANGED <<thresholds, excused>>)
            \/ ("thresholds" \in due' /\ (frames # <<>> => "frame" \in excused'))
      /\ UNCHANGED <<selected, data, calls, list, path, frames, markersLoading, popover, slide>>
  BY DEF MobileDrawnInv, MobileTypeInv, Mobile!SessionsArrive, Mobile!handleMapIdle,
      Mobile!ThresholdsChange, Mobile!net, Mobile!notes
<1>2. MobileTypeInv'
  BY <1>1 DEF MobileDrawnInv, MobileTypeInv
<1>3. MobileListFits' /\ MobileLoadingEnds' /\ MobileAnswered'
  BY <1>1, MobileListStays DEF MobileDrawnInv, MobileLoadingEnds, MobileAnswered
<1>4. MobilePathFits'
  BY <1>1, MobilePathStays
<1>5. MobilePopupFits'
  BY <1>1 DEF MobileDrawnInv, MobilePopupFits
<1> QED
  BY <1>2, <1>3, <1>4, <1>5 DEF MobileDrawnInv

-----------------------------------------------------------------------------
(* The theorems. *)

\* What is left on the map, and by whom.
LEMMA MobileGoneKeeps ==
  ASSUME MobileTypeInv, MobileGoneIsExcused, Mobile!Next
  PROVE  MobileGoneIsExcused'
<1>1. CASE Mobile!Render
  <2>1. UNCHANGED left /\ excused \subseteq excused'
    BY <1>1 DEF Mobile!Render
  <2>2. CASE selected = Nothing
    <3>1. frames' = Mobile!Gone(frames) /\ (frames # <<>> => "gone" \in excused')
      BY <1>1, <2>2 DEF Mobile!Render
    <3>2. frames = <<>> => DOMAIN frames' = {}
      BY <3>1 DEF Mobile!Gone
    <3> QED
      BY <2>1, <3>1, <3>2 DEF MobileGoneIsExcused
  <2>3. CASE selected # Nothing
    <3> DEFINE f == [of |-> data, version |-> thresholds, gone |-> FALSE]
    <3>1. frames' = frames \/ (data # Nothing /\ frames' = Append(frames, f))
      BY <1>1, <2>3 DEF Mobile!Render
    <3>2. CASE frames' = frames
      BY <2>1, <3>2 DEF MobileGoneIsExcused
    <3>3. CASE data # Nothing /\ frames' = Append(frames, f)
      <4>1. f \in MobileFrames /\ ~f.gone
        BY <3>3 DEF MobileTypeInv, MobileFrames
      <4> HIDE DEF f
      <4>2. /\ DOMAIN frames = 1..Len(frames) /\ Len(frames) \in Nat
            /\ frames' \in Seq(MobileFrames) /\ Len(frames') = Len(frames) + 1
            /\ frames'[Len(frames) + 1] = f /\ \A i \in 1..Len(frames) : frames'[i] = frames[i]
        BY <3>3, <4>1, MobileFramesAfter
      <4>3. DOMAIN frames' = 1..(Len(frames) + 1)
        BY <4>2
      <4> QED
        BY <2>1, <4>1, <4>2, <4>3 DEF MobileGoneIsExcused
    <3> QED
      BY <3>1, <3>2, <3>3
  <2> QED
    BY <2>2, <2>3
<1>2. CASE Mobile!AnimationFrame
  <2>1. /\ frames # <<>> /\ frames' = Tail(frames) /\ UNCHANGED excused
        /\ left' = IF Head(frames).gone THEN left \cup {Head(frames).of} ELSE left
    BY <1>2 DEF Mobile!AnimationFrame
  <2>2. /\ DOMAIN frames = 1..Len(frames) /\ Len(frames) \in Nat /\ Len(frames) > 0
        /\ Head(frames) = frames[1]
        /\ frames' \in Seq(MobileFrames) /\ Len(frames') = Len(frames) - 1
        /\ \A i \in 1..(Len(frames) - 1) : frames'[i] = frames[i + 1]
    BY <2>1, MobileFramesAfter
  <2>3. DOMAIN frames' = 1..(Len(frames) - 1)
    BY <2>2
  <2> QED
    BY <2>1, <2>2, <2>3 DEF MobileGoneIsExcused
<1>3. CASE Mobile!Page /\ ~Mobile!AnimationFrame
  <2>1. UNCHANGED <<frames, left>> /\ ("gone" \in excused => "gone" \in excused')
    BY <1>3 DEF Mobile!Page, Mobile!StreamAnswer, Mobile!handleMarkerClick, Mobile!CloseSession,
        Mobile!Back, Mobile!onOpen, Mobile!onSlideChange, Mobile!closePopover,
        Mobile!SessionsArrive, Mobile!handleMapIdle, Mobile!ThresholdsChange
  <2> QED
    BY <2>1 DEF MobileGoneIsExcused
<1> QED
  BY <1>1, <1>2, <1>3 DEF Mobile!Next

LEMMA MobileInitHolds == Mobile!Init => MobileIInv
<1> SUFFICES ASSUME Mobile!Init PROVE MobileIInv
  OBVIOUS
<1>1. frames \in Seq(MobileFrames)
  BY DEF Mobile!Init
<1>2. MobileTypeInv
  BY <1>1 DEF Mobile!Init, MobileTypeInv
<1> QED
  BY <1>2 DEF Mobile!Init, MobileIInv, MobileDrawnInv, MobileListFits, MobileLoadingEnds,
      MobileAnswered, MobilePathFits, MobilePopupFits, MobileGoneIsExcused

LEMMA MobileDrawnKeeps == Mobile!MobileAssumption /\ MobileDrawnInv /\ [Mobile!Next]_(Mobile!vars) => MobileDrawnInv'
<1> SUFFICES ASSUME Mobile!MobileAssumption, MobileDrawnInv, [Mobile!Next]_(Mobile!vars) PROVE MobileDrawnInv'
  OBVIOUS
<1>1. CASE Mobile!Render
  BY <1>1, MobileRenderKeeps
<1>2. CASE due = {} /\ Mobile!Page
  BY <1>2, MobileFrameKeeps, MobileAnswerKeeps, MobileClickKeeps, MobileClosingKeeps,
      MobileNotesKeep, MobileMapKeeps DEF Mobile!Page
<1>3. CASE UNCHANGED Mobile!vars
  <2>1. UNCHANGED <<sessions, selected, data, calls, thresholds, zoom, due, list, path, frames,
                    markersLoading, popover, slide, excused>>
    BY <1>3 DEF Mobile!vars, Mobile!net, Mobile!notes
  <2>2. Mobile!MobileMarkers' = Mobile!MobileMarkers
    BY <2>1 DEF Mobile!MobileMarkers, Mobile!mobilePoints, Mobile!updateMarkers,
        Mobile!areMarkersTooClose
  <2>3. MobileTypeInv' /\ MobileListFits' /\ MobileLoadingEnds' /\ MobileAnswered' /\ MobilePopupFits'
    BY <2>1, <2>2 DEF MobileDrawnInv, MobileTypeInv, MobileListFits, MobileLoadingEnds, MobileAnswered,
        MobilePopupFits
  <2>4. MobilePathFits'
    BY <2>1 DEF MobileDrawnInv, MobilePathFits
  <2> QED
    BY <2>3, <2>4 DEF MobileDrawnInv
<1> QED
  BY <1>1, <1>2, <1>3 DEF Mobile!Next

LEMMA MobileNextKeeps == Mobile!MobileAssumption /\ MobileIInv /\ [Mobile!Next]_(Mobile!vars) => MobileIInv'
<1> SUFFICES ASSUME Mobile!MobileAssumption, MobileIInv, [Mobile!Next]_(Mobile!vars) PROVE MobileIInv'
  OBVIOUS
<1>1. MobileDrawnInv'
  BY MobileDrawnKeeps DEF MobileIInv
<1>2. CASE Mobile!Next
  <2>1. MobileGoneIsExcused'
    BY <1>2, MobileGoneKeeps DEF MobileIInv, MobileDrawnInv
  <2> QED
    BY <1>1, <2>1 DEF MobileIInv
<1>3. CASE UNCHANGED Mobile!vars
  BY <1>1, <1>3 DEF Mobile!vars, MobileIInv, MobileGoneIsExcused
<1> QED
  BY <1>2, <1>3

LEMMA MobileInvImplies == Mobile!MobileAssumption /\ MobileIInv => Mobile!PathIsOfTheSession
<1> SUFFICES ASSUME Mobile!MobileAssumption, MobileIInv, Mobile!Rests PROVE Mobile!PathIsOfTheSession
  BY DEF Mobile!PathIsOfTheSession
<1>1. due = {} /\ frames = <<>>
  BY DEF Mobile!Rests
<1>2. ~markersLoading /\ list = Mobile!MobileMarkers /\ (selected = Nothing => path = Nothing)
  BY <1>1 DEF MobileIInv, MobileDrawnInv, MobileLoadingEnds, MobileListFits
<1>4. "gone" \notin excused => left = {}
  BY DEF MobileIInv, MobileGoneIsExcused
<1>3. ASSUME selected # Nothing, calls = {}, excused \subseteq {"popup", "gone"}
      PROVE  /\ path.line = selected
             /\ DOMAIN path.points = Mobile!sortedSessions(selected)
             /\ \A i \in DOMAIN path.points :
                  path.points[i] = [at |-> PathOf[selected][i], colour |-> Mobile!colour(selected,
                    i, thresholds)]
             /\ path.notes = [at \in Mobile!Places(selected) |-> selected]
             /\ Mobile!Open /\ "popup" \notin excused =>
                  slide \in DOMAIN NotesOf[selected] /\ NotesOf[selected][slide] = popover.key
  <2>1. data = selected
    <3>1. [of |-> selected, nth |-> 1] \in {[of |-> selected, nth |-> n] : n \in {1, 2}}
      OBVIOUS
    <3> QED
      BY <1>3, <3>1 DEF MobileIInv, MobileDrawnInv, MobileAnswered
  <2>2. MobileIsPath(path, selected, thresholds)
    BY <1>1, <1>3, <2>1 DEF MobileIInv, MobileDrawnInv, MobilePathFits
  <2>3. path.line = selected /\ path.notes = [at \in Mobile!Places(selected) |-> selected]
    BY <2>2 DEF MobileIsPath
  <2>4. path.points = [i \in Mobile!sortedSessions(selected) |->
                         [at |-> PathOf[selected][i], colour |-> Mobile!colour(selected, i,
                           thresholds)]]
    BY <2>2 DEF MobileIsPath
  <2>5. ASSUME Mobile!Open, "popup" \notin excused
        PROVE  slide \in DOMAIN NotesOf[selected] /\ NotesOf[selected][slide] = popover.key
    <3>1. popover.key \in Mobile!Places(selected)
      BY <2>3, <2>5 DEF Mobile!Open
    <3>2. popover # Mobile!NoPopover
      BY <1>3, <3>1 DEF Mobile!NoPopover, Mobile!MobileAssumption, MobileIInv, MobileDrawnInv,
          MobileTypeInv
    <3> QED
      BY <1>3, <2>1, <2>5, <3>2 DEF MobileIInv, MobileDrawnInv, MobilePopupFits
  <2> QED
    BY <2>3, <2>4, <2>5
<1> QED
  BY <1>2, <1>3, <1>4 DEF Mobile!PathIsOfTheSession

-----------------------------------------------------------------------------
(* The timelapse. *)

LapseSessions == [sessions : Nat, value : Int]
LapseMarks == [cluster : BOOLEAN, session : LapseSessions, thresholds : Nat,
  label : LapseSessions \cup {Nothing}]

\* A marker has a label unless it is a cluster.
LapseFit(m) == \A p \in DOMAIN m : m[p] \in LapseMarks /\ (m[p].label = Nothing) = m[p].cluster

LapseTypeInv ==
  /\ view \in BOOLEAN /\ shown \in BOOLEAN
  /\ fixedPoints \in Nat /\ asked \in Nat \cup {Nothing}
  /\ data \in [of : Nat \cup {Nothing}, hours : Answers \cup {<<>>}]
  /\ timeRange \in Nat /\ currentStep \in Int
  /\ drag \in [on : BOOLEAN, to : Int \cup {Nothing}]
  /\ thresholds \in Nat
  /\ LapseFit(markers)

\* The controls and the markers are there while the timelapse is open and has its hours.
LapseControlled ==
  /\ drag.on \/ isPlaying => shown
  /\ due = {} /\ shown => view
  /\ shown => status # "pending"
  /\ ~shown => markers = Lapse!None

\* The hours are those of the points on the map, or are asked for.
LapseAsked ==
  view /\ due \cap {"view", "points"} = {} /\ "dropped" \notin excused =>
    IF status = "pending" THEN asked = fixedPoints
    ELSE "failed" \in excused \/ data.of = fixedPoints

\* The hour is the one of the step, and a drag goes to a step there is.
LapseStepIsShown ==
  /\ view /\ due \cap {"view", "hours"} = {} /\ Lapse!totalSteps > 0 /\ "dragged" \notin excused =>
       currentStep \in 0..(Lapse!totalSteps - 1) /\ currentTimestamp = Lapse!TimeOf(currentStep)
  /\ drag.on /\ drag.to # Nothing /\ view /\ "dragged" \notin excused =>
       drag.to \in Lapse!calculateStepFromPosition

\* The markers drawn anew for an hour.
LapseDrawn(t) ==
  IF Lapse!Hour(t) = 0 THEN Lapse!None
  ELSE [p \in DOMAIN data.hours[Lapse!Hour(t)].at |-> Lapse!createNewMarker(data.hours[Lapse!Hour(t)].at[p])]

LapseMarkersAreDrawn == due = {} /\ shown => markers = LapseDrawn(currentTimestamp)

\* The inductive invariant.
LapseIInv == LapseTypeInv /\ LapseControlled /\ LapseAsked /\ LapseStepIsShown /\ LapseMarkersAreDrawn

-----------------------------------------------------------------------------
(* Hours and markers. *)

LEMMA LapseHoursAreProper ==
  ASSUME Lapse!AnswersAssumption, LapseTypeInv
  PROVE  LET hours == data.hours
         IN  /\ Len(hours) \in Nat /\ DOMAIN hours = 1..Len(hours)
             /\ hours \in Seq(Lapse!Range(hours))
             /\ \A i, j \in DOMAIN hours : hours[i].t = hours[j].t => i = j
             /\ \A i \in DOMAIN hours : /\ hours[i].age \in Nat /\ hours[i].t # Nothing
                                        /\ hours[i].at \in [DOMAIN hours[i].at -> LapseSessions]
<1> DEFINE hours == data.hours
<1>1. hours \in Answers \/ hours = <<>>
  BY DEF LapseTypeInv
<1>2. CASE hours \in Answers
  <2>1. hours \in Seq(Lapse!Range(hours))
    BY <1>2 DEF Lapse!AnswersAssumption
  <2>2. Len(hours) \in Nat /\ DOMAIN hours = 1..Len(hours)
    BY <2>1
  <2>3. \A i, j \in DOMAIN hours : i < j => hours[i].t # hours[j].t
    BY <1>2 DEF Lapse!AnswersAssumption
  <2>4. ASSUME NEW i \in DOMAIN hours, NEW j \in DOMAIN hours, hours[i].t = hours[j].t
        PROVE  i = j
    BY <2>2, <2>3, <2>4
  <2> QED
    BY <1>2, <2>1, <2>2, <2>4 DEF Lapse!AnswersAssumption, LapseSessions
<1>3. CASE hours = <<>>
  <2>1. DOMAIN hours = {} /\ Len(hours) = 0 /\ hours \in Seq(Lapse!Range(hours))
    BY <1>3
  <2> QED
    BY <2>1
<1> QED
  BY <1>1, <1>2, <1>3

\* An hour is found by its time.
LEMMA LapseHourOfItsTime ==
  ASSUME Lapse!AnswersAssumption, LapseTypeInv, NEW i \in DOMAIN data.hours
  PROVE  Lapse!Hour(data.hours[i].t) = i
<1> DEFINE I == {j \in 1..Len(data.hours) : data.hours[j].t = data.hours[i].t}
<1>1. DOMAIN data.hours = 1..Len(data.hours) /\ Len(data.hours) \in Nat
  BY LapseHoursAreProper
<1>2. I = {i}
  BY <1>1, LapseHoursAreProper
<1>3. Lapse!Max(I) = i
  BY <1>1, <1>2 DEF Lapse!Max
<1>4. Lapse!Hour(data.hours[i].t) = IF I # {} THEN Lapse!Max(I) ELSE 0
  BY DEF Lapse!Hour, Lapse!SelectLastInSeq
<1> QED
  BY <1>2, <1>3, <1>4

LEMMA LapseHourIsThere ==
  ASSUME Lapse!AnswersAssumption, LapseTypeInv, NEW t, Lapse!Hour(t) # 0
  PROVE  Lapse!Hour(t) \in DOMAIN data.hours
<1> DEFINE I == {j \in 1..Len(data.hours) : data.hours[j].t = t}
<1>1. Lapse!Hour(t) = IF I # {} THEN Lapse!Max(I) ELSE 0
  BY DEF Lapse!Hour, Lapse!SelectLastInSeq
<1>2. PICK j \in I : TRUE
  BY <1>1
<1>3. j \in DOMAIN data.hours
  BY LapseHoursAreProper
<1> QED
  BY <1>2, <1>3, LapseHourOfItsTime

\* The least of the hours that are recent enough.
LEMMA LapseMinIsMember ==
  ASSUME NEW n \in Nat, NEW S \in SUBSET 1..n, S # {}
  PROVE  Lapse!Min(S) \in S
<1>1. S \subseteq Nat
  OBVIOUS
<1> QED
  BY <1>1, MinOfNaturals, LapseMin

\* The steps are of the hours.
LEMMA LapseStepsAreHours ==
  ASSUME Lapse!AnswersAssumption, LapseTypeInv
  PROVE  /\ Lapse!totalSteps \in Nat
         /\ DOMAIN Lapse!filterTimestamps = 1..Lapse!totalSteps
         /\ \A k \in 1..Lapse!totalSteps : \E i \in DOMAIN data.hours : Lapse!filterTimestamps[k] = data.hours[i]
<1> DEFINE hours == data.hours
           recent == {i \in DOMAIN hours : hours[i].age < timeRange}
           m == Lapse!Min(recent)
           n == Len(hours)
<1>1. n \in Nat /\ DOMAIN hours = 1..n /\ hours \in Seq(Lapse!Range(hours))
  BY LapseHoursAreProper
<1>2. CASE recent = {}
  BY <1>1, <1>2 DEF Lapse!filterTimestamps, Lapse!totalSteps
<1>3. CASE recent # {}
  <2>1. m \in 1..n
    BY <1>1, <1>3, LapseMinIsMember
  <2>2. Lapse!filterTimestamps = SubSeq(hours, m, n)
    BY <1>3 DEF Lapse!filterTimestamps
  <2> HIDE DEF m, n, hours, recent
  <2>3. /\ Len(SubSeq(hours, m, n)) = n - m + 1
        /\ DOMAIN SubSeq(hours, m, n) = 1..(n - m + 1)
        /\ \A k \in 1..(n - m + 1) : SubSeq(hours, m, n)[k] = hours[m + k - 1]
    BY <1>1, <2>1, SubSeqProperties
  <2>4. ASSUME NEW k \in 1..(n - m + 1) PROVE m + k - 1 \in DOMAIN hours
    BY <1>1, <2>1
  <2>5. Lapse!totalSteps = n - m + 1 /\ Lapse!totalSteps \in Nat
    BY <1>1, <2>1, <2>2, <2>3 DEF Lapse!totalSteps
  <2>6. DOMAIN Lapse!filterTimestamps = 1..Lapse!totalSteps
    BY <2>2, <2>3, <2>5
  <2>7. ASSUME NEW k \in 1..Lapse!totalSteps
        PROVE  \E i \in DOMAIN hours : Lapse!filterTimestamps[k] = hours[i]
    BY <2>2, <2>3, <2>4, <2>5
  <2> QED
    BY <2>5, <2>6, <2>7 DEF hours
<1> QED
  BY <1>2, <1>3

LEMMA LapseStepsOfTheAxis ==
  ASSUME Lapse!AnswersAssumption, LapseTypeInv
  PROVE  /\ Lapse!calculateStepFromPosition \subseteq Int
         /\ Lapse!totalSteps > 0 => Lapse!calculateStepFromPosition = 0..(Lapse!totalSteps - 1)
BY LapseStepsAreHours DEF Lapse!calculateStepFromPosition

\* Whether markers are kept or made anew, they look alike.
LEMMA LapseMarkersAsDrawn ==
  ASSUME Lapse!AnswersAssumption, LapseTypeInv, NEW t
  PROVE  Lapse!TimelapseMarkers(t) = LapseDrawn(t) /\ LapseFit(LapseDrawn(t))
<1>1. CASE Lapse!Hour(t) = 0
  BY <1>1 DEF Lapse!TimelapseMarkers, LapseDrawn, Lapse!None, LapseFit
<1>2. CASE Lapse!Hour(t) # 0
  <2> DEFINE at == data.hours[Lapse!Hour(t)].at
  <2>1. at \in [DOMAIN at -> LapseSessions]
    BY <1>2, LapseHourIsThere, LapseHoursAreProper
  <2>2. ASSUME NEW s \in LapseSessions
        PROVE  /\ Lapse!createNewMarker(s) \in LapseMarks
               /\ (Lapse!createNewMarker(s).label = Nothing) = Lapse!createNewMarker(s).cluster
    BY <2>2 DEF Lapse!createNewMarker, Lapse!isCluster, LapseMarks, LapseSessions, LapseTypeInv,
        Lapse!AnswersAssumption
  <2>3. ASSUME NEW s \in LapseSessions, NEW m \in LapseMarks, (m.label = Nothing) = m.cluster
        PROVE  Lapse!updateExistingMarker(m, s) = Lapse!createNewMarker(s)
    <3>1. CASE Lapse!isCluster(s) # m.cluster
      BY <3>1 DEF Lapse!updateExistingMarker
    <3>2. CASE Lapse!isCluster(s) = m.cluster
      <4>1. Lapse!updateExistingMarker(m, s) = Lapse!updateMarker(m, s)
        BY <3>2 DEF Lapse!updateExistingMarker
      <4>2. Lapse!updateMarker(m, s) = [cluster |-> m.cluster, session |-> s, thresholds |-> thresholds,
                                        label |-> IF m.label = Nothing THEN Nothing ELSE s]
        <5> DEFINE l == IF m.label = Nothing THEN Nothing ELSE s
        <5>1. Lapse!updateMarker(m, s) = [m EXCEPT !.session = s, !.thresholds = thresholds,
                 !.label = l]
          BY DEF Lapse!updateMarker
        <5>2. m = [cluster |-> m.cluster, session |-> m.session, thresholds |-> m.thresholds,
                 label |-> m.label]
          BY DEF LapseMarks
        <5> HIDE DEF l
        <5>3. Lapse!updateMarker(m, s) = [cluster |-> m.cluster, session |-> s,
                 thresholds |-> thresholds, label |-> l]
          BY <5>1, <5>2
        <5> QED
          BY <5>3 DEF l
      <4>3. m.cluster \in BOOLEAN /\ Lapse!isCluster(s) \in BOOLEAN
        BY DEF LapseMarks, Lapse!isCluster
      <4>4. CASE Lapse!isCluster(s)
        <5>1. m.cluster = TRUE /\ m.label = Nothing
          BY <2>3, <3>2, <4>3, <4>4
        <5>2. Lapse!createNewMarker(s) = [cluster |-> TRUE, session |-> s, thresholds |-> thresholds,
                                          label |-> Nothing]
          BY <4>3, <4>4 DEF Lapse!createNewMarker
        <5> QED
          BY <4>1, <4>2, <5>1, <5>2
      <4>5. CASE ~Lapse!isCluster(s)
        <5>1. m.cluster = FALSE /\ m.label # Nothing
          BY <2>3, <3>2, <4>3, <4>5
        <5>2. Lapse!createNewMarker(s) = [cluster |-> FALSE, session |-> s, thresholds |-> thresholds,
                                          label |-> s]
          BY <4>3, <4>5 DEF Lapse!createNewMarker
        <5> QED
          BY <4>1, <4>2, <5>1, <5>2
      <4> QED
        BY <4>4, <4>5
    <3> QED
      BY <3>1, <3>2
  <2>4. ASSUME NEW p \in DOMAIN at, p \in DOMAIN markers
        PROVE  Lapse!updateExistingMarker(markers[p], at[p]) = Lapse!createNewMarker(at[p])
    BY <2>1, <2>3, <2>4 DEF LapseTypeInv, LapseFit
  <2>5. Lapse!TimelapseMarkers(t) = [p \in DOMAIN at |-> Lapse!createNewMarker(at[p])]
    BY <1>2, <2>4 DEF Lapse!TimelapseMarkers
  <2>6. LapseDrawn(t) = [p \in DOMAIN at |-> Lapse!createNewMarker(at[p])]
    BY <1>2 DEF LapseDrawn
  <2> HIDE DEF at
  <2> QED
    BY <2>1, <2>2, <2>5, <2>6 DEF LapseFit
<1> QED
  BY <1>1, <1>2

-----------------------------------------------------------------------------
(* What keeps the invariant. *)

LEMMA LapseRenderKeeps ==
  ASSUME Lapse!AnswersAssumption, LapseIInv, Lapse!Render
  PROVE  LapseIInv'
<1>1. LapseTypeInv /\ due' = {}
  BY DEF LapseIInv, Lapse!Render
<1>2. UNCHANGED <<view, fixedPoints, data, timeRange, thresholds>>
  BY DEF Lapse!Render
<1>3. Lapse!totalSteps' = Lapse!totalSteps /\ Lapse!filterTimestamps' = Lapse!filterTimestamps
  BY <1>2 DEF Lapse!totalSteps, Lapse!filterTimestamps
<1>4. \A s : Lapse!TimeOf(s)' = Lapse!TimeOf(s)
  BY <1>3 DEF Lapse!TimeOf
<1>5. Lapse!calculateStepFromPosition' = Lapse!calculateStepFromPosition
  BY <1>3 DEF Lapse!calculateStepFromPosition
<1>6. \A t : LapseDrawn(t)' = LapseDrawn(t)
  BY <1>2 DEF LapseDrawn, Lapse!Hour, Lapse!SelectLastInSeq, Lapse!createNewMarker, Lapse!isCluster
<1>7. markers' = IF shown' THEN LapseDrawn(currentTimestamp') ELSE Lapse!None
  <2>1. markers' = IF shown' THEN Lapse!TimelapseMarkers(currentTimestamp') ELSE Lapse!None
    BY DEF Lapse!Render
  <2> QED
    BY <1>1, <2>1, LapseMarkersAsDrawn
<1>8. LapseFit(markers)'
  BY <1>1, <1>7, LapseMarkersAsDrawn DEF LapseFit, Lapse!None
<1>9. drag' \in {drag, Lapse!NoDrag} /\ (drag'.on => drag' = drag /\ shown' /\ shown)
  BY <1>1 DEF Lapse!Render, Lapse!NoDrag
<1>10. LapseTypeInv'
  <2>1. shown' \in BOOLEAN /\ currentStep' \in Int /\ asked' \in Nat \cup {Nothing}
    BY <1>1 DEF Lapse!Render, LapseTypeInv
  <2>2. drag' \in [on : BOOLEAN, to : Int \cup {Nothing}]
    <3>1. Lapse!NoDrag \in [on : BOOLEAN, to : Int \cup {Nothing}]
      BY DEF Lapse!NoDrag
    <3> QED
      BY <1>1, <1>9, <3>1 DEF LapseTypeInv
  <2> QED
    BY <1>1, <1>2, <1>8, <2>1, <2>2 DEF LapseTypeInv
<1>11. LapseControlled'
  <2>1. (isPlaying' => shown') /\ (shown' => view /\ status' # "pending")
    BY DEF Lapse!Render
  <2> QED
    BY <1>1, <1>2, <1>7, <1>9, <2>1 DEF LapseControlled
<1>12. LapseAsked'
  <2> SUFFICES ASSUME view, "dropped" \notin excused'
               PROVE  IF status' = "pending" THEN asked' = fixedPoints
                      ELSE "failed" \in excused' \/ data.of = fixedPoints
    BY <1>2 DEF LapseAsked
  <2>1. CASE Lapse!Asks
    BY <2>1 DEF Lapse!Render
  <2>2. CASE ~Lapse!Asks
    <3>1. due \cap {"view", "points"} = {} /\ UNCHANGED <<status, asked>>
      BY <2>2 DEF Lapse!Asks, Lapse!Render
    <3>2. "dropped" \notin excused /\ ("failed" \in excused => "failed" \in excused')
      BY <2>2 DEF Lapse!Render
    <3> QED
      BY <3>1, <3>2 DEF LapseIInv, LapseAsked
  <2> QED
    BY <2>1, <2>2
<1>13. LapseStepIsShown'
  <2>1. ASSUME view, Lapse!totalSteps > 0, "dragged" \notin excused'
       
PROVE  currentStep' \in 0..(Lapse!totalSteps - 1) /\ currentTimestamp' = Lapse!TimeOf(currentStep')
    <3>1. CASE Lapse!Restarts
      BY <1>1, <2>1, <3>1, LapseStepsAreHours DEF Lapse!Render
    <3>2. CASE ~Lapse!Restarts
      <4>1. due \cap {"view", "hours"} = {} /\ "dragged" \notin excused
        BY <2>1, <3>2 DEF Lapse!Restarts, Lapse!Render
      <4> QED
        BY <2>1, <3>2, <4>1 DEF LapseIInv, LapseStepIsShown, Lapse!Render
    <3> QED
      BY <3>1, <3>2
  <2>2. ASSUME drag'.on, drag'.to # Nothing, view, "dragged" \notin excused'
        PROVE  drag'.to \in Lapse!calculateStepFromPosition
    <3>1. drag' = drag /\ drag.on
      BY <1>9, <2>2
    <3>2. "dragged" \notin excused
      BY <2>2, <3>1 DEF Lapse!Render
    <3> QED
      BY <2>2, <3>1, <3>2 DEF LapseIInv, LapseStepIsShown
  <2> QED
    BY <1>2, <1>3, <1>4, <1>5, <2>1, <2>2 DEF LapseStepIsShown
<1>14. LapseMarkersAreDrawn'
  BY <1>6, <1>7 DEF LapseMarkersAreDrawn
<1> QED
  BY <1>10, <1>11, <1>12, <1>13, <1>14 DEF LapseIInv

\* What leaves the hours and the range as they are leaves the axis.
LEMMA LapseAxisStays ==
  ASSUME UNCHANGED <<data, timeRange>>
  PROVE  /\ Lapse!totalSteps' = Lapse!totalSteps
         /\ Lapse!calculateStepFromPosition' = Lapse!calculateStepFromPosition
         /\ \A s : Lapse!TimeOf(s)' = Lapse!TimeOf(s)
         /\ \A t : Lapse!Hour(t)' = Lapse!Hour(t)
BY DEF Lapse!totalSteps, Lapse!filterTimestamps, Lapse!calculateStepFromPosition, Lapse!TimeOf,
    Lapse!Hour, Lapse!SelectLastInSeq

LEMMA LapseAnswerKeeps ==
  ASSUME Lapse!AnswersAssumption, LapseIInv, due = {}, NEW answer \in Answers,
    Lapse!fetchTimelapseData(answer)
  PROVE  LapseIInv'
<1>1. LapseTypeInv /\ LapseControlled /\ status = "pending"
  BY DEF LapseIInv, Lapse!fetchTimelapseData
<1>2. /\ UNCHANGED <<view, fixedPoints, asked, timeRange, currentStep, isPlaying, drag, shown,
                     thresholds, markers>>
      /\ due' \in {{"status"}, {"hours"}} /\ status' # "pending"
  BY DEF Lapse!fetchTimelapseData
<1>3. ~shown /\ ~drag.on
  BY <1>1 DEF LapseControlled
<1>4. LapseTypeInv'
  BY <1>1, <1>2 DEF LapseTypeInv, Lapse!fetchTimelapseData, LapseFit
<1>5. LapseControlled'
  BY <1>1, <1>2 DEF LapseControlled
<1>6. LapseAsked'
  <2>1. CASE status' = "rejected"
    BY <1>2, <2>1 DEF Lapse!fetchTimelapseData, LapseAsked
  <2>2. CASE status' = "fulfilled"
    <3>1. data' = [of |-> asked, hours |-> answer] /\ UNCHANGED excused
      BY <2>2 DEF Lapse!fetchTimelapseData
    <3>2. view /\ "dropped" \notin excused => asked = fixedPoints
      BY <1>1 DEF LapseIInv, LapseAsked, LapseTypeInv
    <3> QED
      BY <1>1, <1>2, <2>2, <3>1, <3>2 DEF LapseAsked
  <2> QED
    BY <2>1, <2>2 DEF Lapse!fetchTimelapseData
<1>7. LapseStepIsShown'
  <2>1. CASE due' = {"hours"}
    BY <1>2, <1>3, <2>1 DEF LapseStepIsShown
  <2>2. CASE due' = {"status"}
    <3>1. UNCHANGED <<data, currentTimestamp>> /\ excused' = excused \cup {"failed"}
      BY <2>2 DEF Lapse!fetchTimelapseData
    <3> QED
      BY <1>2, <1>3, <3>1, LapseAxisStays DEF LapseStepIsShown, LapseIInv, Lapse!fetchTimelapseData
  <2> QED
    BY <1>2, <2>1, <2>2
<1>8. LapseMarkersAreDrawn'
  BY <1>2 DEF LapseMarkersAreDrawn
<1> QED
  BY <1>4, <1>5, <1>6, <1>7, <1>8 DEF LapseIInv

\* A step of the axis, shown or asked for.
LEMMA LapseStepKeeps ==
  ASSUME Lapse!AnswersAssumption, LapseIInv, due = {}, NEW step \in Int, Lapse!handleStepChange(step),
         Lapse!totalSteps > 0 /\ view /\ "dragged" \notin excused => step \in Lapse!calculateStepFromPosition,
         shown, isPlaying' => shown,
         drag' \in [on : BOOLEAN, to : Int \cup {Nothing}],
         drag'.on /\ drag'.to # Nothing /\ view /\ "dragged" \notin excused =>
           drag'.to \in Lapse!calculateStepFromPosition
  PROVE  LapseIInv'
<1>1. LapseTypeInv /\ LapseControlled
  BY DEF LapseIInv
<1>2. /\ UNCHANGED <<view, fixedPoints, status, asked, data, timeRange, shown, thresholds, markers,
         excused>>
      /\ currentStep' = step /\ currentTimestamp' = Lapse!TimeOf(step) /\ due' = {"timestamp"}
  BY DEF Lapse!handleStepChange
<1>3. LapseTypeInv'
  BY <1>1, <1>2 DEF LapseTypeInv, LapseFit
<1>4. LapseControlled'
  BY <1>1, <1>2 DEF LapseControlled
<1>5. LapseAsked'
  BY <1>2 DEF LapseIInv, LapseAsked
<1>6. LapseStepIsShown'
  BY <1>1, <1>2, LapseAxisStays, LapseStepsOfTheAxis DEF LapseStepIsShown
<1>7. LapseMarkersAreDrawn'
  BY <1>2 DEF LapseMarkersAreDrawn
<1> QED
  BY <1>3, <1>4, <1>5, <1>6, <1>7 DEF LapseIInv

\* What changes but the play, and the drag.
LEMMA LapseStillKeeps ==
  ASSUME Lapse!AnswersAssumption, LapseIInv,
         UNCHANGED <<view, fixedPoints, status, asked, data, currentTimestamp, timeRange, currentStep,
                     shown, thresholds, markers, due, excused>>,
         isPlaying' \/ drag'.on => shown,
         drag' \in [on : BOOLEAN, to : Int \cup {Nothing}],
         drag'.on /\ drag'.to # Nothing /\ view /\ "dragged" \notin excused =>
           drag'.to \in Lapse!calculateStepFromPosition
  PROVE  LapseIInv'
<1>1. LapseTypeInv'
  BY DEF LapseIInv, LapseTypeInv, LapseFit
<1>2. LapseControlled'
  BY DEF LapseIInv, LapseControlled
<1>3. LapseAsked'
  BY DEF LapseIInv, LapseAsked
<1>4. LapseStepIsShown'
  BY LapseAxisStays DEF LapseIInv, LapseStepIsShown
<1>5. LapseMarkersAreDrawn'
  <2>1. \A t : LapseDrawn(t)' = LapseDrawn(t)
    BY LapseAxisStays DEF LapseDrawn, Lapse!createNewMarker, Lapse!isCluster
  <2> QED
    BY <2>1 DEF LapseIInv, LapseMarkersAreDrawn
<1> QED
  BY <1>1, <1>2, <1>3, <1>4, <1>5 DEF LapseIInv

\* The controls of the timelapse.
LEMMA LapseControlsKeep ==
  ASSUME Lapse!AnswersAssumption, LapseIInv, due = {},
         \/ Lapse!NavigationButtons \/ Lapse!handlePlayPause \/ Lapse!Play
         \/ Lapse!handleStart \/ Lapse!handleEnd
         \/ \E step \in Lapse!calculateStepFromPosition : Lapse!handleMove(step)
  PROVE  LapseIInv'
<1>1. LapseTypeInv /\ LapseControlled /\ LapseStepIsShown
  BY DEF LapseIInv
<1>2. Lapse!totalSteps \in Nat /\ currentStep \in Int
  BY <1>1, LapseStepsAreHours DEF LapseTypeInv
<1>3. /\ drag \in [on : BOOLEAN, to : Int \cup {Nothing}]
      /\ drag.on /\ drag.to # Nothing /\ view /\ "dragged" \notin excused =>
           drag.to \in Lapse!calculateStepFromPosition
      /\ drag.on \/ isPlaying => shown
  BY <1>1 DEF LapseTypeInv, LapseStepIsShown, LapseControlled
<1>4. ASSUME NEW s \in 0..(Lapse!totalSteps - 1) PROVE s \in Lapse!calculateStepFromPosition
  BY <1>1, <1>2, LapseStepsOfTheAxis
<1>5. Lapse!totalSteps > 0 /\ view /\ "dragged" \notin excused => currentStep \in 0..(Lapse!totalSteps - 1)
  BY <1>1 DEF LapseStepIsShown
<1>6. ASSUME shown, UNCHANGED drag, isPlaying' => shown, Lapse!handleNextStep
      PROVE  LapseIInv'
  <2>1. Lapse!totalSteps > 0 /\ view /\ "dragged" \notin excused => currentStep + 1 \in 0..(Lapse!totalSteps - 1)
    BY <1>2, <1>5, <1>6 DEF Lapse!handleNextStep
  <2>2. currentStep + 1 \in Int /\ Lapse!handleStepChange(currentStep + 1)
    BY <1>2, <1>6 DEF Lapse!handleNextStep
  <2> QED
    BY <1>3, <1>4, <1>6, <2>1, <2>2, LapseStepKeeps
<1>7. ASSUME shown, UNCHANGED <<isPlaying, drag>>, Lapse!handlePreviousStep
      PROVE  LapseIInv'
  <2>1. Lapse!totalSteps > 0 /\ view /\ "dragged" \notin excused => currentStep - 1 \in 0..(Lapse!totalSteps - 1)
    BY <1>2, <1>5, <1>7 DEF Lapse!handlePreviousStep
  <2>2. currentStep - 1 \in Int /\ Lapse!handleStepChange(currentStep - 1)
    BY <1>2, <1>7 DEF Lapse!handlePreviousStep
  <2> QED
    BY <1>3, <1>4, <1>7, <2>1, <2>2, LapseStepKeeps
<1>8. ASSUME shown, UNCHANGED <<isPlaying, drag>>, Lapse!handleGoToStart \/ Lapse!handleGoToEnd
      PROVE  LapseIInv'
  <2>1. PICK s \in {0, Lapse!totalSteps - 1} : Lapse!handleStepChange(s)
    BY <1>8 DEF Lapse!handleGoToStart, Lapse!handleGoToEnd
  <2>2. s \in Int /\ (Lapse!totalSteps > 0 => s \in 0..(Lapse!totalSteps - 1))
    BY <1>2
  <2> QED
    BY <1>3, <1>4, <1>8, <2>1, <2>2, LapseStepKeeps
<1>9. CASE Lapse!NavigationButtons
  BY <1>3, <1>6, <1>7, <1>8, <1>9 DEF Lapse!NavigationButtons
<1>10. CASE Lapse!handlePlayPause
  BY <1>3, <1>10, LapseStillKeeps DEF Lapse!handlePlayPause
<1>11. CASE Lapse!Play
  <2>1. CASE Lapse!handleNextStep /\ UNCHANGED isPlaying
    BY <1>3, <1>6, <1>11, <2>1 DEF Lapse!Play
  <2>2. CASE isPlaying' = FALSE /\ UNCHANGED <<view, fixedPoints, status, asked, data, currentTimestamp,
               timeRange, currentStep, shown, thresholds, markers, due, moves, excused>>
    BY <1>3, <1>11, <2>2, LapseStillKeeps DEF Lapse!Play
  <2> QED
    BY <1>11, <2>1, <2>2 DEF Lapse!Play
<1>12. CASE Lapse!handleStart
  BY <1>3, <1>12, LapseStillKeeps DEF Lapse!handleStart
<1>13. Lapse!NoDrag \in [on : BOOLEAN, to : Int \cup {Nothing}] /\ ~Lapse!NoDrag.on
  BY DEF Lapse!NoDrag
<1>14. CASE Lapse!handleEnd
  <2>1. drag.on /\ drag' = Lapse!NoDrag /\ UNCHANGED isPlaying
    BY <1>14 DEF Lapse!handleEnd
  <2>2. CASE drag.to # Nothing
    <3>1. drag.to \in Int /\ Lapse!handleStepChange(drag.to)
      BY <1>3, <1>14, <2>2 DEF Lapse!handleEnd
    <3> QED
      BY <1>3, <1>13, <2>1, <2>2, <3>1, LapseStepKeeps
  <2>3. CASE drag.to = Nothing
    BY <1>3, <1>13, <1>14, <2>1, <2>3, LapseStillKeeps DEF Lapse!handleEnd
  <2> QED
    BY <2>2, <2>3
<1>15. ASSUME NEW s \in Lapse!calculateStepFromPosition, Lapse!handleMove(s) PROVE LapseIInv'
  <2>1. drag.on /\ drag' = [drag EXCEPT !.to = s] /\ Lapse!handleStepChange(s) /\ UNCHANGED isPlaying
    BY <1>15 DEF Lapse!handleMove
  <2>2. s \in Int
    BY <1>1, LapseStepsOfTheAxis
  <2>3. drag' \in [on : BOOLEAN, to : Int \cup {Nothing}] /\ drag'.to = s
    BY <1>3, <2>1, <2>2
  <2> QED
    BY <1>3, <1>15, <2>1, <2>2, <2>3, LapseStepKeeps
<1> QED
  BY <1>9, <1>10, <1>11, <1>12, <1>14, <1>15

LEMMA LapseRangeKeeps ==
  ASSUME LapseIInv, due = {}, NEW range \in Lapse!TimeRanges, Lapse!onSelectTimeRange(range)
  PROVE  LapseIInv'
<1>1. /\ UNCHANGED <<view, fixedPoints, status, asked, data, currentTimestamp, currentStep,
         isPlaying, drag,
                     shown, thresholds, markers>>
      /\ timeRange' = range /\ due' = {"hours"}
      /\ excused' = IF drag.on THEN excused \cup {"dragged"} ELSE excused
  BY DEF Lapse!onSelectTimeRange
<1>2. LapseTypeInv'
  BY <1>1 DEF LapseIInv, LapseTypeInv, LapseFit, Lapse!TimeRanges
<1>3. LapseControlled' /\ LapseAsked'
  BY <1>1 DEF LapseIInv, LapseControlled, LapseAsked
<1>4. LapseStepIsShown' /\ LapseMarkersAreDrawn'
  BY <1>1 DEF LapseStepIsShown, LapseMarkersAreDrawn
<1> QED
  BY <1>2, <1>3, <1>4 DEF LapseIInv

\* Opening and closing, and the map beneath.
LEMMA LapseMapKeeps ==
  ASSUME LapseIInv, due = {},
         Lapse!openTimelapse \/ (\E cross \in BOOLEAN : Lapse!closeHandler(cross)) \/ Lapse!FixedPointsArrive
           \/ Lapse!ThresholdsChange
  PROVE  LapseIInv'
<1>1. LapseTypeInv /\ LapseControlled /\ UNCHANGED <<status, asked, data, currentStep, isPlaying,
         drag, shown, markers, excused>>
  BY DEF LapseIInv, Lapse!openTimelapse, Lapse!closeHandler, Lapse!FixedPointsArrive,
      Lapse!ThresholdsChange
<1>2. due' # {} /\ timeRange' \in {1, timeRange}
  BY DEF Lapse!openTimelapse, Lapse!closeHandler, Lapse!FixedPointsArrive, Lapse!ThresholdsChange
<1>3. /\ view' \in BOOLEAN /\ (view' => view \/ "view" \in due')
      /\ fixedPoints' \in Nat /\ (fixedPoints' = fixedPoints \/ "points" \in due')
      /\ thresholds' \in Nat
      /\ (timeRange' = timeRange /\ currentTimestamp' = currentTimestamp) \/ ~view' \/ "view" \in due'
      /\ timeRange' = timeRange \/ ~view'
  <2>1. CASE Lapse!openTimelapse
    BY <1>1, <2>1 DEF LapseTypeInv, Lapse!openTimelapse
  <2>2. ASSUME NEW cross \in BOOLEAN, Lapse!closeHandler(cross)
        PROVE  view' = FALSE /\ UNCHANGED <<fixedPoints, thresholds>>
    BY <2>2 DEF Lapse!closeHandler
  <2>3. CASE Lapse!FixedPointsArrive
    BY <1>1, <2>3 DEF LapseTypeInv, Lapse!FixedPointsArrive
  <2>4. CASE Lapse!ThresholdsChange
    BY <1>1, <2>4 DEF LapseTypeInv, Lapse!ThresholdsChange
  <2>5. fixedPoints \in Nat /\ thresholds \in Nat
    BY <1>1 DEF LapseTypeInv
  <2> QED
    BY <2>1, <2>2, <2>3, <2>4, <2>5
<1>4. LapseTypeInv'
  BY <1>1, <1>2, <1>3 DEF LapseTypeInv, LapseFit
<1>5. LapseControlled' /\ LapseMarkersAreDrawn'
  BY <1>1, <1>2 DEF LapseControlled, LapseMarkersAreDrawn
<1>6. LapseAsked'
  BY <1>1, <1>3 DEF LapseIInv, LapseAsked
<1>7. LapseStepIsShown'
  <2>1. CASE timeRange' = timeRange /\ currentTimestamp' = currentTimestamp
    <3>1. drag.on => view
      BY <1>1 DEF LapseControlled
    <3> QED
      BY <1>1, <1>3, <2>1, <3>1, LapseAxisStays DEF LapseIInv, LapseStepIsShown
  <2>2. CASE ~view'
    BY <2>2 DEF LapseStepIsShown
  <2>3. CASE "view" \in due' /\ view'
    <3>1. Lapse!openTimelapse
      <4>1. Lapse!FixedPointsArrive => due' = {"points"}
        BY DEF Lapse!FixedPointsArrive
      <4>2. Lapse!ThresholdsChange => due' = {"thresholds"}
        BY DEF Lapse!ThresholdsChange
      <4>3. ASSUME NEW cross \in BOOLEAN, Lapse!closeHandler(cross) PROVE FALSE
        BY <2>3, <4>3 DEF Lapse!closeHandler
      <4> QED
        BY <2>3, <4>1, <4>2, <4>3
    <3>2. ~drag.on
      BY <1>1, <3>1 DEF Lapse!openTimelapse, LapseControlled
    <3> QED
      BY <1>1, <2>3, <3>2 DEF LapseStepIsShown
  <2> QED
    BY <1>3, <2>1, <2>2, <2>3
<1> QED
  BY <1>4, <1>5, <1>6, <1>7 DEF LapseIInv

-----------------------------------------------------------------------------
(* The theorems. *)

LEMMA LapseInitHolds == Lapse!Init => LapseIInv
<1> SUFFICES ASSUME Lapse!Init PROVE LapseIInv
  OBVIOUS
<1>1. Lapse!NoDrag \in [on : BOOLEAN, to : Int \cup {Nothing}] /\ ~Lapse!NoDrag.on
  BY DEF Lapse!NoDrag
<1>2. LapseFit(markers)
  BY DEF Lapse!Init, LapseFit, Lapse!None
<1> QED
  <2>1. LapseTypeInv
    <3>1. data = [of |-> Nothing,
             hours |-> <<>>] /\ drag = Lapse!NoDrag /\ view \in BOOLEAN /\ shown = FALSE
      BY DEF Lapse!Init
    <3>2. fixedPoints = 0 /\ asked = Nothing /\ timeRange = 1 /\ currentStep = 0 /\ thresholds = 0
      BY DEF Lapse!Init
    <3>3. data \in [of : Nat \cup {Nothing}, hours : Answers \cup {<<>>}]
      <4> DEFINE empty == <<>>
      <4>1. data = [of |-> Nothing, hours |-> empty]
        BY <3>1
      <4> HIDE DEF empty
      <4>2. data \in [of : Nat \cup {Nothing}, hours : Answers \cup {empty}]
        BY <4>1
      <4> QED
        BY <4>2 DEF empty
    <3> QED
      <4>1. drag \in [on : BOOLEAN, to : Int \cup {Nothing}]
        BY <1>1, <3>1
      <4>2. view \in BOOLEAN /\ shown \in BOOLEAN
        BY <3>1
      <4>3. fixedPoints \in Nat /\ timeRange \in Nat /\ currentStep \in Int /\ thresholds \in Nat
        BY <3>2
      <4>4. asked \in Nat \cup {Nothing}
        BY <3>2
      <4> QED
        BY <1>2, <3>3, <4>1, <4>2, <4>3, <4>4, Zenon DEF LapseTypeInv
  <2>2. due = {"view"} /\ drag = Lapse!NoDrag /\ shown = FALSE /\ isPlaying = FALSE /\ markers = Lapse!None
    BY DEF Lapse!Init
  <2>3. LapseControlled /\ LapseAsked /\ LapseStepIsShown /\ LapseMarkersAreDrawn
    BY <1>1, <2>2 DEF LapseControlled, LapseAsked, LapseStepIsShown, LapseMarkersAreDrawn
  <2> QED
    BY <2>1, <2>3 DEF LapseIInv

LEMMA LapseNextKeeps == Lapse!AnswersAssumption /\ LapseIInv /\ [Lapse!Next]_(Lapse!vars) => LapseIInv'
<1> SUFFICES ASSUME Lapse!AnswersAssumption, LapseIInv, [Lapse!Next]_(Lapse!vars) PROVE LapseIInv'
  OBVIOUS
<1>1. CASE Lapse!Render
  BY <1>1, LapseRenderKeeps
<1>2. CASE due = {} /\ Lapse!Page
  BY <1>2, LapseAnswerKeeps, LapseControlsKeep, LapseRangeKeeps, LapseMapKeeps DEF Lapse!Page
<1>3. CASE UNCHANGED Lapse!vars
  <2>1. UNCHANGED <<view, fixedPoints, status, asked, data, currentTimestamp, timeRange, currentStep,
                    isPlaying, drag, shown, thresholds, markers, due, excused>>
    BY <1>3 DEF Lapse!vars
  <2> QED
    BY <2>1, LapseStillKeeps DEF LapseIInv, LapseTypeInv, LapseControlled, LapseStepIsShown
<1> QED
  BY <1>1, <1>2, <1>3 DEF Lapse!Next

LEMMA LapseInvImplies == Lapse!AnswersAssumption /\ LapseIInv => Lapse!TimelapseShowsItsStep
<1> SUFFICES ASSUME Lapse!AnswersAssumption, LapseIInv, due = {} PROVE Lapse!TimelapseShowsItsStep
  BY DEF Lapse!TimelapseShowsItsStep
<1>1. ~shown => markers = Lapse!None
  BY DEF LapseIInv, LapseControlled
<1>2. shown => view /\ status # "pending"
  BY DEF LapseIInv, LapseControlled
<1>3. shown /\ "dropped" \notin excused /\ "failed" \notin excused => data.of = fixedPoints
  BY <1>2 DEF LapseIInv, LapseAsked
<1>4. ASSUME shown, Lapse!totalSteps > 0, "dragged" \notin excused
      PROVE  /\ currentStep \in 0..(Lapse!totalSteps - 1)
             /\ currentTimestamp = Lapse!TimeOf(currentStep)
             /\ LET at == Lapse!filterTimestamps[currentStep + 1].at
                IN  markers = [p \in DOMAIN at |-> Lapse!createNewMarker(at[p])]
  <2>1. currentStep \in 0..(Lapse!totalSteps - 1) /\ currentTimestamp = Lapse!TimeOf(currentStep)
    BY <1>2, <1>4 DEF LapseIInv, LapseStepIsShown
  <2>2. Lapse!totalSteps \in Nat /\ DOMAIN Lapse!filterTimestamps = 1..Lapse!totalSteps
    BY LapseStepsAreHours DEF LapseIInv
  <2>3. currentStep + 1 \in 1..Lapse!totalSteps
    BY <2>1, <2>2
  <2>4. PICK i \in DOMAIN data.hours : Lapse!filterTimestamps[currentStep + 1] = data.hours[i]
    BY <2>3, LapseStepsAreHours DEF LapseIInv
  <2>5. currentTimestamp = data.hours[i].t
    BY <2>1, <2>2, <2>3, <2>4 DEF Lapse!TimeOf
  <2>6. Lapse!Hour(currentTimestamp) = i /\ i # 0
    BY <2>4, <2>5, LapseHourOfItsTime, LapseHoursAreProper DEF LapseIInv
  <2>7. markers = [p \in DOMAIN data.hours[i].at |-> Lapse!createNewMarker(data.hours[i].at[p])]
    BY <1>4, <2>6 DEF LapseIInv, LapseMarkersAreDrawn, LapseDrawn
  <2> QED
    BY <2>1, <2>4, <2>7
<1> QED
  BY <1>1, <1>3, <1>4 DEF Lapse!TimelapseShowsItsStep

-----------------------------------------------------------------------------
(* The calendar of daily averages. *)

CalendarOpened == Opened \cup {Nothing}
CalendarCalls == [kind : {"averages", "stream"}, stream : Opened, span : Nat \X Nat]
CalendarAsked == {c \in calls : c.kind = "averages"}

\* Averages are of a stream, and some of its own.
CalendarAverages(a) ==
  /\ a \in [of : CalendarOpened, days : SUBSET Nat]
  /\ a.days # {} => a.of \in Opened /\ a.days \subseteq AveragesOf[a.of]

CalendarTypeInv ==
  /\ page \in CalendarOpened /\ modal \in CalendarOpened /\ loaded \in CalendarOpened
  /\ CalendarAverages(averages)
  /\ calls \in SUBSET CalendarCalls
  /\ window \in Int \X Int
  /\ left \in BOOLEAN /\ right \in BOOLEAN /\ again \in BOOLEAN
  /\ asked \in BOOLEAN /\ stale \in BOOLEAN /\ late \in BOOLEAN

\* On the map there is no calendar, and nothing that was asked for one but late.
CalendarLeft ==
  page = Nothing =>
    /\ ~left /\ ~right /\ window = Calendar!NoWindow /\ day = Nothing
    /\ ~late => averages = Calendar!NoAverages /\ CalendarAsked = {}

CalendarOne == modal # Nothing => page = Nothing

\* What is there, chosen or under way is of the stream of the page; all of it, when it
\* was asked for with that stream's dates.
CalendarOwn ==
  page # Nothing /\ ~late =>
    /\ averages.of \in {page, Nothing}
    /\ day # Nothing => day \in AveragesOf[page]
    /\ \A c \in CalendarAsked : c.stream = page
    /\ ~stale => /\ averages.days \in {{}, AveragesOf[page]}
                 /\ \A c \in CalendarAsked : c.span = SpanOf[page]

CalendarMonths == window # Calendar!NoWindow => window = Calendar!WindowTo(window[2])

CalendarFirst == Calendar!MonthOf(SpanOf[page][1])
CalendarEarliest == Calendar!MonthOf(window[2]) - 2

\* A window that ends before the last average was moved back, and so it starts in the
\* stream's first month or after; the buttons know which end it has reached.
CalendarReach ==
  /\ page # Nothing /\ ~late /\ ~stale /\ loaded = page
  /\ averages.days # {} /\ window # Calendar!NoWindow
  => /\ window[2] <= SpanOf[page][2]
     /\ (\A d \in averages.days : d <= window[2]) \/ CalendarEarliest >= CalendarFirst
     /\ left /\ ~again => CalendarEarliest <= CalendarFirst
     /\ right => \A d \in averages.days : d <= window[2]

CalendarIInv ==
  /\ CalendarTypeInv
  /\ CalendarLeft /\ CalendarOne /\ CalendarOwn /\ CalendarMonths /\ CalendarReach

-----------------------------------------------------------------------------
(* Days, months and weeks. *)

LEMMA CalendarLibrary ==
  ASSUME NEW S
  PROVE  Calendar!Max(S) = Max(S) /\ Calendar!Cardinality(S) = Cardinality(S)
BY DEF Calendar!Max, Max, Calendar!Cardinality, Cardinality

LEMMA CalendarMonth ==
  ASSUME Calendar!CalendarAssumption, NEW d \in Int
  PROVE  /\ Calendar!MonthOf(d) \in Int
         /\ Calendar!startOf(Calendar!MonthOf(d)) \in Int
         /\ Calendar!endOf(Calendar!MonthOf(d)) \in Int
         /\ Calendar!startOf(Calendar!MonthOf(d)) <= d
         /\ d <= Calendar!endOf(Calendar!MonthOf(d))
BY DEF Calendar!MonthOf, Calendar!startOf, Calendar!endOf, Calendar!CalendarAssumption

LEMMA CalendarMonthEnds ==
  ASSUME Calendar!CalendarAssumption, NEW m \in Int
  PROVE  /\ Calendar!startOf(m) \in Int /\ Calendar!endOf(m) \in Int
         /\ Calendar!startOf(m) <= Calendar!endOf(m)
BY DEF Calendar!startOf, Calendar!endOf, Calendar!CalendarAssumption

LEMMA CalendarMonthsApart ==
  ASSUME Calendar!CalendarAssumption, NEW m \in Int, NEW n \in Int, m < n
  PROVE  Calendar!endOf(m) < Calendar!startOf(n)
BY DEF Calendar!startOf, Calendar!endOf, Calendar!CalendarAssumption

\* A day is of the month whose days it is among.
LEMMA CalendarMonthIs ==
  ASSUME Calendar!CalendarAssumption, NEW m \in Int, NEW d \in Int,
         Calendar!startOf(m) <= d, d <= Calendar!endOf(m)
  PROVE  Calendar!MonthOf(d) = m
<1> DEFINE n == Calendar!MonthOf(d)
<1>1. /\ n \in Int /\ Calendar!startOf(n) \in Int /\ Calendar!endOf(n) \in Int
      /\ Calendar!startOf(n) <= d /\ d <= Calendar!endOf(n)
  BY CalendarMonth
<1> HIDE DEF n
<1>2. Calendar!startOf(m) \in Int /\ Calendar!endOf(m) \in Int
  BY CalendarMonthEnds
<1>3. ~(m < n)
  BY <1>1, <1>2, CalendarMonthsApart
<1>4. ~(n < m)
  BY <1>1, <1>2, CalendarMonthsApart
<1>5. n = m
  BY <1>1, <1>3, <1>4
<1> QED
  BY <1>5 DEF n

LEMMA CalendarMonthsAscend ==
  ASSUME Calendar!CalendarAssumption, NEW a \in Int, NEW b \in Int, a <= b
  PROVE  Calendar!MonthOf(a) <= Calendar!MonthOf(b)
<1> DEFINE m == Calendar!MonthOf(a)
           n == Calendar!MonthOf(b)
<1>1. /\ m \in Int /\ Calendar!startOf(m) \in Int /\ Calendar!startOf(m) <= a
      /\ n \in Int /\ Calendar!endOf(n) \in Int /\ b <= Calendar!endOf(n)
  BY CalendarMonth
<1> HIDE DEF m, n
<1>2. ~(n < m)
  BY <1>1, CalendarMonthsApart
<1> QED
  BY <1>1, <1>2 DEF m, n

LEMMA CalendarStartsAscend ==
  ASSUME Calendar!CalendarAssumption, NEW m \in Int, NEW n \in Int, m <= n
  PROVE  Calendar!startOf(m) <= Calendar!startOf(n)
BY CalendarMonthEnds, CalendarMonthsApart

LEMMA CalendarWeek ==
  ASSUME Calendar!CalendarAssumption, NEW k \in Int
  PROVE  /\ k % WeekLength \in 0..(WeekLength - 1)
         /\ k \div WeekLength \in Int
         /\ k = WeekLength * (k \div WeekLength) + (k % WeekLength)
BY DEF Calendar!CalendarAssumption

LEMMA CalendarWeeksApart ==
  ASSUME Calendar!CalendarAssumption, NEW p \in Int, NEW q \in Int,
         NEW i \in 0..(WeekLength - 1), NEW j \in 0..(WeekLength - 1),
         WeekLength * p + i = WeekLength * q + j
  PROVE  p = q /\ i = j
<1>1. ~(p < q) /\ ~(q < p)
  BY DEF Calendar!CalendarAssumption
<1> QED
  BY <1>1 DEF Calendar!CalendarAssumption

\* The last three months up to a day.
LEMMA CalendarWindow ==
  ASSUME Calendar!CalendarAssumption, NEW e \in Int
  PROVE  LET w == Calendar!WindowTo(e)
         IN  /\ w \in Int \X Int /\ w[2] = e /\ w # Calendar!NoWindow
             /\ w[1] = Calendar!startOf(Calendar!MonthOf(e) - 2)
             /\ Calendar!MonthOf(w[1]) = Calendar!MonthOf(e) - 2
             /\ w[1] <= e
<1> DEFINE m == Calendar!MonthOf(e) - 2
           w == Calendar!WindowTo(e)
<1>1. /\ Calendar!MonthOf(e) \in Int /\ m \in Int
      /\ Calendar!startOf(Calendar!MonthOf(e)) \in Int /\ Calendar!startOf(Calendar!MonthOf(e)) <= e
  BY CalendarMonth
<1>2. w = <<Calendar!startOf(m), e>>
  BY DEF Calendar!WindowTo
<1>3. /\ Calendar!startOf(m) \in Int /\ Calendar!endOf(m) \in Int
      /\ Calendar!startOf(m) <= Calendar!endOf(m)
  BY <1>1, CalendarMonthEnds
<1>4. Calendar!MonthOf(Calendar!startOf(m)) = m
  BY <1>1, <1>3, CalendarMonthIs
<1>5. Calendar!startOf(m) <= e
  BY <1>1, <1>3, CalendarStartsAscend
<1>6. w # Calendar!NoWindow
  <2> SUFFICES ASSUME w = Calendar!NoWindow PROVE FALSE
    OBVIOUS
  <2>1. Calendar!startOf(m) = 0 /\ e = -1
    BY <1>2 DEF Calendar!NoWindow
  <2> QED
    BY <1>5, <2>1
<1> HIDE DEF m
<1> QED
  BY <1>2, <1>3, <1>4, <1>5, <1>6 DEF m

\* A cell of the calendar in which the day d has a value.
CalendarCellAt(d, m, week, i) ==
  /\ m \in (Calendar!MonthOf(window[2]) - 2)..Calendar!MonthOf(window[2])
  /\ week \in Calendar!getMonthWeekBoundariesForDate(m) /\ i \in 0..(WeekLength - 1)
  /\ week + i = d /\ Calendar!MonthOf(d) = m
  /\ d \in Calendar!getVisibleMonthsData(averages.days, window)

LEMMA CalendarCells ==
  ASSUME NEW d
  PROVE  \A c : c \in Calendar!CellsWith(d) <=>
                  \E m, week, i : c = <<m, week, i>> /\ CalendarCellAt(d, m, week, i)
<1> DEFINE top == Calendar!MonthOf(window[2])
           averaged == Calendar!getVisibleMonthsData(averages.days, window)
           months == Calendar!selectCalendarData(averages.days, window)
           places == 0..(WeekLength - 1)
           Weeks(m) == Calendar!getMonthWeekBoundariesForDate(m)
           Cell(m, week, i) ==
             [day |-> week + i, value |-> Calendar!MonthOf(week + i) = m /\ week + i \in averaged]
           In(m) == {<<m, week, i>> : week \in DOMAIN months[m], i \in places}
           all3 == UNION {In(m) : m \in DOMAIN months}
<1>1. /\ DOMAIN months = (top - 2)..top
      /\ \A m \in (top - 2)..top :
           /\ DOMAIN months[m] = Weeks(m)
           /\ \A week \in Weeks(m), i \in places : months[m][week][i] = Cell(m, week, i)
  BY DEF Calendar!selectCalendarData, Calendar!getMonthWeeksOfDailyAverages
<1>2. \A m, week, i :
        CalendarCellAt(d, m, week, i) <=>
          /\ m \in (top - 2)..top /\ week \in Weeks(m) /\ i \in places
          /\ Cell(m, week, i) = [day |-> d, value |-> TRUE]
  <2> SUFFICES ASSUME NEW m, NEW week, NEW i
               PROVE  Cell(m, week, i) = [day |-> d, value |-> TRUE] <=>
                        week + i = d /\ Calendar!MonthOf(d) = m /\ d \in averaged
    BY DEF CalendarCellAt
  <2> QED
    OBVIOUS
<1> HIDE DEF top, months, averaged, Weeks, places, Cell
<1>3. Calendar!CellsWith(d) =
        {c \in all3 : months[c[1]][c[2]][c[3]] = [day |-> d, value |-> TRUE]}
  BY DEF Calendar!CellsWith, months, places
<1>4. \A c : c \in all3 <=> \E m \in (top - 2)..top : \E week \in Weeks(m), i \in places :
                              c = <<m, week, i>>
  BY <1>1
<1> HIDE DEF all3
<1>5. ASSUME NEW m \in (top - 2)..top, NEW week \in Weeks(m), NEW i \in places,
             NEW c, c = <<m, week, i>>
      PROVE  months[c[1]][c[2]][c[3]] = Cell(m, week, i)
  BY <1>1, <1>5
<1>6. ASSUME NEW c \in Calendar!CellsWith(d)
      PROVE  \E m, week, i : c = <<m, week, i>> /\ CalendarCellAt(d, m, week, i)
  <2>1. c \in all3 /\ months[c[1]][c[2]][c[3]] = [day |-> d, value |-> TRUE]
    BY <1>3
  <2>2. PICK m \in (top - 2)..top : \E week \in Weeks(m), i \in places : c = <<m, week, i>>
    BY <1>4, <2>1
  <2>3. PICK week \in Weeks(m), i \in places : c = <<m, week, i>>
    BY <2>2
  <2>4. Cell(m, week, i) = [day |-> d, value |-> TRUE]
    BY <1>5, <2>1, <2>3
  <2> QED
    BY <1>2, <2>3, <2>4
<1>7. ASSUME NEW m, NEW week, NEW i, CalendarCellAt(d, m, week, i)
      PROVE  <<m, week, i>> \in Calendar!CellsWith(d)
  <2> DEFINE c == <<m, week, i>>
  <2>1. /\ m \in (top - 2)..top /\ week \in Weeks(m) /\ i \in places
        /\ Cell(m, week, i) = [day |-> d, value |-> TRUE]
    BY <1>2, <1>7
  <2>2. c \in all3 /\ months[c[1]][c[2]][c[3]] = Cell(m, week, i)
    BY <1>4, <1>5, <2>1
  <2> HIDE DEF c
  <2>3. c \in Calendar!CellsWith(d)
    BY <1>3, <2>1, <2>2
  <2> QED
    BY <2>3 DEF c
<1> QED
  BY <1>6, <1>7

\* A day in the window has one cell: that of its month, of the week it is in, and of its
\* place in that week.
LEMMA CalendarCell ==
  ASSUME Calendar!CalendarAssumption, CalendarTypeInv, window = Calendar!WindowTo(window[2]),
         NEW d \in Calendar!getVisibleMonthsData(averages.days, window)
  PROVE  Calendar!CellsWith(d) =
           {<<Calendar!MonthOf(d), d - (d % WeekLength), d % WeekLength>>}
<1> DEFINE top == Calendar!MonthOf(window[2])
           month == Calendar!MonthOf(d)
           j == d % WeekLength
<1>1. /\ window[2] \in Int /\ window[1] = Calendar!startOf(top - 2) /\ top \in Int
      /\ d \in Nat /\ window[1] <= d /\ d <= window[2]
      /\ Calendar!startOf(top - 2) \in Int
      /\ Calendar!endOf(top) \in Int /\ window[2] <= Calendar!endOf(top)
  <2>1. window[2] \in Int /\ window \in Int \X Int
    BY DEF CalendarTypeInv
  <2>2. top \in Int /\ Calendar!endOf(top) \in Int /\ window[2] <= Calendar!endOf(top)
    BY <2>1, CalendarMonth
  <2>3. window[1] = Calendar!startOf(top - 2)
    BY <2>1, CalendarWindow
  <2>4. d \in Nat /\ window[1] <= d /\ d <= window[2]
    BY DEF Calendar!getVisibleMonthsData, CalendarTypeInv, CalendarAverages
  <2> QED
    BY <2>1, <2>2, <2>3, <2>4
<1>2. /\ month \in Int /\ Calendar!startOf(month) \in Int /\ Calendar!endOf(month) \in Int
      /\ Calendar!startOf(month) <= d /\ d <= Calendar!endOf(month)
  BY <1>1, CalendarMonth
<1>3. /\ j \in 0..(WeekLength - 1) /\ WeekLength \in Nat /\ d \div WeekLength \in Int
      /\ d = WeekLength * (d \div WeekLength) + j
  BY <1>1, CalendarWeek DEF Calendar!CalendarAssumption
<1>4. ASSUME NEW m, NEW week, NEW i, CalendarCellAt(d, m, week, i)
      PROVE  m = month /\ week = d - j /\ i = j
  <2>1. week + i = d /\ m = month /\ i \in 0..(WeekLength - 1)
    BY <1>4 DEF CalendarCellAt
  <2>2. PICK k \in Calendar!startOf(month)..Calendar!endOf(month) : week = k - (k % WeekLength)
    BY <1>4, <2>1 DEF CalendarCellAt, Calendar!getMonthWeekBoundariesForDate
  <2>3. k \in Int
    BY <1>2, <2>2
  <2> DEFINE p == k \div WeekLength
             q == d \div WeekLength
             l == k % WeekLength
  <2>4. l \in 0..(WeekLength - 1) /\ p \in Int /\ k = WeekLength * p + l
    BY <2>3, CalendarWeek
  <2> HIDE DEF p, q, l, month
  <2>5. WeekLength * p \in Int /\ WeekLength * q \in Int
    BY <1>3, <2>4 DEF q
  <2> HIDE DEF j
  <2>6. WeekLength * p = week
    <3>1. week = k - l /\ l \in Int
      BY <2>2, <2>4 DEF l
    <3> QED
      BY <2>3, <2>4, <2>5, <3>1
  <2>7. WeekLength * p + i = WeekLength * q + j
    BY <1>3, <2>1, <2>6 DEF q
  <2>8. i = j
    <3>1. q \in Int
      BY <1>3 DEF q
    <3>2. i \in 0..(WeekLength - 1) /\ j \in 0..(WeekLength - 1) /\ p \in Int
      BY <1>3, <2>1, <2>4
    <3> QED
      BY <2>7, <3>1, <3>2, CalendarWeeksApart
  <2>9. week = d - i
    BY <1>1, <2>1, <2>5, <2>6
  <2> QED
    BY <2>1, <2>8, <2>9
<1>5. CalendarCellAt(d, month, d - j, j)
  <2>1. month \in (top - 2)..top
    <3> HIDE DEF top, month
    <3>1. ~(month < top - 2)
      BY <1>1, <1>2, CalendarMonthsApart
    <3>2. ~(top < month)
      BY <1>1, <1>2, CalendarMonthsApart
    <3> QED
      BY <1>1, <1>2, <3>1, <3>2
  <2>2. d - j \in Calendar!getMonthWeekBoundariesForDate(month)
    <3>1. d \in Calendar!startOf(month)..Calendar!endOf(month)
      BY <1>1, <1>2
    <3> QED
      BY <3>1 DEF Calendar!getMonthWeekBoundariesForDate
  <2> HIDE DEF j
  <2>3. (d - j) + j = d
    BY <1>1, <1>3
  <2> QED
    BY <1>3, <2>1, <2>2, <2>3 DEF CalendarCellAt
<1> HIDE DEF month, j
<1>6. \A c : c \in Calendar!CellsWith(d) <=> c = <<month, d - j, j>>
  BY <1>4, <1>5, CalendarCells
<1> QED
  BY <1>6 DEF month, j

-----------------------------------------------------------------------------
(* The window. *)

LEMMA CalendarLast ==
  ASSUME Calendar!CalendarAssumption, NEW a, CalendarAverages(a), a.days # {}
  PROVE  /\ Calendar!Max(a.days) \in a.days /\ Calendar!Max(a.days) \in Nat
         /\ \A d \in a.days : d <= Calendar!Max(a.days)
<1>1. /\ a.of \in Opened /\ a.days \in SUBSET Nat
      /\ a.days \subseteq SpanOf[a.of][1]..SpanOf[a.of][2]
      /\ SpanOf[a.of][1] \in Nat /\ SpanOf[a.of][2] \in Nat
  BY DEF CalendarAverages, Calendar!CalendarAssumption
<1>2. IsFiniteSet(a.days)
  <2> DEFINE lo == SpanOf[a.of][1]
             hi == SpanOf[a.of][2]
  <2>1. lo \in Int /\ hi \in Int /\ a.days \subseteq lo..hi
    BY <1>1
  <2> HIDE DEF lo, hi
  <2>2. IsFiniteSet(lo..hi)
    BY <2>1, FS_Interval
  <2> QED
    BY <2>1, <2>2, FS_Subset
<1>3. Max(a.days) \in a.days /\ \A d \in a.days : d <= Max(a.days)
  BY <1>1, <1>2, MaxOfFinite
<1>4. Calendar!Max(a.days) = Max(a.days)
  BY CalendarLibrary
<1> QED
  BY <1>1, <1>3, <1>4

\* What an effect that may set the window anew makes of it.
LEMMA CalendarShown ==
  ASSUME Calendar!CalendarAssumption, CalendarTypeInv, CalendarAverages(averages)',
         NEW anew \in BOOLEAN, Calendar!Shown(anew)
  PROVE  /\ left' \in BOOLEAN /\ right' \in BOOLEAN /\ again' \in BOOLEAN
         /\ \/ window' = Calendar!NoWindow /\ ~left' /\ ~right'
            \/ window' = window /\ averages'.days = {} /\ page' # Nothing
            \/ /\ page' # Nothing /\ averages'.days # {} /\ (left' => again')
               /\ window' = Calendar!WindowTo(Calendar!Max(averages'.days))
            \/ /\ ~anew /\ page # Nothing /\ page' # Nothing
               /\ UNCHANGED <<window, left, right, again>>
<1> DEFINE visible == Calendar!calendarIsVisible(page', loaded', averages', calls')
           was == Calendar!calendarIsVisible(page, loaded, averages, calls)
           last == Calendar!Max(averages'.days)
           lastDay == SpanOf[loaded'][2]
<1>1. /\ visible \in BOOLEAN /\ was \in BOOLEAN
      /\ visible => page' # Nothing /\ loaded' # Nothing
      /\ was => page # Nothing
  BY DEF Calendar!calendarIsVisible
<1>2. /\ left \in BOOLEAN /\ right \in BOOLEAN /\ again \in BOOLEAN
  BY DEF CalendarTypeInv
<1>3. CASE ~visible \/ (anew /\ averages'.days = {})
  <2>1. /\ window' = IF visible /\ was THEN window ELSE Calendar!NoWindow
        /\ left' = (visible /\ was /\ left) /\ right' = (visible /\ was /\ right)
        /\ again' = (visible /\ was /\ again)
    BY <1>3 DEF Calendar!Shown
  <2> HIDE DEF visible, was
  <2> QED
    BY <1>1, <1>2, <1>3, <2>1
<1>4. CASE ~(~visible \/ (anew /\ averages'.days = {})) /\ (anew \/ ~was)
  <2>1. /\ window' = IF averages'.days = {} THEN Calendar!NoWindow ELSE Calendar!WindowTo(last)
        /\ right' = (averages'.days # {} /\ last >= lastDay)
        /\ left' = (was /\ left)
        /\ again' = (was /\ (again \/ left))
    BY <1>4 DEF Calendar!Shown
  <2>2. right' \in BOOLEAN
    BY <2>1
  <2> HIDE DEF visible, was, last, lastDay
  <2>3. visible /\ page' # Nothing
    BY <1>1, <1>4
  <2>4. CASE averages'.days = {}
    BY <1>2, <1>4, <2>1, <2>2, <2>4
  <2>5. CASE averages'.days # {}
    <3>1. left' \in BOOLEAN /\ again' \in BOOLEAN /\ (left' => again')
      BY <1>1, <1>2, <2>1
    <3> QED
      BY <2>1, <2>2, <2>3, <2>5, <3>1 DEF last
  <2> QED
    BY <2>4, <2>5
<1>5. CASE ~(~visible \/ (anew /\ averages'.days = {})) /\ ~(anew \/ ~was)
  <2>1. UNCHANGED <<window, left, right, again>>
    BY <1>5 DEF Calendar!Shown, Calendar!buttons
  <2> HIDE DEF visible, was
  <2> QED
    BY <1>1, <1>2, <1>5, <2>1
<1> QED
  BY <1>3, <1>4, <1>5

LEMMA CalendarShownKeeps ==
  ASSUME Calendar!CalendarAssumption, CalendarIInv, NEW anew \in BOOLEAN, Calendar!Shown(anew),
         CalendarAverages(averages)', CalendarOwn',
         page' \in CalendarOpened, stale' \in BOOLEAN, late' \in BOOLEAN,
         ~anew => /\ loaded' = loaded /\ averages' = averages
                  /\ page # Nothing => page' = page /\ (stale => stale') /\ (late => late')
  PROVE  /\ window' \in Int \X Int
         /\ left' \in BOOLEAN /\ right' \in BOOLEAN /\ again' \in BOOLEAN
         /\ page' = Nothing => ~left' /\ ~right' /\ window' = Calendar!NoWindow
         /\ CalendarMonths' /\ CalendarReach'
<1>1. /\ left' \in BOOLEAN /\ right' \in BOOLEAN /\ again' \in BOOLEAN
      /\ \/ window' = Calendar!NoWindow /\ ~left' /\ ~right'
         \/ window' = window /\ averages'.days = {} /\ page' # Nothing
         \/ /\ page' # Nothing /\ averages'.days # {} /\ (left' => again')
            /\ window' = Calendar!WindowTo(Calendar!Max(averages'.days))
         \/ /\ ~anew /\ page # Nothing /\ page' # Nothing
            /\ UNCHANGED <<window, left, right, again>>
  BY CalendarShown DEF CalendarIInv
<1>2. window \in Int \X Int /\ CalendarMonths /\ CalendarReach
  BY DEF CalendarIInv, CalendarTypeInv
<1>3. CASE window' = Calendar!NoWindow /\ ~left' /\ ~right'
  <2>1. Calendar!NoWindow \in Int \X Int
    BY DEF Calendar!NoWindow
  <2> QED
    BY <1>1, <1>3, <2>1 DEF CalendarMonths, CalendarReach
<1>4. CASE window' = window /\ averages'.days = {} /\ page' # Nothing
  BY <1>1, <1>2, <1>4 DEF CalendarMonths, CalendarReach
<1>5. CASE /\ page' # Nothing /\ averages'.days # {} /\ (left' => again')
           /\ window' = Calendar!WindowTo(Calendar!Max(averages'.days))
  <2> DEFINE last == Calendar!Max(averages'.days)
  <2>1. last \in averages'.days /\ last \in Nat /\ \A d \in averages'.days : d <= last
    BY <1>5, CalendarLast
  <2>2. /\ window' \in Int \X Int /\ window'[2] = last /\ window' # Calendar!NoWindow
    BY <1>5, <2>1, CalendarWindow
  <2>3. CalendarMonths'
    BY <1>5, <2>2 DEF CalendarMonths
  <2> HIDE DEF last
  <2>4. ~late' /\ averages'.of = page' => last <= SpanOf[page'][2]
    <3> SUFFICES ASSUME averages'.of = page' PROVE last <= SpanOf[page'][2]
      OBVIOUS
    <3>1. page' \in Opened /\ averages'.days \subseteq AveragesOf[page']
      BY <1>5 DEF CalendarAverages
    <3>2. last \in SpanOf[page'][1]..SpanOf[page'][2]
      BY <2>1, <3>1 DEF Calendar!CalendarAssumption
    <3> QED
      BY <3>2
  <2>5. averages'.of # Nothing
    BY <1>5 DEF CalendarAverages, Calendar!CalendarAssumption
  <2>6. CalendarReach'
    BY <1>5, <2>1, <2>2, <2>4, <2>5 DEF CalendarReach, CalendarOwn
  <2> QED
    BY <1>1, <1>5, <2>2, <2>3, <2>6
<1>6. CASE /\ ~anew /\ page # Nothing /\ page' # Nothing
           /\ UNCHANGED <<window, left, right, again>>
  <2>1. CalendarMonths'
    BY <1>2, <1>6 DEF CalendarMonths
  <2>2. /\ UNCHANGED <<loaded, averages, page>> /\ (stale => stale') /\ (late => late')
    BY <1>6
  <2>3. CalendarReach'
    BY <1>2, <1>6, <2>2 DEF CalendarReach, CalendarEarliest, CalendarFirst
  <2> QED
    BY <1>1, <1>2, <1>6, <2>1, <2>3
<1> QED
  BY <1>1, <1>3, <1>4, <1>5, <1>6

-----------------------------------------------------------------------------
(* The page and its answers. *)

LEMMA CalendarOpensPage ==
  ASSUME Calendar!CalendarAssumption, CalendarIInv, page = Nothing,
         NEW s \in Opened, NEW clicked \in BOOLEAN, Calendar!OpenPage(s, loaded, clicked)
  PROVE  CalendarIInv'
<1>1. /\ page' = s /\ s # Nothing /\ modal' = Nothing
      /\ calls' = calls \cup Calendar!Asks(s, loaded)
                        \cup (IF clicked \/ loaded = Nothing THEN {Calendar!Stream(s)} ELSE {})
      /\ asked' = (loaded # Nothing) /\ stale' = (loaded \notin {s, Nothing})
      /\ UNCHANGED <<mobile, loaded, averages, day, late>>
      /\ Calendar!Shown(FALSE)
  BY DEF Calendar!OpenPage, Calendar!CalendarAssumption
<1>2. CalendarTypeInv /\ CalendarLeft
  BY DEF CalendarIInv
<1>3. CalendarAverages(averages)'
  BY <1>1, <1>2 DEF CalendarAverages, CalendarTypeInv
<1>4. \A c \in Calendar!Asks(s, loaded) :
        /\ c \in CalendarCalls /\ c.stream = s
        /\ ~stale' => c.span = SpanOf[s]
  <2> SUFFICES ASSUME NEW c \in Calendar!Asks(s, loaded)
               PROVE  /\ c \in CalendarCalls /\ c.stream = s
                      /\ ~stale' => c.span = SpanOf[s]
    OBVIOUS
  <2>1. loaded # Nothing /\ loaded \in Opened
    BY <1>2 DEF Calendar!Asks, CalendarTypeInv, CalendarOpened
  <2>2. c = [kind |-> "averages", stream |-> s, span |-> SpanOf[loaded]]
    BY <2>1 DEF Calendar!Asks, Calendar!Averages
  <2>3. SpanOf[loaded] \in Nat \X Nat
    BY <2>1 DEF Calendar!CalendarAssumption
  <2>4. ~stale' => loaded = s
    BY <1>1, <2>1
  <2> QED
    BY <2>2, <2>3, <2>4 DEF CalendarCalls
<1>5. Calendar!Stream(s) \in CalendarCalls /\ Calendar!Stream(s).kind # "averages"
  BY DEF Calendar!Stream, CalendarCalls
<1>6. calls' \in SUBSET CalendarCalls
  BY <1>1, <1>2, <1>4, <1>5 DEF CalendarTypeInv
<1>7. CalendarOwn'
  <2> SUFFICES ASSUME ~late' PROVE CalendarOwn'
    BY DEF CalendarOwn
  <2>1. /\ averages.of = Nothing /\ averages.days = {} /\ day = Nothing
        /\ \A c \in calls : c.kind # "averages"
    BY <1>1, <1>2 DEF CalendarLeft, Calendar!NoAverages, CalendarAsked
  <2>2. \A c \in CalendarAsked' : c \in Calendar!Asks(s, loaded)
    BY <1>1, <1>5, <2>1 DEF CalendarAsked
  <2> QED
    BY <1>1, <1>4, <2>1, <2>2 DEF CalendarOwn
<1>8. page' \in CalendarOpened /\ stale' \in BOOLEAN /\ late' \in BOOLEAN /\ asked' \in BOOLEAN
  BY <1>1, <1>2 DEF CalendarOpened, CalendarTypeInv
<1>9. /\ window' \in Int \X Int
      /\ left' \in BOOLEAN /\ right' \in BOOLEAN /\ again' \in BOOLEAN
      /\ CalendarMonths' /\ CalendarReach'
  BY <1>1, <1>3, <1>7, <1>8, CalendarShownKeeps
<1>10. CalendarTypeInv'
  BY <1>1, <1>2, <1>3, <1>6, <1>8, <1>9 DEF CalendarTypeInv, CalendarOpened
<1>11. CalendarLeft' /\ CalendarOne'
  BY <1>1 DEF CalendarLeft, CalendarOne
<1> QED
  BY <1>7, <1>9, <1>10, <1>11 DEF CalendarIInv

\* On the map nothing moves but what is open, and what is loaded.
LEMMA CalendarOnMap ==
  ASSUME CalendarIInv, page = Nothing, page' = page,
         modal' \in CalendarOpened, loaded' \in CalendarOpened,
         calls' \in SUBSET CalendarCalls, \A c \in calls' \ calls : c.kind # "averages",
         UNCHANGED <<averages, asked, window, left, right, day, stale, late, again>>
  PROVE  CalendarIInv'
<1>1. CalendarTypeInv'
  BY DEF CalendarIInv, CalendarTypeInv, CalendarAverages
<1>2. CalendarLeft'
  BY DEF CalendarIInv, CalendarLeft, CalendarAsked
<1>3. CalendarOne' /\ CalendarOwn' /\ CalendarMonths' /\ CalendarReach'
  BY DEF CalendarIInv, CalendarOne, CalendarOwn, CalendarMonths, CalendarReach
<1> QED
  BY <1>1, <1>2, <1>3 DEF CalendarIInv

LEMMA CalendarMapKeeps ==
  ASSUME Calendar!CalendarAssumption, CalendarIInv,
         \/ \E s \in Opened : Calendar!handleMarkerClickMobile(s) \/ Calendar!handleMarkerClick(s)
         \/ Calendar!ModalLink
         \/ Calendar!CloseModal
  PROVE  CalendarIInv'
<1>1. CalendarTypeInv /\ CalendarOne
  BY DEF CalendarIInv
<1>2. ASSUME NEW s \in Opened, Calendar!handleMarkerClickMobile(s) PROVE CalendarIInv'
  BY <1>2, CalendarOpensPage DEF Calendar!handleMarkerClickMobile
<1>3. ASSUME NEW s \in Opened, Calendar!handleMarkerClick(s) PROVE CalendarIInv'
  <2>1. /\ page = Nothing /\ page' = page /\ modal' = s /\ loaded' = loaded
        /\ calls' = calls \cup {Calendar!Stream(s)}
        /\ UNCHANGED <<averages, asked, window, left, right, day, stale, late, again>>
    BY <1>3 DEF Calendar!handleMarkerClick, Calendar!buttons, Calendar!history
  <2>2. Calendar!Stream(s) \in CalendarCalls /\ Calendar!Stream(s).kind # "averages"
    BY DEF Calendar!Stream, CalendarCalls
  <2>3. /\ modal' \in CalendarOpened /\ loaded' \in CalendarOpened
        /\ calls' \in SUBSET CalendarCalls /\ \A c \in calls' \ calls : c.kind # "averages"
    BY <1>1, <2>1, <2>2 DEF CalendarOpened, CalendarTypeInv
  <2> QED
    BY <2>1, <2>3, CalendarOnMap
<1>4. ASSUME Calendar!ModalLink PROVE CalendarIInv'
  <2>1. page = Nothing /\ modal \in Opened /\ Calendar!OpenPage(modal, loaded, FALSE)
    BY <1>1, <1>4 DEF Calendar!ModalLink, CalendarOne, CalendarTypeInv, CalendarOpened
  <2> QED
    BY <2>1, CalendarOpensPage
<1>5. ASSUME Calendar!CloseModal PROVE CalendarIInv'
  <2>1. /\ page = Nothing /\ page' = page /\ modal' = Nothing /\ loaded' = Nothing
        /\ calls' = calls
        /\ UNCHANGED <<averages, asked, window, left, right, day, stale, late, again>>
    BY <1>1, <1>5 DEF Calendar!CloseModal, Calendar!buttons, Calendar!history, CalendarOne
  <2>2. /\ modal' \in CalendarOpened /\ loaded' \in CalendarOpened
        /\ calls' \in SUBSET CalendarCalls /\ \A c \in calls' \ calls : c.kind # "averages"
    BY <1>1, <2>1 DEF CalendarOpened, CalendarTypeInv
  <2> QED
    BY <2>1, <2>2, CalendarOnMap
<1> QED
  BY <1>2, <1>3, <1>4, <1>5

LEMMA CalendarGoesBack ==
  ASSUME CalendarIInv, Calendar!handleCalendarGoBack
  PROVE  CalendarIInv'
<1>1. /\ page # Nothing /\ page' = Nothing /\ modal' \in {page, Nothing}
      /\ averages' = Calendar!NoAverages
      /\ late' = (late \/ \E c \in calls : c.kind = "averages")
      /\ asked' = FALSE /\ window' = Calendar!NoWindow
      /\ left' = FALSE /\ right' = FALSE /\ again' = FALSE /\ day' = Nothing /\ stale' = FALSE
      /\ UNCHANGED <<loaded, calls>>
  BY DEF Calendar!handleCalendarGoBack
<1>2. CalendarTypeInv
  BY DEF CalendarIInv
<1>3. CalendarAverages(averages)'
  BY <1>1 DEF CalendarAverages, Calendar!NoAverages, CalendarOpened
<1>4. late' \in BOOLEAN
  BY <1>1
<1>5. Calendar!NoWindow \in Int \X Int
  BY DEF Calendar!NoWindow
<1>6. CalendarTypeInv'
  BY <1>1, <1>2, <1>3, <1>4, <1>5 DEF CalendarTypeInv, CalendarOpened
<1>7. CalendarLeft'
  BY <1>1 DEF CalendarLeft, CalendarAsked
<1>8. CalendarOne' /\ CalendarOwn' /\ CalendarMonths' /\ CalendarReach'
  BY <1>1 DEF CalendarOne, CalendarOwn, CalendarMonths, CalendarReach
<1> QED
  BY <1>6, <1>7, <1>8 DEF CalendarIInv

LEMMA CalendarStreamKeeps ==
  ASSUME Calendar!CalendarAssumption, CalendarIInv, NEW c \in calls, NEW found \in BOOLEAN,
         Calendar!StreamAnswer(c, found)
  PROVE  CalendarIInv'
<1> DEFINE asks == page # Nothing /\ ~asked /\ found
           new == Calendar!Averages(page, c.stream)
<1>1. /\ loaded' = IF found THEN c.stream ELSE Nothing
      /\ calls' = (calls \ {c}) \cup (IF asks THEN {new} ELSE {})
      /\ asked' = (asked \/ asks) /\ stale' = (stale \/ (asks /\ c.stream # page))
      /\ UNCHANGED <<page, modal, averages, day, late>>
      /\ Calendar!Shown(loaded' # loaded)
  BY DEF Calendar!StreamAnswer
<1>2. /\ CalendarTypeInv /\ CalendarLeft /\ CalendarOne /\ CalendarOwn
      /\ c \in CalendarCalls /\ c.stream \in Opened
  BY DEF CalendarIInv, CalendarTypeInv, CalendarCalls
<1>3. CalendarAverages(averages)'
  BY <1>1, <1>2 DEF CalendarAverages, CalendarTypeInv
<1>4. asks => /\ new \in CalendarCalls /\ new.stream = page
              /\ c.stream = page => new.span = SpanOf[page]
  BY <1>2 DEF Calendar!Averages, CalendarCalls, CalendarTypeInv, CalendarOpened,
    Calendar!CalendarAssumption
<1>5. /\ asks \in BOOLEAN /\ asked \in BOOLEAN /\ stale \in BOOLEAN
      /\ (asks /\ c.stream # page) \in BOOLEAN
  BY <1>2 DEF CalendarTypeInv
<1>6. asks => page # Nothing
  OBVIOUS
<1> HIDE DEF asks, new
<1>7. /\ asked' \in BOOLEAN /\ stale' \in BOOLEAN /\ (stale => stale')
      /\ ~stale' => ~stale /\ (asks => c.stream = page)
  BY <1>1, <1>5
<1>8. calls' \in SUBSET CalendarCalls /\ page' \in CalendarOpened /\ loaded' \in CalendarOpened
  BY <1>1, <1>2, <1>4 DEF CalendarTypeInv, CalendarOpened
<1>9. CalendarOwn'
  <2> SUFFICES ASSUME page # Nothing, ~late PROVE CalendarOwn'
    BY <1>1 DEF CalendarOwn
  <2>1. \A d \in CalendarAsked' : d \in CalendarAsked \/ (asks /\ d = new)
    BY <1>1 DEF CalendarAsked
  <2>2. \A d \in CalendarAsked' : d.stream = page /\ (~stale' => d.span = SpanOf[page])
    BY <1>2, <1>4, <1>7, <2>1 DEF CalendarOwn
  <2> QED
    BY <1>1, <1>2, <1>7, <2>2 DEF CalendarOwn
<1>10. /\ window' \in Int \X Int
       /\ left' \in BOOLEAN /\ right' \in BOOLEAN /\ again' \in BOOLEAN
       /\ page' = Nothing => ~left' /\ ~right' /\ window' = Calendar!NoWindow
       /\ CalendarMonths' /\ CalendarReach'
  <2>1. late' \in BOOLEAN /\ (late => late')
    BY <1>1, <1>2 DEF CalendarTypeInv
  <2> QED
    BY <1>1, <1>3, <1>7, <1>8, <1>9, <2>1, CalendarShownKeeps
<1>11. CalendarTypeInv'
  BY <1>1, <1>2, <1>3, <1>7, <1>8, <1>10 DEF CalendarTypeInv
<1>12. CalendarLeft'
  BY <1>1, <1>2, <1>6, <1>10 DEF CalendarLeft, CalendarAsked
<1>13. CalendarOne'
  BY <1>1, <1>2 DEF CalendarOne
<1> QED
  BY <1>9, <1>10, <1>11, <1>12, <1>13 DEF CalendarIInv

LEMMA CalendarAveragesKeep ==
  ASSUME Calendar!CalendarAssumption, CalendarIInv, NEW c \in calls, NEW found \in BOOLEAN,
         Calendar!AveragesAnswer(c, found)
  PROVE  CalendarIInv'
<1> DEFINE days == AveragesOf[c.stream] \cap (c.span[1]..c.span[2])
<1>1. /\ c.kind = "averages" /\ calls' = calls \ {c}
      /\ averages' = IF found /\ days # {} THEN [of |-> c.stream, days |-> days]
                     ELSE Calendar!NoAverages
      /\ UNCHANGED <<page, modal, loaded, asked, day, stale, late>>
      /\ Calendar!Shown(TRUE)
  BY DEF Calendar!AveragesAnswer
<1>2. /\ CalendarTypeInv /\ CalendarLeft /\ CalendarOne /\ CalendarOwn
      /\ c \in CalendarCalls /\ c.stream \in Opened /\ c \in CalendarAsked
  BY <1>1 DEF CalendarIInv, CalendarTypeInv, CalendarCalls, CalendarAsked
<1>3. /\ days \subseteq AveragesOf[c.stream] /\ days \in SUBSET Nat
      /\ c.span = SpanOf[c.stream] => days = AveragesOf[c.stream]
  BY <1>2 DEF Calendar!CalendarAssumption
<1> HIDE DEF days
<1>4. CalendarAverages(averages)' /\ averages'.of \in {c.stream, Nothing}
      /\ (averages'.days = days \/ averages'.days = {})
  BY <1>1, <1>2, <1>3 DEF CalendarAverages, CalendarOpened, Calendar!NoAverages
<1>5. CalendarOwn'
  BY <1>1, <1>2, <1>3, <1>4 DEF CalendarOwn, CalendarAsked
<1>6. /\ page' \in CalendarOpened /\ stale' \in BOOLEAN /\ late' \in BOOLEAN
      /\ calls' \in SUBSET CalendarCalls
  BY <1>1, <1>2 DEF CalendarTypeInv
<1>7. /\ window' \in Int \X Int
      /\ left' \in BOOLEAN /\ right' \in BOOLEAN /\ again' \in BOOLEAN
      /\ page' = Nothing => ~left' /\ ~right' /\ window' = Calendar!NoWindow
      /\ CalendarMonths' /\ CalendarReach'
  BY <1>1, <1>4, <1>5, <1>6, CalendarShownKeeps
<1>8. CalendarTypeInv'
  BY <1>1, <1>2, <1>4, <1>6, <1>7 DEF CalendarTypeInv
<1>9. CalendarLeft'
  BY <1>1, <1>2, <1>7 DEF CalendarLeft
<1>10. CalendarOne'
  BY <1>1, <1>2 DEF CalendarOne
<1> QED
  BY <1>5, <1>7, <1>8, <1>9, <1>10 DEF CalendarIInv

-----------------------------------------------------------------------------
(* The calendar's buttons and days. *)

\* What a move of the window is, when it would end at a day.
LEMMA CalendarMoves ==
  ASSUME Calendar!CalendarAssumption, CalendarIInv, loaded \in Opened, NEW e \in Int,
         Calendar!MoveTo(e)
  PROVE  \/ /\ Calendar!MonthOf(e) - 2 < Calendar!MonthOf(SpanOf[loaded][1])
            /\ left' = TRUE /\ window' = window
         \/ /\ Calendar!MonthOf(e) - 2 >= Calendar!MonthOf(SpanOf[loaded][1])
            /\ window' = Calendar!WindowTo(e) /\ left' = FALSE
<1> DEFINE w == Calendar!WindowTo(e)
           earliest == Calendar!MonthOf(SpanOf[loaded][1])
<1>1. Calendar!MonthOf(w[1]) = Calendar!MonthOf(e) - 2 /\ Calendar!MonthOf(e) \in Int
  BY CalendarWindow, CalendarMonth
<1>2. SpanOf[loaded][1] \in Int
  BY DEF Calendar!CalendarAssumption
<1>3. earliest \in Int
  BY <1>2, CalendarMonth
<1>4. \/ Calendar!MonthOf(w[1]) < earliest /\ left' = TRUE /\ window' = window
      \/ ~(Calendar!MonthOf(w[1]) < earliest) /\ window' = w /\ left' = FALSE
  BY DEF Calendar!MoveTo
<1> HIDE DEF w, earliest
<1> QED
  BY <1>1, <1>3, <1>4 DEF w, earliest


\* What a move leaves alone.
LEMMA CalendarMovesOnly ==
  ASSUME CalendarIInv, page # Nothing,
         UNCHANGED <<page, modal, loaded, averages, calls, asked, day, stale, late, again>>,
         window' \in Int \X Int, left' \in BOOLEAN, right' \in BOOLEAN,
         CalendarMonths', CalendarReach'
  PROVE  CalendarIInv'
<1>1. CalendarTypeInv'
  BY DEF CalendarIInv, CalendarTypeInv, CalendarAverages
<1>2. CalendarLeft' /\ CalendarOne' /\ CalendarOwn'
  BY DEF CalendarIInv, CalendarLeft, CalendarOne, CalendarOwn, CalendarAsked
<1> QED
  BY <1>1, <1>2 DEF CalendarIInv

\* Where the calendar is.
LEMMA CalendarThere ==
  ASSUME Calendar!CalendarAssumption, CalendarIInv, Calendar!Calendar
  PROVE  LET month == Calendar!MonthOf(window[2])
         IN  /\ page # Nothing /\ loaded \in Opened
             /\ SpanOf[loaded][1] \in Int /\ SpanOf[loaded][2] \in Int
             /\ CalendarFirst = Calendar!MonthOf(SpanOf[page][1])
             /\ Calendar!MonthOf(SpanOf[loaded][1]) \in Int
             /\ window \in Int \X Int /\ window[2] \in Int /\ window # Calendar!NoWindow
             /\ window = Calendar!WindowTo(window[2])
             /\ month \in Int
             /\ Calendar!startOf(month) \in Int /\ Calendar!startOf(month) <= window[2]
             /\ Calendar!endOf(month) \in Int /\ window[2] <= Calendar!endOf(month)
<1>1. /\ page # Nothing /\ loaded \in Opened /\ window # Calendar!NoWindow
      /\ window \in Int \X Int /\ window = Calendar!WindowTo(window[2])
  BY DEF Calendar!Calendar, Calendar!calendarIsVisible, CalendarIInv, CalendarTypeInv,
    CalendarOpened, CalendarMonths
<1>2. SpanOf[loaded][1] \in Int /\ SpanOf[loaded][2] \in Int
  BY <1>1 DEF Calendar!CalendarAssumption
<1>3. Calendar!MonthOf(SpanOf[loaded][1]) \in Int
  BY <1>2, CalendarMonth
<1>4. window[2] \in Int
  BY <1>1
<1> QED
  BY <1>1, <1>2, <1>3, <1>4, CalendarMonth DEF CalendarFirst

LEMMA CalendarBackKeeps ==
  ASSUME Calendar!CalendarAssumption, CalendarIInv, Calendar!handleBackwardMovement
  PROVE  CalendarIInv'
<1> DEFINE month == Calendar!MonthOf(window[2])
           e == Calendar!endOf(month - 1)
           earliest == Calendar!MonthOf(SpanOf[loaded][1])
<1>1. /\ Calendar!Calendar /\ ~left /\ Calendar!MoveTo(e) /\ right' = FALSE
      /\ UNCHANGED <<page, modal, loaded, averages, calls, asked, day, stale, late, again>>
  BY DEF Calendar!handleBackwardMovement, Calendar!history
<1>2. /\ page # Nothing /\ loaded \in Opened /\ earliest \in Int
      /\ window \in Int \X Int /\ window[2] \in Int /\ window # Calendar!NoWindow
      /\ window = Calendar!WindowTo(window[2])
      /\ month \in Int /\ Calendar!startOf(month) \in Int /\ Calendar!startOf(month) <= window[2]
  BY <1>1, CalendarThere
<1> HIDE DEF month
<1>3. e \in Int /\ e < window[2] /\ Calendar!MonthOf(e) = month - 1
  <2>1. /\ Calendar!startOf(month - 1) \in Int /\ Calendar!endOf(month - 1) \in Int
        /\ Calendar!startOf(month - 1) <= Calendar!endOf(month - 1)
    BY <1>2, CalendarMonthEnds
  <2>2. Calendar!endOf(month - 1) < Calendar!startOf(month)
    BY <1>2, CalendarMonthsApart
  <2>3. Calendar!MonthOf(Calendar!endOf(month - 1)) = month - 1
    BY <1>2, <2>1, CalendarMonthIs
  <2> QED
    BY <1>2, <2>1, <2>2, <2>3
<1> HIDE DEF e, earliest
<1>4. \/ month - 3 < earliest /\ left' = TRUE /\ window' = window
      \/ month - 3 >= earliest /\ window' = Calendar!WindowTo(e) /\ left' = FALSE
  <2>1. \/ Calendar!MonthOf(e) - 2 < earliest /\ left' = TRUE /\ window' = window
        \/ /\ Calendar!MonthOf(e) - 2 >= earliest
           /\ window' = Calendar!WindowTo(e) /\ left' = FALSE
    BY <1>1, <1>2, <1>3, CalendarMoves DEF earliest
  <2>2. Calendar!MonthOf(e) - 2 = month - 3
    BY <1>2, <1>3
  <2> QED
    BY <2>1, <2>2
<1>5. CASE month - 3 < earliest /\ left' = TRUE /\ window' = window
  <2>1. CalendarMonths'
    BY <1>2, <1>5 DEF CalendarMonths
  <2>2. CalendarReach'
    <3> SUFFICES ASSUME page # Nothing, ~late, ~stale, loaded = page, averages.days # {}
                 PROVE  /\ window[2] <= SpanOf[page][2]
                        /\ \/ \A d \in averages.days : d <= window[2]
                           \/ CalendarEarliest >= CalendarFirst
                        /\ CalendarEarliest <= CalendarFirst
      BY <1>1, <1>5 DEF CalendarReach, CalendarEarliest, CalendarFirst
    <3>1. /\ window[2] <= SpanOf[page][2]
          /\ (\A d \in averages.days : d <= window[2]) \/ CalendarEarliest >= CalendarFirst
      BY <1>2 DEF CalendarIInv, CalendarReach
    <3>2. CalendarEarliest = month - 2 /\ CalendarFirst = earliest
      BY DEF CalendarEarliest, CalendarFirst, month, earliest
    <3> QED
      BY <1>2, <1>5, <3>1, <3>2
  <2> QED
    BY <1>1, <1>2, <1>5, <2>1, <2>2, CalendarMovesOnly
<1>6. CASE month - 3 >= earliest /\ window' = Calendar!WindowTo(e) /\ left' = FALSE
  <2>1. window' \in Int \X Int /\ window'[2] = e
    BY <1>3, <1>6, CalendarWindow
  <2>2. CalendarMonths'
    BY <1>6, <2>1 DEF CalendarMonths
  <2>3. CalendarReach'
    <3> SUFFICES ASSUME page # Nothing, ~late, ~stale, loaded = page, averages.days # {}
                 PROVE  e <= SpanOf[page][2] /\ Calendar!MonthOf(e) - 2 >= CalendarFirst
      BY <1>1, <1>6, <2>1 DEF CalendarReach, CalendarEarliest, CalendarFirst
    <3>1. window[2] <= SpanOf[page][2] /\ SpanOf[page][2] \in Int
      BY <1>2 DEF CalendarIInv, CalendarReach, Calendar!CalendarAssumption
    <3>2. CalendarFirst = earliest
      BY DEF CalendarFirst, earliest
    <3> QED
      BY <1>2, <1>3, <1>6, <3>1, <3>2
  <2> QED
    BY <1>1, <1>2, <1>6, <2>1, <2>2, <2>3, CalendarMovesOnly
<1> QED
  BY <1>4, <1>5, <1>6

LEMMA CalendarForthKeeps ==
  ASSUME Calendar!CalendarAssumption, CalendarIInv, Calendar!handleForwardMovement
  PROVE  CalendarIInv'
<1> DEFINE month == Calendar!MonthOf(window[2])
           end == Calendar!endOf(month + 1)
           last == SpanOf[loaded][2]
           e == Calendar!Smaller(end, last)
           earliest == Calendar!MonthOf(SpanOf[loaded][1])
<1>1. /\ Calendar!Calendar /\ ~right /\ Calendar!MoveTo(e) /\ right' = (right \/ end > last)
      /\ UNCHANGED <<page, modal, loaded, averages, calls, asked, day, stale, late, again>>
  BY DEF Calendar!handleForwardMovement, Calendar!history
<1>2. /\ page # Nothing /\ loaded \in Opened /\ earliest \in Int /\ last \in Int
      /\ window \in Int \X Int /\ window[2] \in Int /\ window # Calendar!NoWindow
      /\ window = Calendar!WindowTo(window[2])
      /\ month \in Int /\ Calendar!endOf(month) \in Int /\ window[2] <= Calendar!endOf(month)
  BY <1>1, CalendarThere
<1>3. end \in Int /\ window[2] <= end
  <2> HIDE DEF month
  <2>1. /\ Calendar!startOf(month + 1) \in Int /\ Calendar!endOf(month + 1) \in Int
        /\ Calendar!startOf(month + 1) <= Calendar!endOf(month + 1)
    BY <1>2, CalendarMonthEnds
  <2>2. Calendar!endOf(month) < Calendar!startOf(month + 1)
    BY <1>2, CalendarMonthsApart
  <2> QED
    BY <1>2, <2>1, <2>2
<1> HIDE DEF end, last
<1>4. /\ e \in Int /\ e <= last /\ (window[2] <= last => window[2] <= e)
      /\ end > last => e = last
  BY <1>2, <1>3 DEF Calendar!Smaller
<1> HIDE DEF e
<1>5. Calendar!MonthOf(e) \in Int /\ (window[2] <= last => month <= Calendar!MonthOf(e))
  BY <1>2, <1>4, CalendarMonth, CalendarMonthsAscend
<1> HIDE DEF month, earliest
<1>6. \/ Calendar!MonthOf(e) - 2 < earliest /\ left' = TRUE /\ window' = window
      \/ /\ Calendar!MonthOf(e) - 2 >= earliest
         /\ window' = Calendar!WindowTo(e) /\ left' = FALSE
  BY <1>1, <1>2, <1>4, CalendarMoves DEF earliest
<1>7. right' \in BOOLEAN /\ (right' => end > last)
  BY <1>1
<1>8. page = loaded => /\ CalendarEarliest = month - 2 /\ CalendarFirst = earliest
                       /\ SpanOf[page][2] = last
  BY DEF CalendarEarliest, CalendarFirst, month, earliest, last
<1>9. CASE Calendar!MonthOf(e) - 2 < earliest /\ left' = TRUE /\ window' = window
  <2>1. CalendarMonths'
    BY <1>2, <1>9 DEF CalendarMonths
  <2>2. CalendarReach'
    <3> SUFFICES ASSUME page # Nothing, ~late, ~stale, loaded = page, averages.days # {}
                 PROVE  /\ window[2] <= SpanOf[page][2]
                        /\ CalendarEarliest <= CalendarFirst
                        /\ \A d \in averages.days : d <= window[2]
      BY <1>1, <1>9 DEF CalendarReach, CalendarEarliest, CalendarFirst
    <3>1. /\ window[2] <= SpanOf[page][2]
          /\ (\A d \in averages.days : d <= window[2]) \/ CalendarEarliest >= CalendarFirst
      BY <1>2 DEF CalendarIInv, CalendarReach
    <3>2. month - 2 < earliest
      BY <1>2, <1>5, <1>8, <1>9, <3>1
    <3> QED
      BY <1>2, <1>8, <3>1, <3>2
  <2> QED
    BY <1>1, <1>2, <1>7, <1>9, <2>1, <2>2, CalendarMovesOnly
<1>10. CASE /\ Calendar!MonthOf(e) - 2 >= earliest
            /\ window' = Calendar!WindowTo(e) /\ left' = FALSE
  <2>1. window' \in Int \X Int /\ window'[2] = e /\ left' \in BOOLEAN
    BY <1>4, <1>10, CalendarWindow
  <2>2. CalendarMonths'
    BY <1>10, <2>1 DEF CalendarMonths
  <2>3. CalendarReach'
    <3> SUFFICES ASSUME page # Nothing, ~late, ~stale, loaded = page, averages.days # {}
                 PROVE  /\ e <= SpanOf[page][2] /\ Calendar!MonthOf(e) - 2 >= CalendarFirst
                        /\ ~left'
                        /\ right' => \A d \in averages.days : d <= e
      BY <1>1, <2>1 DEF CalendarReach, CalendarEarliest, CalendarFirst
    <3>1. \A d \in averages.days : d \in Nat /\ d <= last
      <4>1. averages.of = page /\ averages.days \subseteq AveragesOf[page] /\ page \in Opened
        BY <1>2 DEF CalendarIInv, CalendarTypeInv, CalendarAverages, CalendarOwn,
          Calendar!CalendarAssumption
      <4> QED
        BY <4>1 DEF Calendar!CalendarAssumption, last
    <3> QED
      BY <1>4, <1>7, <1>8, <1>10, <3>1
  <2> QED
    BY <1>1, <1>2, <1>7, <2>1, <2>2, <2>3, CalendarMovesOnly
<1> QED
  BY <1>6, <1>9, <1>10

LEMMA CalendarDayKeeps ==
  ASSUME Calendar!CalendarAssumption, CalendarIInv, NEW d, Calendar!handleDayClick(d)
  PROVE  CalendarIInv'
<1>1. /\ Calendar!Calendar /\ Calendar!CellsWith(d) # {} /\ day' \in {d, Nothing}
      /\ UNCHANGED <<page, modal, loaded, averages, calls, asked, window, left, right, stale,
                     late, again>>
  BY DEF Calendar!handleDayClick, Calendar!buttons, Calendar!history
<1>2. CalendarTypeInv'
  BY <1>1 DEF CalendarIInv, CalendarTypeInv, CalendarAverages
<1>3. page # Nothing
  BY <1>1, CalendarThere
<1>4. d \in averages.days
  <2>1. PICK c : c \in Calendar!CellsWith(d)
    BY <1>1
  <2>2. d \in Calendar!getVisibleMonthsData(averages.days, window)
    BY <2>1, CalendarCells DEF CalendarCellAt
  <2> QED
    BY <2>2 DEF Calendar!getVisibleMonthsData
<1>5. CalendarOwn'
  <2>1. averages.of \in Opened /\ averages.of # Nothing /\ d \in AveragesOf[averages.of]
    BY <1>4 DEF CalendarIInv, CalendarTypeInv, CalendarAverages, Calendar!CalendarAssumption
  <2> QED
    BY <1>1, <2>1 DEF CalendarIInv, CalendarOwn, CalendarAsked
<1>6. CalendarLeft' /\ CalendarOne' /\ CalendarMonths' /\ CalendarReach'
  BY <1>1, <1>3 DEF CalendarIInv, CalendarLeft, CalendarOne, CalendarMonths, CalendarReach,
    CalendarEarliest, CalendarFirst
<1> QED
  BY <1>2, <1>5, <1>6 DEF CalendarIInv

-----------------------------------------------------------------------------
(* The invariant holds, and what follows. *)

LEMMA CalendarInitHolds == Calendar!Init => CalendarIInv
<1> SUFFICES ASSUME Calendar!Init PROVE CalendarIInv
  OBVIOUS
<1>1. CalendarTypeInv
  <2>1. CalendarAverages(Calendar!NoAverages)
    BY DEF Calendar!NoAverages, CalendarAverages, CalendarOpened
  <2>2. Calendar!NoWindow \in Int \X Int
    BY DEF Calendar!NoWindow
  <2> QED
    BY <2>1, <2>2 DEF Calendar!Init, CalendarTypeInv, CalendarOpened
<1>2. CalendarLeft /\ CalendarOne /\ CalendarOwn /\ CalendarMonths /\ CalendarReach
  BY DEF Calendar!Init, CalendarLeft, CalendarOne, CalendarOwn, CalendarMonths, CalendarReach,
    CalendarAsked
<1> QED
  BY <1>1, <1>2 DEF CalendarIInv

LEMMA CalendarNextKeeps ==
  Calendar!CalendarAssumption /\ CalendarIInv /\ [Calendar!Next]_(Calendar!vars) => CalendarIInv'
<1> SUFFICES ASSUME Calendar!CalendarAssumption, CalendarIInv, [Calendar!Next]_(Calendar!vars)
             PROVE  CalendarIInv'
  OBVIOUS
<1>1. CASE UNCHANGED Calendar!vars
  <2>1. UNCHANGED <<page, modal, loaded, averages, calls, asked, window, left, right, day, stale,
                    late, again>>
    BY <1>1 DEF Calendar!vars, Calendar!buttons, Calendar!history
  <2>2. CalendarTypeInv'
    BY <2>1 DEF CalendarIInv, CalendarTypeInv, CalendarAverages
  <2>3. CalendarLeft' /\ CalendarOne' /\ CalendarOwn' /\ CalendarMonths' /\ CalendarReach'
    BY <2>1 DEF CalendarIInv, CalendarLeft, CalendarOne, CalendarOwn, CalendarMonths,
      CalendarReach, CalendarAsked, CalendarEarliest, CalendarFirst
  <2> QED
    BY <2>2, <2>3 DEF CalendarIInv
<1>2. CASE \/ \E s \in Opened :
                Calendar!handleMarkerClickMobile(s) \/ Calendar!handleMarkerClick(s)
           \/ Calendar!ModalLink \/ Calendar!CloseModal
  BY <1>2, CalendarMapKeeps
<1>3. CASE Calendar!handleCalendarGoBack
  BY <1>3, CalendarGoesBack
<1>4. CASE \E c \in calls, found \in BOOLEAN :
             Calendar!StreamAnswer(c, found) \/ Calendar!AveragesAnswer(c, found)
  BY <1>4, CalendarStreamKeeps, CalendarAveragesKeep
<1>5. CASE Calendar!handleBackwardMovement \/ Calendar!handleForwardMovement
  BY <1>5, CalendarBackKeeps, CalendarForthKeeps
<1>6. CASE \E d \in Calendar!Days : Calendar!handleDayClick(d)
  BY <1>6, CalendarDayKeeps
<1> QED
  BY <1>1, <1>2, <1>3, <1>4, <1>5, <1>6 DEF Calendar!Next

LEMMA CalendarInvImplies ==
  Calendar!CalendarAssumption /\ CalendarIInv =>
    Calendar!CalendarShowsItsStream /\ Calendar!AveragesStayInReach
<1> SUFFICES ASSUME Calendar!CalendarAssumption, CalendarIInv
             PROVE  Calendar!CalendarShowsItsStream /\ Calendar!AveragesStayInReach
  OBVIOUS
<1>1. CalendarTypeInv /\ CalendarOwn /\ CalendarReach
  BY DEF CalendarIInv
<1>2. Calendar!CalendarShowsItsStream
  <2>1. ASSUME Calendar!Calendar, NEW d \in Calendar!getVisibleMonthsData(averages.days, window)
        PROVE  Calendar!Cardinality(Calendar!CellsWith(d)) = 1
    <3> DEFINE c == <<Calendar!MonthOf(d), d - (d % WeekLength), d % WeekLength>>
    <3>1. window = Calendar!WindowTo(window[2])
      BY <2>1, CalendarThere
    <3>2. Calendar!CellsWith(d) = {c}
      BY <1>1, <3>1, CalendarCell
    <3> HIDE DEF c
    <3>3. Cardinality({c}) = 1
      BY FS_Singleton
    <3> QED
      BY <3>2, <3>3, CalendarLibrary
  <2> QED
    BY <1>1, <2>1 DEF Calendar!CalendarShowsItsStream, CalendarOwn
<1>3. Calendar!AveragesStayInReach
  <2> SUFFICES ASSUME Calendar!Calendar, ~again, ~late, ~stale, loaded = page
               PROVE  /\ left => \A d \in averages.days : window[1] <= d
                      /\ right => \A d \in averages.days : d <= window[2]
                      /\ calls = {} => averages.days = AveragesOf[page]
    BY DEF Calendar!AveragesStayInReach
  <2>1. /\ page # Nothing /\ page \in Opened /\ window # Calendar!NoWindow
        /\ window[2] \in Int /\ window = Calendar!WindowTo(window[2])
        /\ CalendarEarliest \in Int /\ CalendarFirst \in Int
    BY CalendarThere DEF CalendarEarliest, CalendarFirst
  <2>2. calls = {} => averages.days = AveragesOf[page]
    <3>1. calls = {} => averages.days # {}
      BY DEF Calendar!Calendar, Calendar!calendarIsVisible
    <3> QED
      BY <1>1, <2>1, <3>1 DEF CalendarOwn
  <2>3. right => \A d \in averages.days : d <= window[2]
    BY <1>1, <2>1 DEF CalendarReach
  <2>4. ASSUME left, NEW d \in averages.days PROVE window[1] <= d
    <3>1. CalendarEarliest <= CalendarFirst
      BY <1>1, <2>1, <2>4 DEF CalendarReach
    <3>2. averages.of = page /\ d \in AveragesOf[page] /\ d \in Nat
      BY <1>1, <2>1 DEF CalendarOwn, CalendarTypeInv, CalendarAverages,
        Calendar!CalendarAssumption
    <3>3. SpanOf[page][1] \in Int /\ SpanOf[page][1] <= d
      BY <2>1, <3>2 DEF Calendar!CalendarAssumption
    <3>4. window[1] = Calendar!startOf(CalendarEarliest)
      BY <2>1, CalendarWindow DEF CalendarEarliest
    <3>5. Calendar!startOf(CalendarEarliest) <= Calendar!startOf(CalendarFirst)
      BY <2>1, <3>1, CalendarStartsAscend
    <3>6. /\ Calendar!startOf(CalendarFirst) <= SpanOf[page][1]
          /\ Calendar!startOf(CalendarFirst) \in Int
      BY <3>3, CalendarMonth DEF CalendarFirst
    <3>7. Calendar!startOf(CalendarEarliest) \in Int
      BY <2>1, CalendarMonthEnds
    <3> QED
      BY <3>2, <3>3, <3>4, <3>5, <3>6, <3>7
  <2> QED
    BY <2>2, <2>3, <2>4
<1> QED
  BY <1>2, <1>3

-----------------------------------------------------------------------------
(* What follows for the page. *)

\* Each screen keeps its invariant while it is shown; the thresholds rest meanwhile.
StreamScreensInv ==
  /\ screen = "graph" => GraphIInv
  /\ IF screen = "slider" THEN SliderIInv
     ELSE defaultValues = Zeros /\ thresholdValues = Zeros /\ userValues = Absent /\ delayed = Absent
          /\ crossed = FALSE
  /\ screen = "calendar" => CalendarIInv
  /\ screen = "mobile" => MobileIInv
  /\ screen = "timelapse" => LapseIInv

LEMMA StreamScreensInit == WebInit => StreamScreensInv
<1> SUFFICES ASSUME WebInit PROVE StreamScreensInv
  OBVIOUS
<1>1. /\ screen = "graph" => Graph!Init
      /\ screen = "slider" => Init
      /\ screen = "calendar" => Calendar!Init
      /\ screen = "mobile" => Mobile!Init
      /\ screen = "timelapse" => Lapse!Init
  BY DEF WebInit, ScreenInit
<1>2. screen # "slider" => /\ defaultValues = Zeros /\ thresholdValues = Zeros /\ userValues = Absent
                           /\ delayed = Absent /\ crossed = FALSE
  BY DEF WebInit, OthersIdle
<1> QED
  BY <1>1, <1>2, WebConstants, GraphInitHolds, SliderInitHolds, MobileInitHolds, LapseInitHolds,
     CalendarInitHolds
  DEF StreamScreensInv

\* While another screen is shown nothing moves the thresholds.
LEMMA ThresholdsRest ==
  ASSUME [WebNext]_all, screen # "slider"
  PROVE  UNCHANGED <<defaultValues, thresholdValues, userValues, delayed, crossed>>
<1>1. CASE UNCHANGED all
  BY <1>1 DEF all
<1>2. CASE WebNext
  BY <1>2 DEF WebNext, On, OthersStay, GraphScreen, MarkersScreen, DormantScreen, SliderScreen,
    CalendarScreen, ListsScreen, ViewsScreen, FiltersScreen, MobileScreen, CrowdScreen,
    SearchScreen, TimelapseScreen, OverlaysScreen, ConsentScreen, PanelScreen, LinkScreen
<1> QED
  BY <1>1, <1>2

LEMMA StreamScreensNext == StreamScreensInv /\ [WebNext]_all => StreamScreensInv'
<1> SUFFICES ASSUME StreamScreensInv, [WebNext]_all PROVE StreamScreensInv'
  OBVIOUS
<1>1. screen' = screen
  BY StreamSteps
<1>2. screen = "graph" => GraphIInv'
  BY StreamSteps, WebConstants, GraphNextKeeps DEF StreamScreensInv
<1>3. screen = "slider" => SliderIInv'
  BY StreamSteps, SliderNextKeeps DEF StreamScreensInv
<1>4. screen = "mobile" => MobileIInv'
  BY StreamSteps, WebConstants, MobileNextKeeps DEF StreamScreensInv
<1>5. screen = "timelapse" => LapseIInv'
  BY StreamSteps, WebConstants, LapseNextKeeps DEF StreamScreensInv
<1>6. screen # "slider" => /\ defaultValues' = Zeros /\ thresholdValues' = Zeros /\ userValues' = Absent
                           /\ delayed' = Absent /\ crossed' = FALSE
  BY ThresholdsRest DEF StreamScreensInv
<1>7. screen = "calendar" => CalendarIInv'
  BY StreamSteps, WebConstants, CalendarNextKeeps DEF StreamScreensInv
<1> QED
  BY <1>1, <1>2, <1>3, <1>4, <1>5, <1>6, <1>7 DEF StreamScreensInv

\* Whatever screen is shown, its invariant holds throughout.
THEOREM StreamScreensHold == WebSpec => []StreamScreensInv
BY StreamScreensInit, StreamScreensNext, PTL DEF WebSpec

\* Whatever is opened, dragged, played, fetched and answered on these screens, stores,
\* fetchers, calls, markers and paths hold what their types say.
THEOREM StreamTypesHold ==
  WebSpec => [](/\ screen = "graph" => GraphTypeInv
                /\ screen = "slider" => SliderTypeInv
                /\ screen = "calendar" => CalendarTypeInv
                /\ screen = "mobile" => MobileTypeInv
                /\ screen = "timelapse" => LapseTypeInv)
<1>1. StreamScreensInv => /\ screen = "graph" => GraphTypeInv
                          /\ screen = "slider" => SliderTypeInv
                          /\ screen = "calendar" => CalendarTypeInv
                          /\ screen = "mobile" => MobileTypeInv
                          /\ screen = "timelapse" => LapseTypeInv
  BY DEF StreamScreensInv, GraphIInv, SliderIInv, CalendarIInv, MobileIInv, MobileDrawnInv,
      LapseIInv
<1> QED
  BY <1>1, StreamScreensHold, PTL

\* The fetcher of the graph never waits for a request that was answered, failed, or was
\* sent by the graph of another stream; so it never stops fetching.
THEOREM FetcherIsFreed == WebSpec => []FetcherWaitsForACall
<1>1. StreamScreensInv => FetcherWaitsForACall
  BY GraphInvImplies DEF StreamScreensInv, FetcherWaitsForACall
<1> QED
  BY <1>1, StreamScreensHold, PTL

\* The ranges the graph recorded as fetched are loaded, in whatever order answers come,
\* unless they were recorded for measurements that were replaced or mixed with others.
THEOREM RecordsAreTrue == WebSpec => []RecordedRangesAreLoaded
<1>1. StreamScreensInv => RecordedRangesAreLoaded
  BY GraphInvImplies DEF StreamScreensInv, RecordedRangesAreLoaded
<1> QED
  BY <1>1, StreamScreensHold, PTL

\* The thresholds in force ascend, in the slider and on the axis of the graph: typing,
\* resetting, distributing and fetching keep the order, in decimals as in whole numbers,
\* and so do a click on the slider as long as no two thumbs coincide and a drag as long
\* as all of them are on whole numbers.
THEOREM OrderKept == WebSpec => []ThresholdsAscend
<1>1. ASSUME StreamScreensInv PROVE ThresholdsAscend
  <2>1. CASE screen = "slider"
    BY <1>1, <2>1, SliderInvImplies DEF StreamScreensInv
  <2>2. CASE screen # "slider"
    <3>1. thresholdValues = Zeros /\ Thresholds = Zeros
      BY <1>1, <2>2 DEF StreamScreensInv, Thresholds
    <3>2. /\ Zeros.min = 0 /\ Zeros.low = 0 /\ Zeros.middle = 0 /\ Zeros.high = 0 /\ Zeros.max = 0
      BY ScaleAssumption DEF Keys
    <3>3. getYAxisOptions = <<0, 0, 0, 0, 0>>
      BY <3>1, <3>2 DEF getYAxisOptions
    <3>4. Ascend(thresholdValues)
      BY <3>1, <3>2 DEF Ascend
    <3>5. \A i \in 1..4 : getYAxisOptions[i] <= getYAxisOptions[i + 1]
      BY <3>3
    <3> QED
      BY <3>4, <3>5 DEF ThresholdsAscend
  <2> QED
    BY <2>1, <2>2
<1> QED
  BY <1>1, StreamScreensHold, PTL

\* Whatever order updates land in: when none is on its way, the slider shows the
\* thresholds by which the map and the graph are coloured.
THEOREM SliderFollows == WebSpec => []SliderAndMapAgree
<1>1. ASSUME StreamScreensInv PROVE SliderAndMapAgree
  <2>1. CASE screen = "slider"
    BY <1>1, <2>1, SliderInvImplies DEF StreamScreensInv
  <2>2. CASE screen # "slider"
    BY <1>1, <2>2 DEF StreamScreensInv, SliderAndMapAgree, Thresholds
  <2> QED
    BY <2>1, <2>2
<1> QED
  BY <1>1, StreamScreensHold, PTL

\* However streams are opened, left and answered late: the calendar has the averages of
\* the stream in the URL, each in the one cell of its day, and a button is disabled only
\* when no average is on its side, but for what the two properties except.
THEOREM CalendarFollows == WebSpec => []CalendarIsOfItsStream
<1>1. StreamScreensInv => CalendarIsOfItsStream
  BY WebConstants, CalendarInvImplies DEF StreamScreensInv, CalendarIsOfItsStream
<1> QED
  BY <1>1, StreamScreensHold, PTL

\* However sessions are opened and left, and whatever frames, answers and notes come
\* late: with nothing under way the path on the map is that of the open session, in the
\* colours in force, with its labels and its notes, and nothing else is drawn unless a
\* session was closed before its frame came.
THEOREM PathFollows == WebSpec => []PathIsOfTheSession
<1>1. StreamScreensInv => PathIsOfTheSession
  BY WebConstants, MobileInvImplies DEF StreamScreensInv, PathIsOfTheSession
<1> QED
  BY <1>1, StreamScreensHold, PTL

\* However the step is dragged, played and set back while hours arrive: the markers are
\* those of the hour the axis shows, each as it would be drawn anew.
THEOREM TimelapseFollows == WebSpec => []TimelapseShowsItsStep
<1>1. StreamScreensInv => TimelapseShowsItsStep
  BY WebConstants, LapseInvImplies DEF StreamScreensInv, TimelapseShowsItsStep
<1> QED
  BY <1>1, StreamScreensHold, PTL
=============================================================================
