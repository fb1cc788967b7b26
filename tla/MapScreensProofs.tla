-------------------------- MODULE MapScreensProofs --------------------------
(***************************************************************************)
(* What is proved of the other screens of the map: the markers of fixed    *)
(* sessions, the lists of sessions, the filters, the views of the map      *)
(* page, the search for a place, the overlays, the crowd map, the cookie   *)
(* settings, exports and links.                                            *)
(***************************************************************************)
EXTENDS WebPage, FiniteSetTheorems, SequenceTheorems, TLAPS

-----------------------------------------------------------------------------
(* The page. *)

\* A step of the page is a step of the screen it shows.
LEMMA MapSteps ==
  ASSUME [WebNext]_all
  PROVE  /\ screen' = screen
         /\ screen = "markers" => [Markers!Next]_(Markers!vars)
         /\ screen = "dormant" => [Dormant!Next]_(Dormant!vars)
         /\ screen = "lists" => [Lists!Next]_(Lists!vars)
         /\ screen = "filters" => [Filter!Next]_(Filter!vars)
         /\ screen = "views" => [Views!Next]_(Views!vars)
         /\ screen = "search" => [Search!Next]_(Search!vars)
         /\ screen = "overlays" => [Overlay!Next]_(Overlay!vars)
         /\ screen = "crowd" => [Crowd!Next]_(Crowd!vars)
         /\ screen = "consent" => [Cookies!Next]_(Cookies!vars)
         /\ screen \in {"panel", "link"} => [Popup!Next]_(Popup!vars)
<1>1. CASE UNCHANGED all
  <2>1. UNCHANGED Markers!vars
    BY <1>1 DEF all, Markers!vars, Markers!fetching, Markers!map
  <2>2. UNCHANGED Dormant!vars
    BY <1>1 DEF all, Dormant!vars
  <2>3. UNCHANGED Overlay!vars
    BY <1>1 DEF all, Overlay!vars
  <2>4. UNCHANGED Crowd!vars
    BY <1>1 DEF all, Crowd!vars, Crowd!info
  <2>5. UNCHANGED Cookies!vars
    BY <1>1 DEF all, Cookies!vars
  <2>6. UNCHANGED Popup!vars
    BY <1>1 DEF all, Popup!vars, Popup!panel, Popup!link
  <2>7. UNCHANGED Views!vars
    BY <1>1 DEF all, Views!vars
  <2>8. UNCHANGED Search!vars
    BY <1>1 DEF all, Search!vars, Search!typing, Search!chosen, Search!place,
      Search!sought
  <2>9. UNCHANGED Lists!vars
    BY <1>1 DEF all, Lists!vars, Lists!history
  <2>10. UNCHANGED Filter!vars
    BY <1>1 DEF all, Filter!vars, Filter!suggestions
  <2>11. screen' = screen
    BY <1>1 DEF all
  <2> QED
    BY <2>1, <2>2, <2>3, <2>4, <2>5, <2>6, <2>7, <2>8, <2>9, <2>10, <2>11
<1>2. CASE WebNext
  BY <1>2 DEF WebNext, On, GraphScreen, MarkersScreen, DormantScreen, SliderScreen,
    CalendarScreen, ListsScreen, ViewsScreen, FiltersScreen, MobileScreen, CrowdScreen,
    SearchScreen, TimelapseScreen, OverlaysScreen, ConsentScreen, PanelScreen, LinkScreen,
    Popup!Next
<1> QED
  BY <1>1, <1>2

-----------------------------------------------------------------------------
(* The markers of active fixed sessions. *)

MarkersRefs ==
  [markers : SUBSET Streams, clustered : SUBSET Streams, overlays : SUBSET Streams,
   clusters : SUBSET SUBSET Streams, clusterer : BOOLEAN, given : SUBSET Streams,
   listening : BOOLEAN, zoom : Markers!Zooms \cup {0}, drawn : Markers!Zooms \cup {0}, again : BOOLEAN]

MarkersTypeInv ==
  /\ sessions \in SUBSET Streams
  /\ selected \in Streams \cup {Nothing}
  /\ loaded \in BOOLEAN /\ pending \in BOOLEAN /\ moved \in BOOLEAN
  /\ zoom \in Markers!Zooms
  /\ due \in SUBSET {"data", "selection", "page"}
  /\ shown \in MarkersRefs

\* Markers are of sessions, overlays and clusters of markers, and a marker is flagged as
\* clustered exactly while it is in a cluster.
MarkersTidy(m) ==
  /\ m.markers \subseteq sessions
  /\ m.overlays \subseteq m.markers /\ m.given \subseteq m.markers
  /\ m.clustered = UNION m.clusters /\ m.clustered \subseteq m.markers
  /\ ~m.clusterer => m.clusters = {} /\ ~m.listening

\* The stream that is open, or on its way.
MarkersOpened ==
  /\ pending => selected # Nothing /\ ~loaded
  /\ loaded => selected # Nothing

\* The page alone renders again only while no stream is selected, and the data change
\* only while there is no clusterer, or a stream is selected.
MarkersDueFits ==
  /\ "page" \in due => due = {"page"} /\ selected = Nothing
  /\ "data" \in due /\ selected = Nothing => ~shown.clusterer

\* Once a stream is asked for, a clusterer that is left has its listener, so that it
\* takes the clusters away when it goes.
MarkersListens ==
  selected # Nothing /\ shown.clusterer /\ ~(pending /\ "data" \in due) => shown.listening

MarkersInSight(S) == {s \in S : Markers!InView(Position[s])}

\* With a stream open its session alone is shown.
MarkersLone ==
  loaded /\ due = {} =>
    /\ ~shown.clusterer
    /\ shown.markers = sessions \cap {selected}
    /\ moved \/ MarkersInSight(shown.markers) \subseteq shown.overlays

\* With none selected every session in view is shown, and once the clusterer was there
\* no marker beside its cluster.
MarkersAllShown ==
  selected = Nothing /\ due = {} /\ ~moved =>
    /\ shown.again => shown.overlays \cap UNION shown.clusters = {}
    /\ MarkersInSight(sessions) \subseteq shown.overlays \cup UNION shown.clusters

\* The inductive invariant.
MarkersIInv == MarkersTypeInv /\ MarkersTidy(shown) /\ MarkersOpened /\ MarkersDueFits /\ MarkersListens /\ MarkersLone /\ MarkersAllShown

-----------------------------------------------------------------------------
(* What the operators do to the refs. *)

\* The clusters of the markers g.
MarkersCrowdsOf(g) == {c \in Markers!clusterMarkers(g, zoom) : Markers!Cardinality(c) > 1}

LEMMA MarkersCrowdsAreOfTheGiven ==
  ASSUME NEW g
  PROVE  /\ MarkersCrowdsOf(g) \in SUBSET SUBSET g /\ UNION MarkersCrowdsOf(g) \subseteq g
         /\ \A m : m.given = g => Markers!Crowds(m) = MarkersCrowdsOf(g)
BY DEF MarkersCrowdsOf, Markers!Crowds, Markers!clusterMarkers

LEMMA MarkersGroupedIs ==
  ASSUME NEW m \in MarkersRefs, NEW C \in SUBSET SUBSET Streams
  PROVE  /\ Markers!Grouped(m, C) \in MarkersRefs
         /\ Markers!Grouped(m, C) = [m EXCEPT !.clusters = C, !.clustered = UNION C]
         /\ Markers!Grouped(m, C).clusters = C /\ Markers!Grouped(m, C).clustered = UNION C
         /\ Markers!Grouped(m, C).markers = m.markers /\ Markers!Grouped(m, C).overlays = m.overlays
         /\ Markers!Grouped(m, C).clusterer = m.clusterer /\ Markers!Grouped(m, C).given = m.given
         /\ Markers!Grouped(m, C).listening = m.listening /\ Markers!Grouped(m, C).zoom = m.zoom
         /\ Markers!Grouped(m, C).drawn = m.drawn /\ Markers!Grouped(m, C).again = m.again
<1> DEFINE U == UNION C
<1>1. U \in SUBSET Streams
  OBVIOUS
<1>2. Markers!Grouped(m, C) = [m EXCEPT !.clusters = C, !.clustered = U]
  BY DEF Markers!Grouped
<1> HIDE DEF U
<1>3. /\ Markers!Grouped(m, C) \in MarkersRefs
      /\ Markers!Grouped(m, C).clusters = C /\ Markers!Grouped(m, C).clustered = U
      /\ Markers!Grouped(m, C).markers = m.markers /\ Markers!Grouped(m, C).overlays = m.overlays
      /\ Markers!Grouped(m, C).clusterer = m.clusterer /\ Markers!Grouped(m, C).given = m.given
      /\ Markers!Grouped(m, C).listening = m.listening /\ Markers!Grouped(m, C).zoom = m.zoom
      /\ Markers!Grouped(m, C).drawn = m.drawn /\ Markers!Grouped(m, C).again = m.again
  BY <1>1, <1>2 DEF MarkersRefs
<1> QED
  BY <1>2, <1>3 DEF U

\* The same but for the clusters.
MarkersAlike(r, m) ==
  /\ r.markers = m.markers /\ r.overlays = m.overlays /\ r.clusterer = m.clusterer
  /\ r.given = m.given /\ r.listening = m.listening /\ r.drawn = m.drawn /\ r.again = m.again

\* The first listener acts once per zoom.
LEMMA MarkersClusteringEndIs ==
  ASSUME MarkersTypeInv, NEW m \in MarkersRefs
  PROVE  LET r == Markers!handleClusteringEnd(m)
         IN  /\ r \in MarkersRefs /\ MarkersAlike(r, m) /\ r.zoom = zoom
             /\ m.zoom = zoom => r = m
             /\ m.zoom # zoom => r.clusters \subseteq MarkersCrowdsOf(m.given) /\ r.clustered = UNION r.clusters
<1>1. CASE zoom = m.zoom
  BY <1>1 DEF Markers!handleClusteringEnd, MarkersAlike
<1>2. CASE zoom # m.zoom
  <2> DEFINE at == [m EXCEPT !.zoom = zoom]
             C == {c \in Markers!Crowds(m) : Markers!CrowdInView(c)}
  <2>1. zoom \in Markers!Zooms /\ m.given \in SUBSET Streams
    BY DEF MarkersTypeInv, MarkersRefs
  <2>2. at \in MarkersRefs /\ MarkersAlike(at, m) /\ at.zoom = zoom
    BY <2>1 DEF MarkersRefs, MarkersAlike
  <2>3. C \subseteq MarkersCrowdsOf(m.given)
    BY MarkersCrowdsAreOfTheGiven
  <2>4. C \in SUBSET SUBSET Streams
    <3> HIDE DEF C
    <3>1. MarkersCrowdsOf(m.given) \in SUBSET SUBSET m.given
      BY MarkersCrowdsAreOfTheGiven
    <3> QED
      BY <2>1, <2>3, <3>1
  <2>5. Markers!handleClusteringEnd(m) = Markers!Grouped(at, C)
    BY <1>2 DEF Markers!handleClusteringEnd
  <2> DEFINE r == Markers!Grouped(at, C)
  <2> HIDE DEF at, C
  <2>6. /\ r \in MarkersRefs /\ r.clusters = C /\ r.clustered = UNION C
        /\ MarkersAlike(r, at) /\ r.zoom = at.zoom
    BY <2>2, <2>4, MarkersGroupedIs DEF MarkersAlike
  <2> HIDE DEF r
  <2> QED
    BY <1>2, <2>2, <2>3, <2>5, <2>6 DEF MarkersAlike, r
<1> QED
  BY <1>1, <1>2

LEMMA MarkersAllClustersIs ==
  ASSUME NEW m \in MarkersRefs
  PROVE  LET r == Markers!AllClusters(m)
         IN  /\ r \in MarkersRefs /\ MarkersAlike(r, m) /\ r.zoom = m.zoom
             /\ ~m.listening => r = m
             /\ m.listening => r.clusters = MarkersCrowdsOf(m.given) /\ r.clustered = UNION r.clusters
<1>1. Markers!Crowds(m) = MarkersCrowdsOf(m.given) /\ MarkersCrowdsOf(m.given) \in SUBSET SUBSET Streams
  <2>1. m.given \in SUBSET Streams
    BY DEF MarkersRefs
  <2>2. MarkersCrowdsOf(m.given) \in SUBSET SUBSET m.given
    BY MarkersCrowdsAreOfTheGiven
  <2>3. Markers!Crowds(m) = MarkersCrowdsOf(m.given)
    BY MarkersCrowdsAreOfTheGiven
  <2> QED
    BY <2>1, <2>2, <2>3
<1> DEFINE C == MarkersCrowdsOf(m.given)
<1>2. Markers!AllClusters(m) = IF m.listening THEN Markers!Grouped(m, C) ELSE m
  BY <1>1 DEF Markers!AllClusters
<1> HIDE DEF C
<1>3. CASE m.listening
  <2> DEFINE r == Markers!Grouped(m, C)
  <2>1. /\ r \in MarkersRefs /\ r.clusters = C /\ r.clustered = UNION C
        /\ MarkersAlike(r, m) /\ r.zoom = m.zoom
    BY <1>1, MarkersGroupedIs DEF MarkersAlike, C
  <2> HIDE DEF r
  <2> QED
    BY <1>2, <1>3, <2>1 DEF C, r
<1>4. CASE ~m.listening
  BY <1>2, <1>4 DEF MarkersAlike
<1> QED
  BY <1>3, <1>4

\* Rendering the clusterer changes clusters only: to those of its markers if the second
\* listener is there, to some of them if the zoom is another one, else not.
LEMMA MarkersRenderIs ==
  ASSUME MarkersTypeInv, NEW m \in MarkersRefs
  PROVE  LET r == Markers!render(m)
         IN  /\ r \in MarkersRefs /\ MarkersAlike(r, m)
             /\ ~m.clusterer => r = m
             /\ m.clusterer => r.zoom = zoom
             /\ m.clusterer /\ m.listening => r.clusters = MarkersCrowdsOf(m.given)
             /\ ~m.listening /\ m.zoom = zoom => r.clusters = m.clusters /\ r.clustered = m.clustered
             /\ m.clusterer /\ ~m.listening /\ m.zoom # zoom => r.clusters \subseteq MarkersCrowdsOf(m.given)
             /\ m.clusterer /\ (m.listening \/ m.zoom # zoom) => r.clustered = UNION r.clusters
<1>1. CASE ~m.clusterer
  BY <1>1 DEF Markers!render, MarkersAlike
<1>2. CASE m.clusterer
  <2> DEFINE e == Markers!handleClusteringEnd(m)
  <2>1. Markers!render(m) = Markers!AllClusters(e)
    BY <1>2 DEF Markers!render
  <2>2. /\ e \in MarkersRefs /\ MarkersAlike(e, m) /\ e.zoom = zoom
        /\ m.zoom = zoom => e = m
        /\ m.zoom # zoom => e.clusters \subseteq MarkersCrowdsOf(m.given) /\ e.clustered = UNION e.clusters
    BY MarkersClusteringEndIs
  <2> HIDE DEF e
  <2> QED
    BY <1>2, <2>1, <2>2, MarkersAllClustersIs DEF MarkersAlike
<1> QED
  BY <1>1, <1>2

\* Nothing that is tidy is untidy after that.
LEMMA MarkersRenderTidies ==
  ASSUME MarkersTypeInv, NEW m \in MarkersRefs, MarkersTidy(m)
 
PROVE  MarkersTidy(Markers!render(m)) /\ (m.clusterer => MarkersTidy(Markers!handleClusteringEnd(Markers!render(m))))
<1>1. ASSUME NEW r \in MarkersRefs, MarkersAlike(r, m), ~m.clusterer => r = m,
             \/ r.clusters = m.clusters /\ r.clustered = m.clustered
             \/ UNION r.clusters \subseteq m.given /\ r.clustered = UNION r.clusters
      PROVE  MarkersTidy(r)
  BY <1>1 DEF MarkersTidy, MarkersAlike
<1>2. UNION MarkersCrowdsOf(m.given) \subseteq m.given
  BY MarkersCrowdsAreOfTheGiven
<1> DEFINE n == Markers!render(m)
<1>3. /\ n \in MarkersRefs /\ MarkersAlike(n, m)
      /\ ~m.clusterer => n = m
      /\ m.clusterer => n.zoom = zoom
      /\ m.clusterer /\ m.listening => n.clusters = MarkersCrowdsOf(m.given)
      /\ ~m.listening /\ m.zoom = zoom => n.clusters = m.clusters /\ n.clustered = m.clustered
      /\ m.clusterer /\ ~m.listening /\ m.zoom # zoom => n.clusters \subseteq MarkersCrowdsOf(m.given)
      /\ m.clusterer /\ (m.listening \/ m.zoom # zoom) => n.clustered = UNION n.clusters
  BY MarkersRenderIs
<1> HIDE DEF n
<1>4. \/ n.clusters = m.clusters /\ n.clustered = m.clustered
      \/ n.clusters \subseteq MarkersCrowdsOf(m.given) /\ n.clustered = UNION n.clusters
  BY <1>3
<1>5. \/ n.clusters = m.clusters /\ n.clustered = m.clustered
      \/ UNION n.clusters \subseteq m.given /\ n.clustered = UNION n.clusters
  BY <1>2, <1>4
<1>6. MarkersTidy(n)
  BY <1>1, <1>3, <1>5
<1>7. m.clusterer => MarkersTidy(Markers!handleClusteringEnd(n))
  BY <1>3, <1>6, MarkersClusteringEndIs
<1> QED
  BY <1>6, <1>7 DEF n

\* Overlays are those in view of what is not clustered.
LEMMA MarkersUpdateIs ==
  ASSUME NEW m \in MarkersRefs
  PROVE  LET r == Markers!updateMarkerOverlays(m)
         IN  /\ r \in MarkersRefs
             /\ r.overlays = (m.overlays \ m.markers) \cup MarkersInSight(m.markers \ m.clustered)
             /\ r.markers = m.markers /\ r.clustered = m.clustered /\ r.clusters = m.clusters
             /\ r.clusterer = m.clusterer /\ r.given = m.given /\ r.listening = m.listening
             /\ r.zoom = m.zoom /\ r.drawn = m.drawn /\ r.again = m.again
<1> DEFINE o == (m.overlays \ m.markers) \cup MarkersInSight(m.markers \ m.clustered)
<1>1. o \in SUBSET Streams
  BY DEF MarkersInSight, MarkersRefs
<1>2. Markers!updateMarkerOverlays(m) = [m EXCEPT !.overlays = o]
  BY DEF Markers!updateMarkerOverlays, MarkersInSight
<1> HIDE DEF o
<1>3. LET r == Markers!updateMarkerOverlays(m)
      IN  /\ r \in MarkersRefs
          /\ r.overlays = o
          /\ r.markers = m.markers /\ r.clustered = m.clustered /\ r.clusters = m.clusters
          /\ r.clusterer = m.clusterer /\ r.given = m.given /\ r.listening = m.listening
          /\ r.zoom = m.zoom /\ r.drawn = m.drawn /\ r.again = m.again
  BY <1>1, <1>2 DEF MarkersRefs
<1> QED
  BY <1>3 DEF o

LEMMA MarkersUpdateTidies ==
  ASSUME NEW m \in MarkersRefs, MarkersTidy(m)
  PROVE  /\ MarkersTidy(Markers!updateMarkerOverlays(m))
         /\ Markers!updateMarkerOverlays(m).overlays = MarkersInSight(m.markers \ m.clustered)
BY MarkersUpdateIs DEF MarkersTidy, MarkersInSight

LEMMA MarkersListenIs ==
  ASSUME NEW m \in MarkersRefs
  PROVE  /\ Markers!Listen(m) \in MarkersRefs
         /\ Markers!Listen(m) = [m EXCEPT !.listening = m.clusterer]
         /\ Markers!Listen(m).listening = m.clusterer /\ Markers!Listen(m).clusterer = m.clusterer
         /\ MarkersTidy(m) => MarkersTidy(Markers!Listen(m))
         /\ Markers!Listen(m).markers = m.markers /\ Markers!Listen(m).clustered = m.clustered
         /\ Markers!Listen(m).clusters = m.clusters /\ Markers!Listen(m).overlays = m.overlays
         /\ Markers!Listen(m).given = m.given /\ Markers!Listen(m).zoom = m.zoom
         /\ Markers!Listen(m).drawn = m.drawn /\ Markers!Listen(m).again = m.again
<1> DEFINE b == m.clusterer
<1>1. b \in BOOLEAN
  BY DEF MarkersRefs
<1>2. Markers!Listen(m) = [m EXCEPT !.listening = b]
  BY DEF Markers!Listen
<1>3. /\ Markers!Listen(m) \in MarkersRefs /\ Markers!Listen(m).listening = b
      /\ Markers!Listen(m).markers = m.markers /\ Markers!Listen(m).clustered = m.clustered
      /\ Markers!Listen(m).clusters = m.clusters /\ Markers!Listen(m).overlays = m.overlays
      /\ Markers!Listen(m).given = m.given /\ Markers!Listen(m).zoom = m.zoom
      /\ Markers!Listen(m).drawn = m.drawn /\ Markers!Listen(m).again = m.again
      /\ Markers!Listen(m).clusterer = m.clusterer
  <2> HIDE DEF b
  <2> QED
    BY <1>1, <1>2 DEF MarkersRefs
<1> QED
  BY <1>2, <1>3 DEF MarkersTidy

\* r is m with the markers g for the clusterer.
MarkersGiven(r, m, g) ==
  /\ r \in MarkersRefs
  /\ r.markers = m.markers /\ r.overlays = m.overlays /\ r.clusterer = m.clusterer
  /\ r.given = g /\ r.listening = m.listening
  /\ ~m.clusterer => r.clusters = m.clusters /\ r.clustered = m.clustered
  /\ m.clusterer => r.zoom = zoom
  /\ m.clusterer /\ m.listening => r.clusters = MarkersCrowdsOf(g)
  /\ ~m.listening /\ m.zoom = zoom => r.clusters = m.clusters /\ r.clustered = m.clustered
  /\ m.clusterer /\ ~m.listening /\ m.zoom # zoom => r.clusters \subseteq MarkersCrowdsOf(g)
  /\ m.clusterer /\ (m.listening \/ m.zoom # zoom) => r.clustered = UNION r.clusters

LEMMA MarkersGiveIs ==
  ASSUME MarkersTypeInv, NEW m \in MarkersRefs, NEW g \in SUBSET Streams
  PROVE  MarkersGiven(Markers!Give(m, g), m, g)
<1> DEFINE n == [m EXCEPT !.given = g]
<1>1. /\ n \in MarkersRefs /\ n.given = g
      /\ n.markers = m.markers /\ n.overlays = m.overlays /\ n.clusterer = m.clusterer
      /\ n.listening = m.listening /\ n.zoom = m.zoom
      /\ n.clusters = m.clusters /\ n.clustered = m.clustered
  BY DEF MarkersRefs
<1>2. Markers!Give(m, g) = Markers!render(n)
  BY DEF Markers!Give
<1> HIDE DEF n
<1> DEFINE r == Markers!render(n)
<1>3. /\ r \in MarkersRefs /\ MarkersAlike(r, n)
      /\ ~n.clusterer => r = n
      /\ n.clusterer => r.zoom = zoom
      /\ n.clusterer /\ n.listening => r.clusters = MarkersCrowdsOf(n.given)
      /\ ~n.listening /\ n.zoom = zoom => r.clusters = n.clusters /\ r.clustered = n.clustered
      /\ n.clusterer /\ ~n.listening /\ n.zoom # zoom => r.clusters \subseteq MarkersCrowdsOf(n.given)
      /\ n.clusterer /\ (n.listening \/ n.zoom # zoom) => r.clustered = UNION r.clusters
  BY <1>1, MarkersRenderIs
<1> HIDE DEF r
<1> QED
  BY <1>1, <1>2, <1>3 DEF MarkersAlike, MarkersGiven, r

LEMMA MarkersNoCrowdsOfNone == MarkersCrowdsOf({}) = {}
BY DEF MarkersCrowdsOf, Markers!clusterMarkers

\* All sessions have a marker, and it is not shown beside its cluster.
MarkersAllOf(r) ==
  /\ r \in MarkersRefs /\ MarkersTidy(r) /\ r.clusterer /\ r.zoom = zoom
  /\ r.markers = sessions /\ r.given = sessions
  /\ r.overlays = MarkersInSight(sessions \ UNION r.clusters)
  /\ r.listening => r.clusters = MarkersCrowdsOf(sessions)

LEMMA MarkersShowAllIs ==
  ASSUME MarkersTypeInv, NEW m \in MarkersRefs, MarkersTidy(m)
  PROVE  /\ MarkersAllOf(Markers!ShowAll(m))
         /\ ~m.clusterer => Markers!ShowAll(m).clusters = {}
<1> DEFINE with == [m EXCEPT !.markers = m.markers \cup sessions,
                             !.clusterer = TRUE,
                             !.listening = m.clusterer /\ m.listening]
           empty == Markers!Give(with, {})
           whole == Markers!Give(empty, with.markers)
<1>1. sessions \in SUBSET Streams /\ {} \in SUBSET Streams /\ m.markers \cup sessions = sessions
  BY DEF MarkersTypeInv, MarkersTidy
<1>2. /\ with \in MarkersRefs /\ with.markers = sessions /\ with.clusterer
      /\ with.listening = (m.clusterer /\ m.listening) /\ with.overlays = m.overlays
      /\ with.zoom = m.zoom /\ with.clusters = m.clusters /\ with.clustered = m.clustered
  <2> DEFINE joined == m.markers \cup sessions
             l == m.clusterer /\ m.listening
  <2>1. joined = sessions /\ l \in BOOLEAN
    BY <1>1 DEF MarkersRefs
  <2>2. with = [m EXCEPT !.markers = joined, !.clusterer = TRUE, !.listening = l]
    OBVIOUS
  <2> HIDE DEF joined, l, with
  <2>3. /\ with \in MarkersRefs /\ with.markers = sessions /\ with.clusterer
        /\ with.listening = l /\ with.overlays = m.overlays
        /\ with.zoom = m.zoom /\ with.clusters = m.clusters /\ with.clustered = m.clustered
    BY <1>1, <2>1, <2>2 DEF MarkersRefs
  <2> QED
    BY <2>3 DEF l
<1>3. Markers!ShowAll(m) = Markers!updateMarkerOverlays(whole)
  BY DEF Markers!ShowAll
<1> HIDE DEF with
<1>4. /\ empty \in MarkersRefs /\ empty.markers = sessions /\ empty.overlays = m.overlays
      /\ empty.clusterer /\ empty.listening = (m.clusterer /\ m.listening) /\ empty.zoom = zoom
      /\ empty.clusters = {} \/ (empty.clusters = m.clusters /\ empty.clustered = m.clustered)
      /\ empty.clusters = {} => empty.clustered = {}
  <2>1. MarkersGiven(empty, with, {})
    BY <1>1, <1>2, MarkersGiveIs
  <2>2. m.clusters = {} => m.clustered = {}
    BY DEF MarkersTidy
  <2> HIDE DEF empty
  <2> QED
    BY <1>2, <2>1, <2>2, MarkersNoCrowdsOfNone DEF MarkersGiven
<1>5. /\ whole \in MarkersRefs /\ whole.markers = sessions /\ whole.overlays = m.overlays
      /\ whole.clusterer /\ whole.given = sessions /\ whole.zoom = zoom
      /\ whole.listening = (m.clusterer /\ m.listening)
      /\ whole.listening => whole.clusters = MarkersCrowdsOf(sessions) /\ whole.clustered = UNION whole.clusters
      /\ ~whole.listening => whole.clusters = empty.clusters /\ whole.clustered = empty.clustered
  <2> HIDE DEF empty
  <2>1. MarkersGiven(whole, empty, with.markers)
    BY <1>1, <1>2, <1>4, MarkersGiveIs
  <2> HIDE DEF whole
  <2> QED
    BY <1>2, <1>4, <2>1 DEF MarkersGiven
<1> HIDE DEF empty, whole
<1>6. UNION MarkersCrowdsOf(sessions) \subseteq sessions
  BY MarkersCrowdsAreOfTheGiven
<1>7. /\ whole.clustered = UNION whole.clusters /\ whole.clustered \subseteq sessions
      /\ ~m.clusterer => whole.clusters = {}
  <2>1. CASE whole.listening
    BY <1>5, <1>6, <2>1
  <2>2. CASE ~whole.listening
    BY <1>4, <1>5, <2>2 DEF MarkersTidy
  <2> QED
    BY <2>1, <2>2
<1>8. m.overlays \subseteq sessions
  BY DEF MarkersTidy
<1> DEFINE r == Markers!updateMarkerOverlays(whole)
<1>9. /\ r \in MarkersRefs
      /\ r.overlays = (whole.overlays \ whole.markers) \cup MarkersInSight(whole.markers \ whole.clustered)
      /\ r.markers = whole.markers /\ r.clustered = whole.clustered /\ r.clusters = whole.clusters
      /\ r.clusterer = whole.clusterer /\ r.given = whole.given /\ r.listening = whole.listening
      /\ r.zoom = whole.zoom
  BY <1>5, MarkersUpdateIs
<1> HIDE DEF r
<1>10. r.overlays = MarkersInSight(sessions \ UNION r.clusters)
  BY <1>5, <1>7, <1>8, <1>9
<1>11. MarkersInSight(sessions \ UNION r.clusters) \subseteq sessions
  BY DEF MarkersInSight
<1>12. /\ r.markers = sessions /\ r.given = sessions /\ r.clusterer /\ r.zoom = zoom
       /\ r.clustered = UNION r.clusters /\ r.clustered \subseteq sessions
       /\ r.listening => r.clusters = MarkersCrowdsOf(sessions)
       /\ ~m.clusterer => r.clusters = {}
  BY <1>5, <1>7, <1>9
<1>13. MarkersTidy(r)
  BY <1>10, <1>11, <1>12 DEF MarkersTidy
<1>14. MarkersAllOf(r)
  BY <1>9, <1>10, <1>12, <1>13 DEF MarkersAllOf
<1> QED
  BY <1>3, <1>12, <1>14 DEF r

\* Rendering that again changes nothing.
LEMMA MarkersRenderSettles ==
  ASSUME MarkersTypeInv, NEW m, MarkersAllOf(m)
  PROVE  /\ MarkersAllOf(Markers!render(m)) /\ Markers!render(m).clusters = m.clusters
         /\ Markers!render(m).listening = m.listening
         /\ Markers!handleClusteringEnd(m) = m
<1> DEFINE r == Markers!render(m)
<1>1. m \in MarkersRefs /\ MarkersTidy(m) /\ m.clusterer /\ m.zoom = zoom /\ m.given = sessions
  BY DEF MarkersAllOf
<1>2. /\ r \in MarkersRefs /\ MarkersAlike(r, m) /\ r.zoom = zoom
      /\ m.listening => r.clusters = MarkersCrowdsOf(m.given)
      /\ ~m.listening => r.clusters = m.clusters
  BY <1>1, MarkersRenderIs
<1>3. MarkersTidy(r)
  BY <1>1, MarkersRenderTidies
<1>4. r.clusters = m.clusters
  BY <1>1, <1>2 DEF MarkersAllOf
<1>5. Markers!handleClusteringEnd(m) = m
  BY <1>1, MarkersClusteringEndIs
<1> HIDE DEF r
<1>6. MarkersAllOf(r) /\ r.listening = m.listening
  BY <1>1, <1>2, <1>3, <1>4 DEF MarkersAllOf, MarkersAlike
<1> QED
  BY <1>4, <1>5, <1>6 DEF r

LEMMA MarkersUpdateSettles ==
  ASSUME NEW m, MarkersAllOf(m)
 
PROVE  /\ MarkersAllOf(Markers!updateMarkerOverlays(m)) /\ Markers!updateMarkerOverlays(m).clusters = m.clusters
         /\ Markers!updateMarkerOverlays(m).listening = m.listening
<1> DEFINE r == Markers!updateMarkerOverlays(m)
<1>1. m \in MarkersRefs /\ MarkersTidy(m) /\ m.clusterer /\ m.zoom = zoom /\ m.given = sessions
      /\ m.markers = sessions /\ m.clustered = UNION m.clusters
  BY DEF MarkersAllOf, MarkersTidy
<1>2. /\ r \in MarkersRefs
      /\ r.markers = m.markers /\ r.clustered = m.clustered /\ r.clusters = m.clusters
      /\ r.clusterer = m.clusterer /\ r.given = m.given /\ r.listening = m.listening
      /\ r.zoom = m.zoom
  BY <1>1, MarkersUpdateIs
<1>3. MarkersTidy(r) /\ r.overlays = MarkersInSight(m.markers \ m.clustered)
  BY <1>1, MarkersUpdateTidies
<1> HIDE DEF r
<1>4. MarkersAllOf(r) /\ r.clusters = m.clusters /\ r.listening = m.listening
  BY <1>1, <1>2, <1>3 DEF MarkersAllOf
<1> QED
  BY <1>4 DEF r

-----------------------------------------------------------------------------
(* The effects. *)

\* r has the markers of all sessions, or is as tidy as m was.
MarkersKept(r, m) ==
  /\ r \in MarkersRefs /\ MarkersTidy(r)
  /\ r.clusterer = m.clusterer /\ r.listening = m.listening

\* What Sessions leaves of tidy refs: nothing of theirs goes.
LEMMA MarkersSessionsKeeps ==
  ASSUME MarkersTypeInv, NEW m \in MarkersRefs, MarkersTidy(m)
  PROVE  /\ ~m.clusterer => Markers!Sessions(m) = m
         /\ MarkersKept(Markers!Sessions(m), m)
         /\ MarkersAllOf(m) => MarkersAllOf(Markers!Sessions(m)) /\ Markers!Sessions(m).clusters = m.clusters
<1> DEFINE gone == m.markers \ sessions
           fresh == {s \in sessions \ m.markers : Markers!InView(Position[s])}
           pruned == [m EXCEPT !.markers = sessions,
                             !.clustered = m.clustered \ gone,
                             !.overlays = m.overlays \ gone]
           more == pruned.given \cup fresh
           given == Markers!Give(pruned, more)
           painted == Markers!render(given)
           r == Markers!updateMarkerOverlays(painted)
<1>1. gone = {} /\ sessions \in SUBSET Streams
  BY DEF MarkersTidy, MarkersTypeInv
<1>2. Markers!Sessions(m) = IF m.clusterer THEN r ELSE m
  BY <1>1 DEF Markers!Sessions
<1>3. CASE ~m.clusterer
  BY <1>2, <1>3 DEF MarkersKept, MarkersAllOf
<1>4. CASE m.clusterer
  <2>1. pruned = [m EXCEPT !.markers = sessions, !.clustered = m.clustered, !.overlays = m.overlays]
    BY <1>1
  <2>2. /\ pruned \in MarkersRefs /\ pruned.markers = sessions /\ pruned.clusterer
        /\ pruned.listening = m.listening /\ pruned.overlays = m.overlays /\ pruned.given = m.given
        /\ pruned.zoom = m.zoom /\ pruned.clusters = m.clusters /\ pruned.clustered = m.clustered
    <3> HIDE DEF pruned
    <3> QED
      BY <1>1, <1>4, <2>1 DEF MarkersRefs
  <2>3. fresh \subseteq sessions /\ (m.markers = sessions => fresh = {})
    OBVIOUS
  <2>4. more \in SUBSET Streams /\ more \subseteq sessions /\ m.given \subseteq sessions
    <3> HIDE DEF pruned
    <3> QED
      BY <1>1, <2>2, <2>3 DEF MarkersTidy
  <2>5. MarkersGiven(given, pruned, more)
    <3> HIDE DEF pruned, more
    <3> QED
      BY <2>2, <2>4, MarkersGiveIs
  <2>6. MarkersAllOf(m) => more = sessions /\ m.given = sessions /\ m.zoom = zoom
                           /\ (m.listening => m.clusters = MarkersCrowdsOf(sessions))
    <3> HIDE DEF pruned
    <3> QED
      BY <2>2, <2>3, <2>4 DEF MarkersAllOf
  <2>7. UNION MarkersCrowdsOf(more) \subseteq more
    BY MarkersCrowdsAreOfTheGiven
  <2> HIDE DEF pruned, more, given, fresh
  <2>8. \/ given.clusters \subseteq MarkersCrowdsOf(more) /\ given.clustered = UNION given.clusters
        \/ given.clusters = m.clusters /\ given.clustered = m.clustered
    BY <2>2, <2>5, <1>4 DEF MarkersGiven
  <2>9. given \in MarkersRefs /\ MarkersTidy(given) /\ given.clusterer /\ given.listening = m.listening
    <3>1. given.clustered = UNION given.clusters /\ given.clustered \subseteq sessions
      BY <1>4, <2>4, <2>7, <2>8 DEF MarkersTidy
    <3>2. given.markers = sessions /\ given.overlays \subseteq sessions /\ given.given \subseteq sessions
      BY <2>2, <2>4, <2>5 DEF MarkersGiven, MarkersTidy
    <3> QED
      BY <2>2, <2>5, <3>1, <3>2 DEF MarkersGiven, MarkersTidy
  <2>10. painted \in MarkersRefs /\ MarkersAlike(painted, given) /\ MarkersTidy(painted)
    <3>1. given \in MarkersRefs /\ MarkersTidy(given)
      BY <2>9
    <3> QED
      BY <3>1, MarkersRenderIs, MarkersRenderTidies
  <2>11. MarkersKept(r, m)
    <3>1. /\ r \in MarkersRefs /\ MarkersTidy(r) /\ r.clusterer = painted.clusterer
          /\ r.listening = painted.listening
      <4> HIDE DEF painted
      <4> QED
        BY <2>10, MarkersUpdateIs, MarkersUpdateTidies
    <3> HIDE DEF r, painted
    <3> QED
      BY <1>4, <2>9, <2>10, <3>1 DEF MarkersKept, MarkersAlike
  <2>12. ASSUME MarkersAllOf(m)
         PROVE  MarkersAllOf(r) /\ r.clusters = m.clusters
    <3>1. /\ given.clusters = m.clusters /\ given.zoom = zoom /\ given.given = sessions
          /\ given.overlays = m.overlays /\ given.markers = sessions
      BY <2>2, <2>5, <2>6, <2>12 DEF MarkersGiven
    <3>2. MarkersAllOf(given)
      BY <2>6, <2>9, <2>12, <3>1 DEF MarkersAllOf
    <3>3. MarkersAllOf(painted) /\ painted.clusters = m.clusters
      BY <3>1, <3>2, MarkersRenderSettles
    <3> HIDE DEF painted
    <3> QED
      BY <3>3, MarkersUpdateSettles
  <2> QED
    BY <1>2, <1>4, <2>11, <2>12
<1> QED
  BY <1>3, <1>4

\* With the stream there, all but its marker goes.
LEMMA MarkersShowSelectedIs ==
  ASSUME MarkersTypeInv, NEW m \in MarkersRefs, MarkersTidy(m), selected \in Streams,
         m.clusterer => m.listening
  PROVE  LET r == Markers!ShowSelected(m)
         IN  /\ r \in MarkersRefs /\ MarkersTidy(r)
             /\ ~r.clusterer /\ r.markers = sessions \cap {selected}
<1> DEFINE emptied == Markers!Give(m, {})
           rest == m.markers \cap {selected}
           new == IF rest = {} THEN {selected} \cap sessions ELSE {}
           o == (m.overlays \ (m.markers \ {selected})) \cup new
           k == emptied.clustered \cap rest
           r == [emptied EXCEPT !.clusterer = FALSE,
                                !.listening = FALSE,
                                !.markers = rest \cup new,
                                !.clustered = k,
                                !.overlays = o,
                                !.clusters = {}]
<1>1. Markers!ShowSelected(m) = r
  BY DEF Markers!ShowSelected
<1>2. MarkersGiven(emptied, m, {})
  <2>1. {} \in SUBSET Streams
    OBVIOUS
  <2> QED
    BY <2>1, MarkersGiveIs
<1>3. /\ m.markers \subseteq sessions /\ m.overlays \subseteq m.markers
      /\ sessions \in SUBSET Streams /\ m.clustered = UNION m.clusters
  BY DEF MarkersTidy, MarkersTypeInv
<1>4. rest \cup new = sessions \cap {selected}
  BY <1>3
<1>5. o \subseteq sessions \cap {selected}
  BY <1>3
<1>6. emptied.clustered = {} /\ emptied.given = {} /\ emptied \in MarkersRefs
  <2>1. emptied \in MarkersRefs /\ emptied.given = {}
    BY <1>2 DEF MarkersGiven
  <2> HIDE DEF emptied
  <2>2. CASE m.clusterer
    BY <1>2, <2>2, MarkersNoCrowdsOfNone DEF MarkersGiven
  <2>3. CASE ~m.clusterer
    BY <1>2, <1>3, <2>3 DEF MarkersGiven, MarkersTidy
  <2> QED
    BY <2>1, <2>2, <2>3
<1>7. k = {}
  BY <1>6
<1> DEFINE one == rest \cup new
<1>8. one \in SUBSET Streams /\ o \in SUBSET Streams /\ one = sessions \cap {selected}
  BY <1>3, <1>4, <1>5
<1>9. r = [emptied EXCEPT !.clusterer = FALSE, !.listening = FALSE, !.markers = one,
                          !.clustered = k, !.overlays = o, !.clusters = {}]
  OBVIOUS
<1> HIDE DEF emptied, one, o, k, r
<1>10. /\ r \in MarkersRefs /\ ~r.clusterer /\ ~r.listening /\ r.markers = one
       /\ r.clustered = {} /\ r.overlays = o /\ r.clusters = {} /\ r.given = {}
  BY <1>6, <1>7, <1>8, <1>9 DEF MarkersRefs
<1>11. MarkersTidy(r)
  BY <1>5, <1>8, <1>10 DEF MarkersTidy
<1> QED
  BY <1>1, <1>8, <1>10, <1>11

\* What a render leaves: see AllShown, Lone and Listens.
MarkersLeft(r) ==
  /\ r \in MarkersRefs /\ MarkersTidy(r)
  /\ loaded => ~r.clusterer /\ r.markers = sessions \cap {selected}
               /\ MarkersInSight(r.markers) \subseteq r.overlays
  /\ selected = Nothing =>
       /\ MarkersInSight(sessions) \subseteq r.overlays \cup UNION r.clusters
       /\ shown.clusterer => r.overlays \cap UNION r.clusters = {}
  /\ selected # Nothing /\ r.clusterer => r.listening

LEMMA MarkersNothingIsNoStream ==
  ASSUME MarkersTypeInv, MarkersOpened
  PROVE  selected # Nothing => selected \in Streams
BY DEF MarkersTypeInv, MarkersOpened

\* With nothing selected.
LEMMA MarkersAllRendered ==
  ASSUME MarkersIInv, selected = Nothing, due # {}
  PROVE  LET base == Markers!ShowAll(shown)
             second == IF due \subseteq {"page"} THEN base ELSE Markers!Sessions(base)
             third == IF "data" \in due THEN Markers!Listen(second) ELSE second
             fourth == IF due \subseteq {"page"} THEN third ELSE Markers!updateMarkerOverlays(third)
             fifth == IF fourth.clusterer THEN Markers!handleClusteringEnd(Markers!render(fourth)) ELSE fourth
         IN  MarkersLeft(fourth) /\ MarkersLeft(fifth)
<1> DEFINE base == Markers!ShowAll(shown)
           second == IF due \subseteq {"page"} THEN base ELSE Markers!Sessions(base)
           third == IF "data" \in due THEN Markers!Listen(second) ELSE second
           fourth == IF due \subseteq {"page"} THEN third ELSE Markers!updateMarkerOverlays(third)
           fifth == IF fourth.clusterer THEN Markers!handleClusteringEnd(Markers!render(fourth)) ELSE fourth
<1>1. MarkersTypeInv /\ shown \in MarkersRefs /\ MarkersTidy(shown) /\ ~loaded /\ ~pending
      /\ ("data" \in due => ~shown.clusterer)
  BY DEF MarkersIInv, MarkersTypeInv, MarkersOpened, MarkersDueFits
<1>2. MarkersAllOf(base) /\ (~shown.clusterer => base.clusters = {})
  BY <1>1, MarkersShowAllIs
<1>3. MarkersAllOf(second) /\ second.clusters = base.clusters
  <2> HIDE DEF base
  <2>1. base \in MarkersRefs /\ MarkersTidy(base)
    BY <1>2 DEF MarkersAllOf
  <2> QED
    BY <1>1, <1>2, <2>1, MarkersSessionsKeeps
<1> HIDE DEF base, second
<1>4. ASSUME NEW r, MarkersAllOf(r)
      PROVE  MarkersLeft(r)
  <2>1. /\ r \in MarkersRefs /\ MarkersTidy(r) /\ r.overlays = MarkersInSight(sessions \ UNION r.clusters)
    BY <1>4 DEF MarkersAllOf
  <2>2. MarkersInSight(sessions) \subseteq r.overlays \cup UNION r.clusters
    BY <2>1 DEF MarkersInSight
  <2>3. r.overlays \cap UNION r.clusters = {}
    BY <2>1 DEF MarkersInSight
  <2> QED
    BY <1>1, <2>1, <2>2, <2>3 DEF MarkersLeft
<1>5. CASE "data" \notin due
  <2>1. MarkersAllOf(third)
    BY <1>3, <1>5
  <2> HIDE DEF third
  <2>2. MarkersAllOf(fourth)
    BY <2>1, MarkersUpdateSettles
  <2> HIDE DEF fourth
  <2>3. MarkersAllOf(fifth)
    <3>1. MarkersAllOf(Markers!render(fourth))
      BY <1>1, <2>2, MarkersRenderSettles
    <3>2. Markers!handleClusteringEnd(Markers!render(fourth)) = Markers!render(fourth)
      BY <1>1, <3>1, MarkersRenderSettles
    <3> QED
      BY <2>2, <3>1, <3>2
  <2> HIDE DEF fifth
  <2>4. MarkersLeft(fourth) /\ MarkersLeft(fifth)
    BY <1>4, <2>2, <2>3
  <2> QED
    BY <2>4 DEF base, second, third, fourth, fifth
<1>6. CASE "data" \in due
  <2>1. ~shown.clusterer /\ second.clusters = {} /\ second \in MarkersRefs /\ MarkersTidy(second)
        /\ second.clusterer /\ second.markers = sessions
    BY <1>1, <1>2, <1>3, <1>6 DEF MarkersAllOf
  <2>2. /\ third \in MarkersRefs /\ MarkersTidy(third) /\ third.clusterer /\ third.markers = sessions
        /\ third.clusters = {}
    BY <1>6, <2>1, MarkersListenIs
  <2> HIDE DEF third
  <2>3. /\ fourth \in MarkersRefs /\ MarkersTidy(fourth) /\ fourth.clusterer /\ fourth.markers = sessions
        /\ MarkersInSight(sessions) \subseteq fourth.overlays
    <3>1. ~(due \subseteq {"page"})
      BY <1>6
    <3>2. fourth = Markers!updateMarkerOverlays(third)
      BY <3>1
    <3>3. third.clustered = {}
      BY <2>2 DEF MarkersTidy
    <3>4. /\ fourth \in MarkersRefs /\ MarkersTidy(fourth) /\ fourth.clusterer /\ fourth.markers = sessions
          /\ fourth.overlays = MarkersInSight(third.markers \ third.clustered)
      <4> HIDE DEF fourth
      <4> QED
        BY <2>2, <3>2, MarkersUpdateIs, MarkersUpdateTidies
    <3> QED
      BY <2>2, <3>3, <3>4 DEF MarkersInSight
  <2> HIDE DEF fourth
  <2> DEFINE d == Markers!render(fourth)
             e == Markers!handleClusteringEnd(d)
  <2>4. d \in MarkersRefs /\ MarkersAlike(d, fourth) /\ MarkersTidy(d) /\ MarkersTidy(e)
    BY <1>1, <2>3, MarkersRenderIs, MarkersRenderTidies
  <2>5. e \in MarkersRefs /\ MarkersAlike(e, d)
    <3> HIDE DEF d
    <3> QED
      BY <1>1, <2>4, MarkersClusteringEndIs
  <2> HIDE DEF d
  <2>6. fifth = e
    BY <2>3 DEF d
  <2> HIDE DEF e, fifth
  <2>7. MarkersLeft(fourth) /\ MarkersLeft(fifth)
    BY <1>1, <2>1, <2>3, <2>4, <2>5, <2>6 DEF MarkersLeft, MarkersAlike
  <2> QED
    BY <2>7 DEF base, second, third, fourth, fifth
<1> QED
  BY <1>5, <1>6

\* With a stream selected.
LEMMA MarkersOneRendered ==
  ASSUME MarkersIInv, selected # Nothing, due # {}
  PROVE  LET base == IF pending THEN shown ELSE IF loaded THEN Markers!ShowSelected(shown) ELSE shown
             second == IF due \subseteq {"page"} THEN base ELSE Markers!Sessions(base)
             third == IF "data" \in due THEN Markers!Listen(second) ELSE second
             fourth == IF due \subseteq {"page"} THEN third ELSE Markers!updateMarkerOverlays(third)
             fifth == IF fourth.clusterer THEN Markers!handleClusteringEnd(Markers!render(fourth)) ELSE fourth
         IN  MarkersLeft(fourth) /\ MarkersLeft(fifth)
<1> DEFINE base == IF pending THEN shown ELSE IF loaded THEN Markers!ShowSelected(shown) ELSE shown
           second == IF due \subseteq {"page"} THEN base ELSE Markers!Sessions(base)
           third == IF "data" \in due THEN Markers!Listen(second) ELSE second
           fourth == IF due \subseteq {"page"} THEN third ELSE Markers!updateMarkerOverlays(third)
           fifth == IF fourth.clusterer THEN Markers!handleClusteringEnd(Markers!render(fourth)) ELSE fourth
<1>1. /\ MarkersTypeInv /\ shown \in MarkersRefs /\ MarkersTidy(shown) /\ (loaded => ~pending)
      /\ ~(due \subseteq {"page"}) /\ selected \in Streams
      /\ shown.clusterer /\ "data" \notin due => shown.listening
      /\ shown.clusterer /\ loaded => shown.listening
  BY DEF MarkersIInv, MarkersTypeInv, MarkersOpened, MarkersDueFits, MarkersListens
<1>2. /\ base \in MarkersRefs /\ MarkersTidy(base)
      /\ loaded => ~base.clusterer /\ base.markers = sessions \cap {selected}
      /\ base.clusterer /\ "data" \notin due => base.listening
  <2>1. CASE loaded
    <3> DEFINE r == Markers!ShowSelected(shown)
    <3>1. r \in MarkersRefs /\ MarkersTidy(r) /\ ~r.clusterer /\ r.markers = sessions \cap {selected}
      BY <1>1, <2>1, MarkersShowSelectedIs
    <3> HIDE DEF r
    <3>2. base = r
      BY <1>1, <2>1 DEF r
    <3> HIDE DEF base
    <3> QED
      BY <3>1, <3>2
  <2>2. CASE ~loaded
    BY <1>1, <2>2
  <2> QED
    BY <2>1, <2>2
<1> HIDE DEF base
<1>3. /\ second \in MarkersRefs /\ MarkersTidy(second)
      /\ loaded => ~second.clusterer /\ second.markers = sessions \cap {selected}
      /\ second.clusterer /\ "data" \notin due => second.listening
  <2>1. second = Markers!Sessions(base)
    BY <1>1
  <2> HIDE DEF second
  <2> QED
    BY <1>1, <1>2, <2>1, MarkersSessionsKeeps DEF MarkersKept
<1> HIDE DEF second
<1>4. /\ third \in MarkersRefs /\ MarkersTidy(third)
      /\ loaded => ~third.clusterer /\ third.markers = sessions \cap {selected}
      /\ third.clusterer => third.listening
  <2>1. CASE "data" \in due
    BY <1>3, <2>1, MarkersListenIs
  <2>2. CASE "data" \notin due
    BY <1>3, <2>2
  <2> QED
    BY <2>1, <2>2
<1> HIDE DEF third
<1>5. /\ fourth \in MarkersRefs /\ MarkersTidy(fourth)
      /\ loaded => ~fourth.clusterer /\ fourth.markers = sessions \cap {selected}
                   /\ MarkersInSight(fourth.markers) \subseteq fourth.overlays
      /\ fourth.clusterer => fourth.listening
  <2>1. fourth = Markers!updateMarkerOverlays(third)
    BY <1>1
  <2>2. /\ fourth \in MarkersRefs /\ MarkersTidy(fourth) /\ fourth.clusterer = third.clusterer
        /\ fourth.markers = third.markers /\ fourth.listening = third.listening
        /\ fourth.overlays = MarkersInSight(third.markers \ third.clustered)
    <3> HIDE DEF fourth
    <3> QED
      BY <1>4, <2>1, MarkersUpdateIs, MarkersUpdateTidies
  <2>3. loaded => third.clustered = {}
    BY <1>4 DEF MarkersTidy
  <2> HIDE DEF fourth
  <2> QED
    BY <1>4, <2>2, <2>3 DEF MarkersInSight
<1> HIDE DEF fourth
<1>6. MarkersLeft(fourth)
  BY <1>5 DEF MarkersLeft
<1>7. MarkersLeft(fifth)
  <2>1. CASE fourth.clusterer
    <3> DEFINE d == Markers!render(fourth)
               e == Markers!handleClusteringEnd(d)
    <3>1. d \in MarkersRefs /\ MarkersAlike(d, fourth) /\ MarkersTidy(d) /\ MarkersTidy(e)
      BY <1>1, <1>5, <2>1, MarkersRenderIs, MarkersRenderTidies
    <3>2. e \in MarkersRefs /\ MarkersAlike(e, d)
      <4> HIDE DEF d
      <4> QED
        BY <1>1, <3>1, MarkersClusteringEndIs
    <3> HIDE DEF d, e
    <3>3. fifth = e
      BY <2>1 DEF d, e
    <3> HIDE DEF fifth
    <3> QED
      BY <1>5, <2>1, <3>1, <3>2, <3>3 DEF MarkersLeft, MarkersAlike
  <2>2. CASE ~fourth.clusterer
    BY <1>6, <2>2
  <2> QED
    BY <2>1, <2>2
<1> QED
  BY <1>6, <1>7 DEF base, second, third, fourth, fifth

LEMMA MarkersEffectsLeave ==
  ASSUME MarkersIInv, due # {}
  PROVE  LET r == Markers!Effects(shown, due)
         IN  r \in MarkersRefs /\ \A q : q = [r EXCEPT !.again = shown.clusterer] => MarkersLeft(q)
<1> DEFINE base == Markers!Selection(shown)
           second == IF due \subseteq {"page"} THEN base ELSE Markers!Sessions(base)
           third == IF "data" \in due THEN Markers!Listen(second) ELSE second
           fourth == IF due \subseteq {"page"} THEN third ELSE Markers!updateMarkerOverlays(third)
           fifth == IF fourth.clusterer THEN Markers!handleClusteringEnd(Markers!render(fourth)) ELSE fourth
           mode == "selection" \in due \/ zoom # shown.drawn
           last == IF mode /\ fourth.clusterer
                   THEN Markers!handleClusteringEnd(Markers!render(fourth)) ELSE fourth
           r == [last EXCEPT !.drawn = zoom]
<1>1. MarkersLeft(fourth) /\ MarkersLeft(fifth)
  <2>1. CASE selected = Nothing
    <3>1. ~pending
      BY <2>1 DEF MarkersIInv, MarkersOpened
    <3>2. base = Markers!ShowAll(shown)
      BY <2>1, <3>1 DEF Markers!Selection
    <3> HIDE DEF base
    <3> QED
      BY <2>1, <3>2, MarkersAllRendered
  <2>2. CASE selected # Nothing
    <3>1. base = IF pending THEN shown ELSE IF loaded THEN Markers!ShowSelected(shown) ELSE shown
      BY <2>2 DEF Markers!Selection
    <3> HIDE DEF base
    <3> QED
      BY <2>2, <3>1, MarkersOneRendered
  <2> QED
    BY <2>1, <2>2
<1>2. Markers!Effects(shown, due) = r
  BY DEF Markers!Effects
<1> HIDE DEF base, second, third, fourth
<1>3. MarkersLeft(last)
  BY <1>1
<1> HIDE DEF last, fifth
<1>4. zoom \in Markers!Zooms /\ last \in MarkersRefs /\ shown.clusterer \in BOOLEAN
  BY <1>3 DEF MarkersIInv, MarkersTypeInv, MarkersLeft, MarkersRefs
<1> DEFINE q == [r EXCEPT !.again = shown.clusterer]
<1>5. r \in MarkersRefs /\ q \in MarkersRefs /\ q.again = shown.clusterer
      /\ q.markers = last.markers /\ q.clustered = last.clustered /\ q.overlays = last.overlays
      /\ q.clusters = last.clusters /\ q.clusterer = last.clusterer /\ q.given = last.given
      /\ q.listening = last.listening
  <2>1. /\ r \in MarkersRefs
        /\ r.markers = last.markers /\ r.clustered = last.clustered /\ r.overlays = last.overlays
        /\ r.clusters = last.clusters /\ r.clusterer = last.clusterer /\ r.given = last.given
        /\ r.listening = last.listening
    BY <1>4 DEF MarkersRefs
  <2> HIDE DEF r
  <2> QED
    BY <1>4, <2>1 DEF MarkersRefs
<1> HIDE DEF r, q
<1>6. MarkersLeft(q)
  BY <1>3, <1>5 DEF MarkersLeft, MarkersTidy
<1> QED
  BY <1>2, <1>5, <1>6 DEF q

LEMMA MarkersRenderKeeps ==
  ASSUME MarkersIInv, Markers!Render
  PROVE  MarkersIInv'
<1> DEFINE q == [Markers!Effects(shown, due) EXCEPT !.again = shown.clusterer]
<1>1. /\ due # {} /\ shown' = q /\ due' = {}
      /\ sessions' = sessions /\ selected' = selected /\ loaded' = loaded /\ pending' = pending
      /\ zoom' = zoom /\ view' = view /\ moved' = moved
  BY DEF Markers!Render, Markers!fetching, Markers!map
<1>2. MarkersLeft(q) /\ q.again = shown.clusterer
  <2> DEFINE r == Markers!Effects(shown, due)
  <2>1. r \in MarkersRefs /\ MarkersLeft(q)
    BY <1>1, MarkersEffectsLeave
  <2> HIDE DEF r
  <2> QED
    BY <2>1 DEF MarkersRefs, r
<1> HIDE DEF q
<1>3. MarkersTypeInv' /\ MarkersTidy(shown)'
  BY <1>1, <1>2 DEF MarkersIInv, MarkersTypeInv, MarkersTidy, MarkersLeft, MarkersRefs,
      Markers!Zooms
<1>4. MarkersOpened' /\ MarkersDueFits' /\ MarkersListens'
  BY <1>1, <1>2 DEF MarkersIInv, MarkersOpened, MarkersDueFits, MarkersListens, MarkersLeft
<1>5. MarkersLone' /\ MarkersAllShown'
  BY <1>1, <1>2 DEF MarkersLeft, MarkersLone, MarkersAllShown, MarkersInSight, Markers!InView
<1> QED
  BY <1>3, <1>4, <1>5 DEF MarkersIInv

LEMMA MarkersBlankIs ==
  /\ Markers!Blank \in MarkersRefs /\ ~Markers!Blank.clusterer /\ ~Markers!Blank.listening /\ Markers!Blank.markers = {}
  /\ Markers!Blank.overlays = {} /\ Markers!Blank.given = {} /\ Markers!Blank.clustered = {} /\ Markers!Blank.clusters = {}
BY DEF Markers!Blank, MarkersRefs

LEMMA MarkersIdleKeeps ==
  ASSUME MarkersIInv, due = {}, Markers!Idle
  PROVE  MarkersIInv'
<1>1. /\ sessions' = sessions /\ selected' = selected /\ loaded' = loaded /\ pending' = pending
      /\ zoom' = zoom /\ view' = view
      /\ due' = (IF selected = Nothing THEN {"page"} ELSE {}) /\ ~moved'
  BY DEF Markers!Idle, Markers!fetching, Markers!map
<1>2. MarkersTypeInv /\ shown \in MarkersRefs /\ MarkersTidy(shown)
  BY DEF MarkersIInv, MarkersTypeInv
<1>3. PICK r \in MarkersRefs : /\ shown' = r /\ MarkersTidy(r)
                               /\ r.clusterer = shown.clusterer /\ r.listening = shown.listening
                               /\ r.markers = shown.markers
                               /\ ~shown.clusterer => MarkersInSight(r.markers) \subseteq r.overlays
  <2>1. CASE shown' = Markers!updateMarkerOverlays(Markers!render(shown))
    <3> DEFINE m == Markers!render(shown)
               r == Markers!updateMarkerOverlays(m)
    <3>1. m \in MarkersRefs /\ MarkersTidy(m) /\ MarkersAlike(m, shown)
      BY <1>2, MarkersRenderIs, MarkersRenderTidies
    <3> HIDE DEF m
    <3>2. /\ r \in MarkersRefs /\ MarkersTidy(r) /\ r.clusterer = m.clusterer /\ r.listening = m.listening
          /\ r.markers = m.markers /\ r.overlays = MarkersInSight(m.markers \ m.clustered)
      BY <3>1, MarkersUpdateIs, MarkersUpdateTidies
    <3>3. ~m.clusterer => m.clustered = {}
      BY <3>1 DEF MarkersTidy
    <3>4. shown' = r
      BY <2>1 DEF m
    <3> HIDE DEF r
    <3> QED
      BY <3>1, <3>2, <3>3, <3>4 DEF MarkersAlike, MarkersInSight
  <2>2. CASE shown' = Markers!render(Markers!updateMarkerOverlays(shown))
    <3> DEFINE m == Markers!updateMarkerOverlays(shown)
               r == Markers!render(m)
    <3>1. /\ m \in MarkersRefs /\ MarkersTidy(m) /\ m.clusterer = shown.clusterer
          /\ m.listening = shown.listening
          /\ m.markers = shown.markers /\ m.overlays = MarkersInSight(shown.markers \ shown.clustered)
      BY <1>2, MarkersUpdateIs, MarkersUpdateTidies
    <3> HIDE DEF m
    <3>2. r \in MarkersRefs /\ MarkersTidy(r) /\ MarkersAlike(r, m)
      BY <1>2, <3>1, MarkersRenderIs, MarkersRenderTidies
    <3>3. ~shown.clusterer => shown.clustered = {}
      BY <1>2 DEF MarkersTidy
    <3>4. shown' = r
      BY <2>2 DEF m
    <3> HIDE DEF r
    <3> QED
      BY <3>1, <3>2, <3>3, <3>4 DEF MarkersAlike, MarkersInSight
  <2> QED
    BY <2>1, <2>2 DEF Markers!Idle
<1>4. MarkersTypeInv' /\ MarkersTidy(shown)'
  <2>1. MarkersRefs' = MarkersRefs /\ moved' \in BOOLEAN
    BY DEF MarkersRefs, Markers!Zooms, Markers!Idle
  <2>2. MarkersTypeInv'
    BY <1>1, <1>2, <1>3, <2>1 DEF MarkersTypeInv, Markers!Zooms
  <2>3. MarkersTidy(shown)'
    BY <1>1, <1>3 DEF MarkersTidy
  <2> QED
    BY <2>2, <2>3
<1>5. MarkersOpened' /\ MarkersDueFits' /\ MarkersListens'
  BY <1>1, <1>3 DEF MarkersIInv, MarkersOpened, MarkersDueFits, MarkersListens
<1>6. MarkersLone'
  BY <1>1, <1>3 DEF MarkersIInv, MarkersLone, MarkersInSight, Markers!InView
<1>7. MarkersAllShown'
  BY <1>1 DEF MarkersAllShown
<1> QED
  BY <1>4, <1>5, <1>6, <1>7 DEF MarkersIInv

LEMMA MarkersPageKeeps ==
  ASSUME Markers!NothingAssumption, MarkersIInv, due = {}, Markers!Page
  PROVE  MarkersIInv'
<1>1. ASSUME NEW s \in SUBSET Streams, Markers!clearAllMarkersAndClusters(s)
      PROVE  MarkersIInv'
  <2>1. /\ sessions' = s /\ shown' = Markers!Blank /\ due' = {"data", "selection"}
        /\ selected' = selected /\ loaded' = loaded /\ pending' = pending
        /\ zoom' = zoom /\ view' = view /\ moved' = moved
    BY <1>1 DEF Markers!clearAllMarkersAndClusters, Markers!fetching, Markers!map
  <2>2. MarkersTypeInv' /\ MarkersTidy(shown)'
    BY <2>1, MarkersBlankIs DEF MarkersIInv, MarkersTypeInv, MarkersTidy, MarkersRefs, Markers!Zooms
  <2>3. MarkersOpened' /\ MarkersDueFits' /\ MarkersListens' /\ MarkersLone' /\ MarkersAllShown'
    BY <2>1, MarkersBlankIs DEF MarkersIInv, MarkersOpened, MarkersDueFits, MarkersListens,
        MarkersLone, MarkersAllShown
  <2> QED
    BY <2>2, <2>3 DEF MarkersIInv
<1>2. ASSUME NEW s \in Streams, Markers!Select(s)
      PROVE  MarkersIInv'
  <2>1. /\ selected = Nothing /\ selected' = s /\ pending' /\ due' = {"data", "selection"}
        /\ sessions' = sessions /\ loaded' = loaded /\ shown' = shown
        /\ zoom' = zoom /\ view' = view /\ moved' = moved /\ pending' \in BOOLEAN
    BY <1>2 DEF Markers!Select, Markers!fetching, Markers!map
  <2>2. s # Nothing
    BY DEF Markers!NothingAssumption
  <2>3. MarkersTypeInv' /\ MarkersTidy(shown)'
    BY <2>1 DEF MarkersIInv, MarkersTypeInv, MarkersTidy, MarkersRefs, Markers!Zooms
  <2>4. MarkersOpened' /\ MarkersDueFits' /\ MarkersListens' /\ MarkersLone' /\ MarkersAllShown'
    BY <2>1, <2>2 DEF MarkersIInv, MarkersOpened, MarkersDueFits, MarkersListens, MarkersLone,
        MarkersAllShown
  <2> QED
    BY <2>3, <2>4 DEF MarkersIInv
<1>3. ASSUME NEW found \in BOOLEAN, Markers!StreamAnswer(found)
      PROVE  MarkersIInv'
  <2>1. /\ pending /\ pending' = FALSE /\ loaded' = found /\ due' = {"data"}
        /\ sessions' = sessions /\ selected' = selected /\ shown' = shown
        /\ zoom' = zoom /\ view' = view /\ moved' = moved
    BY <1>3 DEF Markers!StreamAnswer, Markers!fetching, Markers!map
  <2>2. MarkersTypeInv' /\ MarkersTidy(shown)'
    BY <2>1 DEF MarkersIInv, MarkersTypeInv, MarkersTidy, MarkersRefs, Markers!Zooms
  <2>3. MarkersOpened' /\ MarkersDueFits' /\ MarkersListens' /\ MarkersLone' /\ MarkersAllShown'
    BY <2>1 DEF MarkersIInv, MarkersOpened, MarkersDueFits, MarkersListens, MarkersLone,
        MarkersAllShown
  <2> QED
    BY <2>2, <2>3 DEF MarkersIInv
<1>4. ASSUME Markers!Deselect
      PROVE  MarkersIInv'
  <2>1. /\ selected' = Nothing /\ loaded' = FALSE /\ due' = {"selection"} /\ ~pending
        /\ sessions' = sessions /\ pending' = pending /\ shown' = shown
        /\ zoom' = zoom /\ view' = view /\ moved' = moved
    BY <1>4 DEF Markers!Deselect, Markers!fetching, Markers!map
  <2>2. MarkersTypeInv' /\ MarkersTidy(shown)'
    BY <2>1 DEF MarkersIInv, MarkersTypeInv, MarkersTidy, MarkersRefs, Markers!Zooms
  <2>3. MarkersOpened' /\ MarkersDueFits' /\ MarkersListens' /\ MarkersLone' /\ MarkersAllShown'
    BY <2>1 DEF MarkersIInv, MarkersOpened, MarkersDueFits, MarkersListens, MarkersLone,
        MarkersAllShown
  <2> QED
    BY <2>2, <2>3 DEF MarkersIInv
<1>5. ASSUME NEW z \in Markers!Zooms, NEW v \in Stretches, Markers!Move(z, v)
      PROVE  MarkersIInv'
  <2>1. /\ zoom' = z /\ view' = v /\ moved' = TRUE
        /\ sessions' = sessions /\ selected' = selected /\ loaded' = loaded
        /\ pending' = pending /\ due' = due /\ shown' = shown
    BY <1>5 DEF Markers!Move, Markers!fetching
  <2>2. MarkersTypeInv' /\ MarkersTidy(shown)'
    BY <2>1 DEF MarkersIInv, MarkersTypeInv, MarkersTidy, MarkersRefs, Markers!Zooms
  <2>3. MarkersOpened' /\ MarkersDueFits' /\ MarkersListens' /\ MarkersLone' /\ MarkersAllShown'
    BY <2>1 DEF MarkersIInv, MarkersOpened, MarkersDueFits, MarkersListens, MarkersLone,
        MarkersAllShown
  <2> QED
    BY <2>2, <2>3 DEF MarkersIInv
<1> QED
  BY <1>1, <1>2, <1>3, <1>4, <1>5, MarkersIdleKeeps DEF Markers!Page

LEMMA MarkersNextKeeps ==
  ASSUME Markers!NothingAssumption, MarkersIInv, [Markers!Next]_(Markers!vars)
  PROVE  MarkersIInv'
<1>1. CASE Markers!Render
  BY <1>1, MarkersRenderKeeps
<1>2. CASE due = {} /\ Markers!Page
  BY <1>2, MarkersPageKeeps
<1>3. CASE UNCHANGED Markers!vars
  BY <1>3 DEF Markers!vars, Markers!fetching, Markers!map, MarkersIInv, MarkersTypeInv,
      MarkersTidy, MarkersOpened, MarkersDueFits, MarkersListens, MarkersLone,
              MarkersAllShown, MarkersInSight, Markers!InView, MarkersRefs, Markers!Zooms
<1> QED
  BY <1>1, <1>2, <1>3 DEF Markers!Next

LEMMA MarkersInitHolds == Markers!Init => MarkersIInv
<1> SUFFICES ASSUME Markers!Init PROVE MarkersIInv
  OBVIOUS
<1>1. MarkersTypeInv /\ MarkersTidy(shown)
  BY MarkersBlankIs DEF Markers!Init, MarkersTypeInv, MarkersTidy
<1>2. MarkersOpened /\ MarkersDueFits /\ MarkersListens /\ MarkersLone /\ MarkersAllShown
  BY MarkersBlankIs DEF Markers!Init, MarkersOpened, MarkersDueFits, MarkersListens, MarkersLone,
      MarkersAllShown
<1> QED
  BY <1>1, <1>2 DEF MarkersIInv

LEMMA MarkersInvImplies == MarkersIInv => Markers!EachSessionShownOnce
<1> SUFFICES ASSUME MarkersIInv, Markers!Rests, selected = Nothing \/ loaded
             PROVE  LET mine == IF selected = Nothing THEN sessions ELSE {selected}
                        crowds == UNION shown.clusters
                    IN  /\ shown.again => shown.overlays \cap crowds = {}
                        /\ {s \in mine \cap sessions : Markers!InView(Position[s])} \subseteq shown.overlays \cup crowds
                        /\ shown.overlays \cup crowds \subseteq mine
  BY DEF Markers!EachSessionShownOnce
<1>1. /\ shown.overlays \subseteq shown.markers /\ UNION shown.clusters \subseteq shown.markers
      /\ shown.markers \subseteq sessions /\ due = {} /\ ~moved
  BY DEF MarkersIInv, MarkersTidy, Markers!Rests
<1>2. CASE selected = Nothing
  BY <1>1, <1>2 DEF MarkersIInv, MarkersAllShown, MarkersInSight
<1>3. CASE selected # Nothing
  <2>1. /\ shown.clusters = {} /\ shown.markers = sessions \cap {selected}
        /\ MarkersInSight(shown.markers) \subseteq shown.overlays
    BY <1>1, <1>3 DEF MarkersIInv, MarkersLone, MarkersTidy
  <2> QED
    BY <1>1, <1>3, <2>1 DEF MarkersInSight
<1> QED
  BY <1>2, <1>3

-----------------------------------------------------------------------------
(* The markers of dormant fixed sessions. *)

DormantTypeInv ==
  /\ sessions \in SUBSET Streams
  /\ selected \in Streams \cup {Nothing}
  /\ loaded \in BOOLEAN /\ pending \in BOOLEAN
  /\ pulsating \in Streams \cup {Nothing} /\ hover \in Streams \cup {Nothing}
  /\ due \in SUBSET Dormant!All
  /\ onMap \in SUBSET Streams /\ pulses \in SUBSET Streams
  /\ hoverAt \in Streams \cup {Nothing}
  /\ redrawn \in BOOLEAN

\* Unless a render is to draw them, the markers are those of the sessions and the stream.
DormantPlaced ==
  due \cap {"page", "selection"} = {} /\ ~pending =>
    /\ selected = Nothing => onMap = sessions
    /\ loaded /\ selected # Nothing /\ ~redrawn => onMap = sessions \cap {selected}

\* A stream is not opened, closed or answered without the sessions being drawn.
DormantSelecting == "selection" \in due => "page" \in due

DormantPulsating == "page" \notin due => pulses = sessions \cap {pulsating}

\* A marker of the graph's point moves with the next render, which finds its session.
DormantHovering ==
  IF "hover" \in due THEN hover \in sessions \cup {Nothing} \/ hoverAt = Nothing
  ELSE hoverAt \in {hover, Nothing}

\* The inductive invariant.
DormantIInv == DormantTypeInv /\ DormantSelecting /\ DormantPlaced /\ DormantPulsating /\ DormantHovering

-----------------------------------------------------------------------------
(* What each step keeps. *)

LEMMA DormantRenderKeeps ==
  ASSUME DormantIInv, Dormant!Render
  PROVE  DormantIInv'
<1> DEFINE made == IF "page" \in due THEN sessions ELSE onMap
<1>1. /\ due' = {}
      /\ onMap' = IF "selection" \in due THEN Dormant!handleSelectedStreamId(made) ELSE made
      /\ pulses' = IF "page" \in due THEN {pulsating} \cap sessions ELSE pulses
      /\ hoverAt' = IF "hover" \notin due \/ hover \notin sessions \cup {Nothing} THEN hoverAt ELSE hover
      /\ redrawn' = ("selection" \notin due /\ (redrawn \/ selected # Nothing))
      /\ UNCHANGED <<sessions, selected, loaded, pending, pulsating, hover>>
  BY DEF Dormant!Render
<1>2. made \in SUBSET Streams
  BY DEF DormantIInv, DormantTypeInv
<1>3. onMap' \in SUBSET Streams /\ redrawn' \in BOOLEAN
  BY <1>1, <1>2 DEF Dormant!handleSelectedStreamId, DormantIInv, DormantTypeInv
<1>4. DormantTypeInv'
  BY <1>1, <1>3 DEF DormantIInv, DormantTypeInv
<1>5. DormantSelecting' /\ DormantPulsating' /\ DormantHovering'
  BY <1>1 DEF DormantIInv, DormantTypeInv, DormantSelecting, DormantPulsating, DormantHovering
<1>6. DormantPlaced'
  <2> SUFFICES ASSUME ~pending
               PROVE  /\ selected = Nothing => onMap' = sessions
                      /\ loaded /\ selected # Nothing /\ ~redrawn' => onMap' = sessions \cap {selected}
    BY <1>1 DEF DormantPlaced
  <2>1. CASE "selection" \notin due
    BY <1>1, <2>1 DEF DormantIInv, DormantPlaced
  <2>2. CASE "selection" \in due /\ "page" \in due
    BY <1>1, <2>2 DEF Dormant!handleSelectedStreamId
  <2>3. CASE "selection" \in due /\ "page" \notin due
    BY <1>1, <2>3 DEF DormantIInv, DormantSelecting, Dormant!handleSelectedStreamId
  <2> QED
    BY <2>1, <2>2, <2>3
<1> QED
  BY <1>4, <1>5, <1>6 DEF DormantIInv

LEMMA DormantPageKeeps ==
  ASSUME DormantIInv, due = {}, Dormant!Page
  PROVE  DormantIInv'
<1>1. ASSUME NEW s \in SUBSET Streams, Dormant!Fetched(s) PROVE DormantIInv'
  BY <1>1 DEF Dormant!Fetched, Dormant!All, DormantIInv, DormantTypeInv, DormantPlaced,
      DormantPulsating, DormantHovering, DormantSelecting
<1>2. ASSUME NEW s \in Streams, Dormant!Open(s) PROVE DormantIInv'
  BY <1>2 DEF Dormant!Open, Dormant!All, DormantIInv, DormantTypeInv, DormantPlaced,
      DormantPulsating, DormantHovering, DormantSelecting
<1>3. ASSUME NEW found \in BOOLEAN, Dormant!StreamAnswer(found) PROVE DormantIInv'
  BY <1>3 DEF Dormant!StreamAnswer, Dormant!Markers, Dormant!All, DormantIInv, DormantTypeInv,
      DormantPlaced, DormantPulsating, DormantHovering, DormantSelecting
<1>4. CASE Dormant!Close
  BY <1>4 DEF Dormant!Close, Dormant!Markers, Dormant!All, DormantIInv, DormantTypeInv,
      DormantPlaced, DormantPulsating, DormantHovering, DormantSelecting
<1>5. ASSUME NEW s \in sessions \cup {Nothing}, Dormant!PointAtSession(s) PROVE DormantIInv'
  BY <1>5 DEF Dormant!PointAtSession, Dormant!Markers, Dormant!All, DormantIInv, DormantTypeInv,
      DormantPlaced, DormantPulsating, DormantHovering, DormantSelecting
<1>6. ASSUME NEW s \in sessions \cup {Nothing}, Dormant!PointAtGraph(s) PROVE DormantIInv'
  BY <1>6 DEF Dormant!PointAtGraph, Dormant!Markers, Dormant!All, DormantIInv, DormantTypeInv,
      DormantPlaced, DormantPulsating, DormantHovering, DormantSelecting
<1>7. CASE Dormant!MapRenders
  BY <1>7 DEF Dormant!MapRenders, Dormant!Markers, Dormant!All, DormantIInv, DormantTypeInv,
      DormantPlaced, DormantPulsating, DormantHovering, DormantSelecting
<1> QED
  BY <1>1, <1>2, <1>3, <1>4, <1>5, <1>6, <1>7 DEF Dormant!Page

LEMMA DormantInitHolds == Dormant!Init => DormantIInv
BY DEF Dormant!Init, Dormant!All, DormantIInv, DormantTypeInv, DormantPlaced, DormantPulsating,
    DormantHovering, DormantSelecting

LEMMA DormantNextKeeps == DormantIInv /\ [Dormant!Next]_(Dormant!vars) => DormantIInv'
<1> SUFFICES ASSUME DormantIInv, [Dormant!Next]_(Dormant!vars) PROVE DormantIInv'
  OBVIOUS
<1>1. CASE UNCHANGED Dormant!vars
  BY <1>1 DEF Dormant!vars, DormantIInv, DormantTypeInv, DormantPlaced, DormantPulsating,
      DormantHovering, DormantSelecting
<1> QED
  BY <1>1, DormantRenderKeeps, DormantPageKeeps DEF Dormant!Next

LEMMA DormantInvImplies == DormantIInv => Dormant!DormantShownOnce
BY DEF DormantIInv, DormantTypeInv, DormantPlaced, DormantPulsating, DormantHovering,
    Dormant!DormantShownOnce

-----------------------------------------------------------------------------
(* The overlays of the map. *)

OverlayLevels == {0, 1}
OverlayPanes == {"floatPane", "overlayMouseTarget", "overlayLayer"}

OverlayFields == [at : Spots, color : Colors, pulses : BOOLEAN, selected : BOOLEAN,
                  level : OverlayLevels, notes : BOOLEAN, invisible : BOOLEAN]
OverlayDivs == [pane : OverlayPanes, at : Spots \cup {0}, color : Colors \cup {0}, pulses : BOOLEAN,
                selected : BOOLEAN, level : OverlayLevels \cup {2}, notes : BOOLEAN]

OverlayTypeInv ==
  /\ class \in {Overlay!Marker, Overlay!Glow, Overlay!Label, Overlay!Cluster}
  /\ fields \in OverlayFields
  /\ onMap \in BOOLEAN
  /\ div \in OverlayDivs \cup {Overlay!NoDiv}
  /\ registered \in BOOLEAN

\* A marker is never selected, nothing else has notes or is invisible, and what is
\* invisible does not pulsate: so onAdd need not make what a class cannot be told.
OverlayFits(c, f) ==
  /\ f.selected => c \in {Overlay!Glow, Overlay!Label}
  /\ f.notes => c = Overlay!Marker
  /\ f.invisible => c = Overlay!Marker /\ ~f.pulses

\* The div d of a cluster is raised while it pulsates, and then only.
OverlayRaised(c, d, f) ==
  c = Overlay!Cluster =>
    IF f.pulses THEN d.pane = "floatPane" /\ d.level = 2
    ELSE \/ d.pane = "overlayMouseTarget" /\ d.level = 1
         \/ d.pane = "overlayLayer" /\ d.level = 2

\* The div d is what the fields f of an overlay of class c say.
OverlayShows(c, d, f) ==
  /\ d.at = f.at
  /\ d.pulses = f.pulses
  /\ d.selected = f.selected
  /\ d.notes = f.notes
  /\ f.invisible \/ d.color = f.color
  /\ c \in {Overlay!Glow, Overlay!Label} => d.level = f.level
  /\ OverlayRaised(c, d, f)

\* The inductive invariant.
OverlayIInv ==
  /\ OverlayTypeInv
  /\ OverlayFits(class, fields)
  /\ ~onMap => div = Overlay!NoDiv
  /\ div # Overlay!NoDiv => OverlayShows(class, div, fields)

-----------------------------------------------------------------------------
(* What onAdd and the setters make of a div. *)

LEMMA OverlayDivsAreDrawn ==
  ASSUME NEW d \in OverlayDivs
  PROVE  d # Overlay!NoDiv
BY DEF OverlayDivs, Overlay!NoDiv, OverlayPanes

\* The div of onAdd is what the fields say.
LEMMA OverlayAddedShows ==
  ASSUME class \in {Overlay!Marker, Overlay!Glow, Overlay!Label, Overlay!Cluster},
    NEW f \in OverlayFields, OverlayFits(class, f)
  PROVE  /\ Overlay!draw(Overlay!Added(f), f) \in OverlayDivs
         /\ OverlayShows(class, Overlay!draw(Overlay!Added(f), f), f)
<1> DEFINE d == Overlay!draw(Overlay!Added(f), f)
<1>1. CASE class = Overlay!Marker
  <2> DEFINE bare == Overlay!Bare("overlayMouseTarget")
             a == Overlay!AddedMarker(f)
  <2>1. Overlay!Added(f) = a
    BY <1>1 DEF Overlay!Added, Overlay!Marker, Overlay!Glow, Overlay!Label, Overlay!Cluster
  <2>2. bare \in OverlayDivs
    BY DEF Overlay!Bare, OverlayDivs, OverlayLevels, OverlayPanes
  <2>3. (f.pulses /\ ~f.invisible) = f.pulses
    BY DEF OverlayFields, OverlayFits
  <2>4. a = [bare EXCEPT !.color = f.color, !.pulses = f.pulses, !.notes = f.notes]
    BY <2>3 DEF Overlay!AddedMarker
  <2>5. a \in OverlayDivs
    BY <2>2, <2>4 DEF OverlayDivs, OverlayFields
  <2>6. a.color = f.color /\ a.notes = f.notes /\ a.pulses = f.pulses
    BY <2>2, <2>4 DEF OverlayDivs
  <2>7. a.selected = FALSE
    BY <2>2, <2>4 DEF OverlayDivs, Overlay!Bare
  <2>8. f.selected = FALSE
    BY <1>1 DEF OverlayFits, OverlayFields, Overlay!Marker, Overlay!Glow, Overlay!Label
  <2>9. d = [a EXCEPT !.at = f.at]
    BY <2>1, <2>5, OverlayDivsAreDrawn DEF Overlay!draw
  <2> QED
    BY <1>1, <2>5, <2>6, <2>7, <2>8, <2>9 DEF OverlayShows, OverlayRaised, OverlayDivs,
        OverlayFields, Overlay!Marker, Overlay!Glow, Overlay!Label, Overlay!Cluster
<1>2. CASE class \in {Overlay!Glow, Overlay!Label}
  <2>1. PICK pane \in OverlayPanes : Overlay!Added(f) = Overlay!applyStyles(Overlay!Bare(pane), f)
    <3>1. CASE class = Overlay!Glow
      BY <3>1 DEF Overlay!Added, Overlay!AddedGlow, OverlayPanes, Overlay!Marker, Overlay!Glow,
          Overlay!Label, Overlay!Cluster
    <3>2. CASE class = Overlay!Label
      BY <3>2 DEF Overlay!Added, Overlay!AddedLabel, OverlayPanes, Overlay!Marker, Overlay!Glow,
          Overlay!Label, Overlay!Cluster
    <3> QED
      BY <1>2, <3>1, <3>2
  <2>2. Overlay!Bare(pane) \in OverlayDivs
    BY DEF Overlay!Bare, OverlayDivs, OverlayLevels
  <2>3. Overlay!Added(f) \in OverlayDivs
    BY <2>1, <2>2 DEF Overlay!applyStyles, OverlayDivs, OverlayFields
  <2>4. /\ Overlay!Added(f).color = f.color /\ Overlay!Added(f).pulses = f.pulses
        /\ Overlay!Added(f).selected = f.selected /\ Overlay!Added(f).level = f.level
    BY <2>1, <2>2 DEF Overlay!applyStyles, OverlayDivs
  <2>5. Overlay!Added(f).notes = FALSE
    BY <2>1, <2>2 DEF Overlay!applyStyles, OverlayDivs, Overlay!Bare
  <2>6. f.notes = FALSE /\ class # Overlay!Cluster
    BY <1>2 DEF OverlayFits, OverlayFields, Overlay!Marker, Overlay!Glow, Overlay!Label,
        Overlay!Cluster
  <2>7. d = [Overlay!Added(f) EXCEPT !.at = f.at]
    BY <2>3, OverlayDivsAreDrawn DEF Overlay!draw
  <2> QED
    BY <2>3, <2>4, <2>5, <2>6, <2>7 DEF OverlayShows, OverlayRaised, OverlayDivs, OverlayFields
<1>3. CASE class = Overlay!Cluster
  <2> DEFINE pane == IF f.pulses THEN "floatPane" ELSE "overlayMouseTarget"
             bare == [Overlay!Bare(pane) EXCEPT !.level = 1]
             a == Overlay!applyClusterStyles(bare, f)
  <2>1. Overlay!Added(f) = a
    BY <1>3 DEF Overlay!Added, Overlay!AddedCluster, Overlay!Marker, Overlay!Glow, Overlay!Label,
        Overlay!Cluster
  <2>2. pane \in OverlayPanes
    BY DEF OverlayPanes
  <2> HIDE DEF pane
  <2>3. /\ Overlay!Bare(pane) \in OverlayDivs /\ Overlay!Bare(pane).pane = pane
        /\ Overlay!Bare(pane).selected = FALSE /\ Overlay!Bare(pane).notes = FALSE
    BY <2>2 DEF Overlay!Bare, OverlayDivs, OverlayLevels
  <2>4. /\ bare \in OverlayDivs /\ bare.pane = pane /\ bare.level = 1
        /\ bare.selected = FALSE /\ bare.notes = FALSE
    BY <2>3 DEF OverlayDivs, OverlayLevels
  <2> HIDE DEF bare
  <2>5. a \in OverlayDivs
    BY <2>4 DEF Overlay!applyClusterStyles, OverlayDivs, OverlayFields
  <2>6. a.color = f.color /\ a.pulses = f.pulses /\ a.level = IF f.pulses THEN 2 ELSE 1
    BY <2>4 DEF Overlay!applyClusterStyles, OverlayDivs
  <2>7. a.selected = FALSE /\ a.notes = FALSE /\ a.pane = pane
    BY <2>4 DEF Overlay!applyClusterStyles, OverlayDivs
  <2>8. f.selected = FALSE /\ f.notes = FALSE
    BY <1>3 DEF OverlayFits, OverlayFields, Overlay!Marker, Overlay!Glow, Overlay!Label,
        Overlay!Cluster
  <2> HIDE DEF a
  <2>9. d = [a EXCEPT !.at = f.at]
    BY <2>1, <2>5, OverlayDivsAreDrawn DEF Overlay!draw
  <2>10. d \in OverlayDivs /\ d.at = f.at
    BY <2>5, <2>9 DEF OverlayDivs, OverlayFields
  <2>11. /\ d.color = a.color /\ d.pulses = a.pulses /\ d.level = a.level
         /\ d.selected = a.selected /\ d.notes = a.notes /\ d.pane = a.pane
    BY <2>5, <2>9 DEF OverlayDivs
  <2>12. OverlayRaised(class, d, f)
    BY <2>6, <2>7, <2>11 DEF OverlayRaised, pane
  <2> QED
    BY <1>3, <2>6, <2>7, <2>8, <2>10, <2>11, <2>12 DEF OverlayShows, Overlay!Glow, Overlay!Label,
        Overlay!Cluster
<1> QED
  BY <1>1, <1>2, <1>3

\* A setter that changes fields and div alike keeps them so.
LEMMA OverlayPatchKeeps ==
  ASSUME OverlayIInv, NEW f \in OverlayFields, NEW d \in OverlayDivs \cup {Overlay!NoDiv},
    OverlayFits(class, f),
         div = Overlay!NoDiv => d = Overlay!NoDiv,
         d # Overlay!NoDiv => OverlayShows(class, d, f),
         Overlay!Sets(f), div' = d, registered' \in BOOLEAN
  PROVE  OverlayIInv'
<1>1. class' = class /\ onMap' = onMap /\ fields' = f
  BY DEF Overlay!Sets
<1>2. OverlayTypeInv'
  BY <1>1 DEF OverlayIInv, OverlayTypeInv
<1>3. OverlayFits(class', fields') /\ (div' # Overlay!NoDiv => OverlayShows(class', div', fields'))
  BY <1>1
<1>4. ~onMap' => div' = Overlay!NoDiv
  BY <1>1 DEF OverlayIInv
<1> QED
  BY <1>2, <1>3, <1>4 DEF OverlayIInv

-----------------------------------------------------------------------------
(* The actions. *)

LEMMA OverlayInitHolds == Overlay!Init => OverlayIInv
<1> SUFFICES ASSUME Overlay!Init PROVE OverlayIInv
  OBVIOUS
<1>1. OverlayTypeInv
  BY DEF Overlay!Init, OverlayTypeInv, OverlayFields, OverlayLevels
<1>2. OverlayFits(class, fields)
  BY DEF Overlay!Init, OverlayFits, Overlay!Marker, Overlay!Glow, Overlay!Label, Overlay!Cluster
<1> QED
  BY <1>1, <1>2 DEF Overlay!Init, OverlayIInv

\* Google Maps adds the overlay, and takes it off.
LEMMA OverlayMapKeeps == OverlayIInv /\ (Overlay!setMap \/ Overlay!onRemove \/ Overlay!onAdd) => OverlayIInv'
<1> SUFFICES ASSUME OverlayIInv, Overlay!setMap \/ Overlay!onRemove \/ Overlay!onAdd PROVE OverlayIInv'
  OBVIOUS
<1>1. CASE Overlay!setMap
  BY <1>1 DEF OverlayIInv, OverlayTypeInv, OverlayFits, OverlayShows, OverlayRaised, Overlay!setMap
<1>2. CASE Overlay!onRemove
  BY <1>2 DEF OverlayIInv, OverlayTypeInv, OverlayFits, Overlay!onRemove
<1>3. CASE Overlay!onAdd
  <2>1. /\ div' \in OverlayDivs
        /\ OverlayShows(class, div', fields)
    BY <1>3, OverlayAddedShows DEF OverlayIInv, OverlayTypeInv, Overlay!onAdd
  <2>2. registered' \in BOOLEAN
    BY <1>3 DEF OverlayIInv, OverlayTypeInv, Overlay!onAdd, Overlay!createNoteContainer
  <2> QED
    BY <1>3, <2>1, <2>2 DEF OverlayIInv, OverlayTypeInv, OverlayFits, OverlayShows, OverlayRaised,
        Overlay!onAdd
<1> QED
  BY <1>1, <1>2, <1>3

LEMMA OverlayPositionKeeps ==
  ASSUME OverlayIInv, NEW p \in Spots, Overlay!setPosition(p)
  PROVE  OverlayIInv'
<1> DEFINE f == [fields EXCEPT !.at = p]
           d == Overlay!draw(div, f)
<1>1. f \in OverlayFields /\ OverlayFits(class, f)
  BY DEF OverlayIInv, OverlayTypeInv, OverlayFields, OverlayFits
<1>2. CASE div = Overlay!NoDiv
  BY <1>1, <1>2, OverlayPatchKeeps DEF Overlay!setPosition, Overlay!Patch, Overlay!draw,
      OverlayIInv, OverlayTypeInv
<1>3. CASE div # Overlay!NoDiv
  <2>1. div \in OverlayDivs /\ OverlayShows(class, div, fields)
    BY <1>3 DEF OverlayIInv, OverlayTypeInv
  <2>2. d = [div EXCEPT !.at = p]
    BY <1>3 DEF Overlay!draw, OverlayIInv, OverlayTypeInv, OverlayFields
  <2>3. d \in OverlayDivs
    BY <2>1, <2>2 DEF OverlayDivs
  <2>4. OverlayShows(class, d, f)
    BY <2>1, <2>2 DEF OverlayShows, OverlayRaised, OverlayDivs, OverlayFields, OverlayIInv,
        OverlayTypeInv
  <2> QED
    BY <1>1, <1>3, <2>3, <2>4, OverlayPatchKeeps DEF Overlay!setPosition, Overlay!Patch,
        OverlayIInv, OverlayTypeInv
<1> QED
  BY <1>2, <1>3

LEMMA OverlayColorKeeps ==
  ASSUME OverlayIInv, NEW c \in Colors, Overlay!setColor(c)
  PROVE  OverlayIInv'
<1> DEFINE f == [fields EXCEPT !.color = c]
           d == IF div = Overlay!NoDiv \/ fields.invisible THEN div ELSE [div EXCEPT !.color = c]
<1>1. f \in OverlayFields /\ OverlayFits(class, f)
  BY DEF OverlayIInv, OverlayTypeInv, OverlayFields, OverlayFits
<1>2. d \in OverlayDivs \cup {Overlay!NoDiv}
  BY DEF OverlayIInv, OverlayTypeInv, OverlayDivs
<1>3. d # Overlay!NoDiv => OverlayShows(class, d, f)
  BY DEF OverlayShows, OverlayRaised, OverlayDivs, OverlayFields, OverlayIInv, OverlayTypeInv
<1> QED
  BY <1>1, <1>2, <1>3, OverlayPatchKeeps DEF Overlay!setColor, Overlay!Patch, OverlayIInv,
      OverlayTypeInv

LEMMA OverlayLevelKeeps ==
  ASSUME OverlayIInv, NEW z \in OverlayLevels, Overlay!setZIndex(z)
  PROVE  OverlayIInv'
<1> DEFINE f == [fields EXCEPT !.level = z]
           d == IF div = Overlay!NoDiv THEN div ELSE [div EXCEPT !.level = z]
<1>1. f \in OverlayFields /\ OverlayFits(class, f)
  BY DEF OverlayIInv, OverlayTypeInv, OverlayFields, OverlayFits
<1>2. d \in OverlayDivs \cup {Overlay!NoDiv}
  BY DEF OverlayIInv, OverlayTypeInv, OverlayDivs
<1>3. d # Overlay!NoDiv => OverlayShows(class, d, f)
  BY DEF OverlayShows, OverlayRaised, OverlayDivs, OverlayFields, OverlayIInv, OverlayTypeInv,
      Overlay!setZIndex, Overlay!Marker, Overlay!Glow, Overlay!Label, Overlay!Cluster
<1> QED
  BY <1>1, <1>2, <1>3, OverlayPatchKeeps DEF Overlay!setZIndex, Overlay!Patch, OverlayIInv,
      OverlayTypeInv

LEMMA OverlayPulsatingKeeps ==
  ASSUME OverlayIInv, NEW b \in BOOLEAN, Overlay!setPulsating(b)
  PROVE  OverlayIInv'
<1> DEFINE f == [fields EXCEPT !.pulses = b]
           d == IF div = Overlay!NoDiv THEN div ELSE [div EXCEPT !.pulses = b]
<1>1. f \in OverlayFields /\ OverlayFits(class, f)
  BY DEF OverlayIInv, OverlayTypeInv, OverlayFields, OverlayFits, Overlay!setPulsating
<1>2. d \in OverlayDivs \cup {Overlay!NoDiv}
  BY DEF OverlayIInv, OverlayTypeInv, OverlayDivs
<1>3. d # Overlay!NoDiv => OverlayShows(class, d, f)
  BY DEF OverlayShows, OverlayRaised, OverlayDivs, OverlayFields, OverlayIInv, OverlayTypeInv,
      Overlay!setPulsating, Overlay!Marker, Overlay!Cluster
<1> QED
  BY <1>1, <1>2, <1>3, OverlayPatchKeeps DEF Overlay!setPulsating, Overlay!Patch, OverlayIInv,
      OverlayTypeInv

LEMMA OverlayNotesKeeps ==
  ASSUME OverlayIInv, NEW b \in BOOLEAN, Overlay!setNotes(b)
  PROVE  OverlayIInv'
<1> DEFINE f == [fields EXCEPT !.notes = b]
<1>1. f \in OverlayFields /\ OverlayFits(class, f)
  BY DEF OverlayIInv, OverlayTypeInv, OverlayFields, OverlayFits, Overlay!setNotes
<1>2. registered' \in BOOLEAN
  BY DEF OverlayIInv, OverlayTypeInv, Overlay!setNotes, Overlay!createNoteContainer
<1>3. Overlay!Sets(f)
  BY DEF Overlay!setNotes
<1>4. CASE div = Overlay!NoDiv
  <2>1. div' = Overlay!NoDiv
    BY <1>4 DEF Overlay!setNotes, Overlay!draw
  <2> QED
    BY <1>1, <1>2, <1>3, <2>1, OverlayPatchKeeps
<1>5. CASE div # Overlay!NoDiv
  <2>1. div \in OverlayDivs /\ OverlayShows(class, div, fields)
    BY <1>5 DEF OverlayIInv, OverlayTypeInv
  <2> DEFINE emptied == [div EXCEPT !.notes = FALSE]
  <2>2. emptied \in OverlayDivs /\ [emptied EXCEPT !.notes = TRUE] \in OverlayDivs
    BY <2>1 DEF OverlayDivs
  <2>3. div' = [emptied EXCEPT !.notes = b, !.at = f.at]
    <3>1. CASE b
      BY <1>5, <2>2, <3>1, OverlayDivsAreDrawn DEF Overlay!setNotes, Overlay!draw
    <3>2. CASE ~b
      BY <1>5, <2>2, <3>2, OverlayDivsAreDrawn DEF Overlay!setNotes, Overlay!draw, OverlayDivs
    <3> QED
      BY <3>1, <3>2
  <2>4. f.at = fields.at
    BY DEF OverlayIInv, OverlayTypeInv, OverlayFields
  <2>5. div' \in OverlayDivs
    BY <2>2, <2>3, <2>4 DEF OverlayDivs, OverlayIInv, OverlayTypeInv, OverlayFields
  <2>6. OverlayShows(class, div', f)
    BY <2>1, <2>2, <2>3, <2>4 DEF OverlayShows, OverlayRaised, OverlayDivs, OverlayFields,
        OverlayIInv, OverlayTypeInv, Overlay!setNotes, Overlay!Marker, Overlay!Cluster
  <2> QED
    BY <1>1, <1>2, <1>3, <1>5, <2>5, <2>6, OverlayPatchKeeps
<1> QED
  BY <1>4, <1>5

\* A glow or a label is drawn anew as a whole.
LEMMA OverlayUpdateKeeps ==
  ASSUME OverlayIInv, class \in {Overlay!Glow, Overlay!Label},
         NEW f \in OverlayFields, OverlayFits(class, f), f.at = fields.at, f.notes = fields.notes,
         Overlay!Patch(f, Overlay!update(div, f))
  PROVE  OverlayIInv'
<1> DEFINE d == Overlay!update(div, f)
<1>1. d \in OverlayDivs \cup {Overlay!NoDiv}
  BY DEF Overlay!update, Overlay!applyStyles, OverlayIInv, OverlayTypeInv, OverlayDivs,
      OverlayFields
<1>2. d # Overlay!NoDiv => OverlayShows(class, d, f)
  BY DEF Overlay!update, Overlay!applyStyles, OverlayShows, OverlayRaised, OverlayDivs, OverlayFields,
      OverlayIInv, OverlayTypeInv, Overlay!Glow, Overlay!Label, Overlay!Cluster
<1>3. div = Overlay!NoDiv => d = Overlay!NoDiv
  BY DEF Overlay!update
<1> QED
  BY <1>1, <1>2, <1>3, OverlayPatchKeeps DEF Overlay!Patch, OverlayIInv, OverlayTypeInv

LEMMA OverlayGlowKeeps ==
  ASSUME OverlayIInv, NEW c \in Colors, NEW s \in BOOLEAN, NEW p \in BOOLEAN, Overlay!SetGlow(c, s, p)
  PROVE  OverlayIInv'
<1> DEFINE f == [fields EXCEPT !.color = c, !.selected = s, !.pulses = p]
<1>1. class = Overlay!Glow /\ Overlay!Patch(f, Overlay!update(div, f))
  BY DEF Overlay!SetGlow
<1>2. f \in OverlayFields /\ f.at = fields.at /\ f.notes = fields.notes
  BY DEF OverlayIInv, OverlayTypeInv, OverlayFields
<1>3. OverlayFits(class, f)
  BY <1>1 DEF OverlayIInv, OverlayTypeInv, OverlayFields, OverlayFits, Overlay!Glow, Overlay!Marker
<1> QED
  BY <1>1, <1>2, <1>3, OverlayUpdateKeeps

LEMMA OverlayLabelKeeps ==
  ASSUME OverlayIInv, NEW c \in Colors, NEW s \in BOOLEAN, NEW z \in OverlayLevels,
    Overlay!SetLabel(c, s, z)
  PROVE  OverlayIInv'
<1> DEFINE f == [fields EXCEPT !.color = c, !.selected = s, !.level = z]
<1>1. class = Overlay!Label /\ Overlay!Patch(f, Overlay!update(div, f))
  BY DEF Overlay!SetLabel
<1>2. f \in OverlayFields /\ f.at = fields.at /\ f.notes = fields.notes
  BY DEF OverlayIInv, OverlayTypeInv, OverlayFields
<1>3. OverlayFits(class, f)
  BY <1>1 DEF OverlayIInv, OverlayTypeInv, OverlayFields, OverlayFits, Overlay!Label, Overlay!Marker
<1> QED
  BY <1>1, <1>2, <1>3, OverlayUpdateKeeps

\* A cluster changes its pane as well.
LEMMA OverlayClusterKeeps ==
  ASSUME OverlayIInv, NEW p \in BOOLEAN, Overlay!setShouldPulse(p)
  PROVE  OverlayIInv'
<1> DEFINE f == [fields EXCEPT !.pulses = p]
           there == Overlay!updatePane(div, p)
           d == IF div = Overlay!NoDiv THEN div ELSE Overlay!applyClusterStyles(there, f)
<1>1. /\ class = Overlay!Cluster /\ p # fields.pulses
      /\ Overlay!Sets(f) /\ div' = d /\ registered' = registered
  BY DEF Overlay!setShouldPulse, Overlay!Patch
<1>2. f \in OverlayFields /\ OverlayFits(class, f)
  BY <1>1 DEF OverlayIInv, OverlayTypeInv, OverlayFields, OverlayFits, Overlay!Marker,
      Overlay!Cluster
<1>3. CASE div = Overlay!NoDiv
  BY <1>1, <1>2, <1>3, OverlayPatchKeeps DEF OverlayIInv, OverlayTypeInv
<1>4. CASE div # Overlay!NoDiv
  <2>1. div \in OverlayDivs /\ OverlayShows(class, div, fields)
    BY <1>4 DEF OverlayIInv, OverlayTypeInv
  <2> DEFINE pane == IF p THEN "floatPane" ELSE "overlayLayer"
             level == IF p THEN 2 ELSE div.level
  <2>2. there = [div EXCEPT !.pane = pane]
    BY <1>4 DEF Overlay!updatePane
  <2>3. there \in OverlayDivs
    <3>1. pane \in OverlayPanes
      BY DEF OverlayPanes
    <3> QED
      BY <2>1, <2>2, <3>1 DEF OverlayDivs
  <2>4. /\ there.pane = pane /\ there.level = div.level /\ there.at = div.at
        /\ there.selected = div.selected /\ there.notes = div.notes
    BY <2>1, <2>2 DEF OverlayDivs
  <2>5. /\ f.pulses = p /\ f.color = fields.color /\ f.at = fields.at
        /\ f.selected = fields.selected /\ f.notes = fields.notes
    BY DEF OverlayIInv, OverlayTypeInv, OverlayFields
  <2> HIDE DEF there, f
  <2>6. d = [there EXCEPT !.color = f.color, !.pulses = f.pulses, !.level = IF f.pulses THEN 2 ELSE @]
    BY <1>4 DEF Overlay!applyClusterStyles
  <2>7. d \in OverlayDivs
    BY <1>2, <2>3, <2>6 DEF OverlayDivs, OverlayFields
  <2>8. /\ d.color = f.color /\ d.pulses = f.pulses
        /\ d.at = there.at /\ d.selected = there.selected /\ d.notes = there.notes
    BY <1>2, <2>3, <2>6 DEF OverlayDivs
  <2>9. d.pane = pane /\ d.level = level
    BY <2>3, <2>4, <2>5, <2>6 DEF OverlayDivs
  <2> HIDE DEF d
  <2>10. OverlayRaised(class, d, f)
    <3>1. CASE p
      BY <2>5, <2>9, <3>1 DEF OverlayRaised
    <3>2. CASE ~p
      <4>1. fields.pulses
        BY <1>1, <3>2 DEF OverlayIInv, OverlayTypeInv, OverlayFields
      <4>2. div.level = 2
        BY <1>1, <2>1, <4>1 DEF OverlayShows, OverlayRaised
      <4> QED
        BY <2>5, <2>9, <3>2, <4>2 DEF OverlayRaised
    <3> QED
      BY <3>1, <3>2
  <2>11. OverlayShows(class, d, f)
    <3>1. d.at = f.at /\ d.selected = f.selected /\ d.notes = f.notes
      BY <2>1, <2>4, <2>5, <2>8 DEF OverlayShows
    <3> QED
      BY <1>1, <2>8, <2>10, <3>1 DEF OverlayShows, Overlay!Glow, Overlay!Label, Overlay!Cluster
  <2> QED
    BY <1>1, <1>2, <1>4, <2>7, <2>11, OverlayPatchKeeps DEF OverlayIInv, OverlayTypeInv
<1> QED
  BY <1>3, <1>4

-----------------------------------------------------------------------------
(* The theorems. *)

LEMMA OverlayNextKeeps == OverlayIInv /\ [Overlay!Next]_(Overlay!vars) => OverlayIInv'
<1> SUFFICES ASSUME OverlayIInv, [Overlay!Next]_(Overlay!vars) PROVE OverlayIInv'
  OBVIOUS
<1>1. CASE Overlay!setMap \/ Overlay!onRemove \/ Overlay!onAdd
  BY <1>1, OverlayMapKeeps
<1>2. ASSUME NEW p \in Spots, Overlay!setPosition(p) PROVE OverlayIInv'
  BY <1>2, OverlayPositionKeeps
<1>3. ASSUME NEW c \in Colors, Overlay!setColor(c) PROVE OverlayIInv'
  BY <1>3, OverlayColorKeeps
<1>4. ASSUME NEW z \in OverlayLevels, Overlay!setZIndex(z) PROVE OverlayIInv'
  BY <1>4, OverlayLevelKeeps
<1>5. ASSUME NEW b \in BOOLEAN, Overlay!setPulsating(b) \/ Overlay!setNotes(b) \/ Overlay!setShouldPulse(b)
      PROVE  OverlayIInv'
  BY <1>5, OverlayPulsatingKeeps, OverlayNotesKeeps, OverlayClusterKeeps
<1>6. ASSUME NEW c \in Colors, NEW s \in BOOLEAN, NEW p \in BOOLEAN, Overlay!SetGlow(c, s, p)
      PROVE  OverlayIInv'
  BY <1>6, OverlayGlowKeeps
<1>7. ASSUME NEW c \in Colors, NEW s \in BOOLEAN, NEW z \in OverlayLevels, Overlay!SetLabel(c, s, z)
      PROVE  OverlayIInv'
  BY <1>7, OverlayLabelKeeps
<1>8. CASE UNCHANGED Overlay!vars
  BY <1>8 DEF Overlay!vars, OverlayIInv, OverlayTypeInv, OverlayFits, OverlayShows, OverlayRaised
<1> QED
  BY <1>1, <1>2, <1>3, <1>4, <1>5, <1>6, <1>7, <1>8 DEF Overlay!Next, OverlayLevels

LEMMA OverlayInvImplies == OverlayIInv => Overlay!DrawnAsAsked
<1> SUFFICES ASSUME OverlayIInv PROVE Overlay!DrawnAsAsked
  OBVIOUS
<1>1. ~onMap => div = Overlay!NoDiv
  BY DEF OverlayIInv
<1>2. div # Overlay!NoDiv => OverlayShows(class, div, fields)
  BY DEF OverlayIInv
<1> QED
  BY <1>1, <1>2 DEF Overlay!DrawnAsAsked, OverlayShows, OverlayRaised

-----------------------------------------------------------------------------
(* The crowd map. *)

CrowdBoxes == [of : Nat \cup {Nothing}, n : {0, 1}]
CrowdSeen == [length : {0, 1}, drawn : {0, 1}]
CrowdCauses == {"fetching", "loading", "zoom"}

CrowdTypeInv ==
  /\ filters \in Nat
  /\ owed \in BOOLEAN /\ loading \in BOOLEAN /\ fetching \in BOOLEAN
  /\ timers \in Nat
  /\ calls \in Seq(Nat)
  /\ rectangles \in CrowdBoxes /\ drawn \in CrowdBoxes
  /\ seen \in CrowdSeen \cup {Nothing}
  /\ markersLoading \in BOOLEAN

\* The rectangles of the filters are there or were missed, or the last call asks for them,
\* or something is under way that makes a call.
CrowdCovered ==
  \/ owed \/ loading \/ timers > 0
  \/ due \cap CrowdCauses # {}
  \/ fetching /\ calls # <<>>
  \/ calls # <<>> /\ calls[Len(calls)] = filters
  \/ calls = <<>> /\ (rectangles.of = filters \/ "failed" \in excused)
  \/ "overtaken" \in excused

CrowdFetchingIsUnderWay == fetching => calls # <<>> \/ "fetching" \in due

CrowdDrawnInTime == drawn = rectangles \/ loading \/ due \cap {"rectangles", "loading"} # {}

\* What says that markers load is taken back by a render to come: the length it has seen
\* is not that of the rectangles by then.
CrowdLoadingEnds ==
  markersLoading /\ "tags" \notin excused =>
    /\ seen # Nothing /\ seen.length > 0
    /\ \/ owed \/ loading \/ "loading" \in due
       \/ "rectangles" \in due /\ rectangles.n = 0

CrowdTagsAreOfSessions ==
  "tags" \in due => seen = Nothing \/ (owed /\ (rectangles.n > 0 \/ "tags" \in excused))

CrowdAtFirst ==
  seen = Nothing =>
    "tags" \in due /\ rectangles.n = 0 /\ "loading" \notin due /\ ~markersLoading

CrowdDataOfPoint ==
  point # Nothing /\ "clicks" \notin excused =>
    infoTimers \cup infoCalls \subseteq {point} /\ data \in {Nothing, point}

\* The inductive invariant.
CrowdIInv ==
  /\ CrowdTypeInv
  /\ CrowdCovered
  /\ CrowdFetchingIsUnderWay
  /\ CrowdDrawnInTime
  /\ CrowdLoadingEnds /\ CrowdTagsAreOfSessions /\ CrowdAtFirst
  /\ CrowdDataOfPoint

-----------------------------------------------------------------------------
(* A render. *)

LEMMA CrowdSawIsSeen ==
  ASSUME CrowdTypeInv
  PROVE  /\ Crowd!Saw \in CrowdSeen /\ Crowd!Saw.length = rectangles.n /\ Crowd!Saw.drawn = drawn.n
         /\ Crowd!clearCrowdMap \in CrowdBoxes /\ Crowd!clearCrowdMap.n = 0
BY DEF CrowdTypeInv, Crowd!Saw, CrowdSeen, CrowdBoxes, Crowd!clearCrowdMap

\* After a call the last one is for the filters.
LEMMA CrowdCallAppended ==
  ASSUME CrowdTypeInv
  PROVE  LET c == Append(calls, filters)
         IN  c \in Seq(Nat) /\ c # <<>> /\ c[Len(c)] = filters
<1> calls \in Seq(Nat) /\ filters \in Nat
  BY DEF CrowdTypeInv
<1> QED
  BY AppendProperties

LEMMA CrowdFetchingRender ==
  ASSUME CrowdIInv, Crowd!Render, Crowd!Fetches
  PROVE  CrowdTypeInv' /\ CrowdCovered' /\ CrowdFetchingIsUnderWay' /\ CrowdDrawnInTime'
<1>1. CrowdTypeInv
  BY DEF CrowdIInv
<1>2. /\ calls' = Append(calls, filters) /\ rectangles' = Crowd!clearCrowdMap /\ due' = {"rectangles"}
      /\ UNCHANGED <<filters, owed, loading, fetching, timers>>
  BY DEF Crowd!Render
<1>3. drawn' \in {drawn, Crowd!clearCrowdMap,
         rectangles} /\ seen' = Crowd!Saw /\ markersLoading' \in BOOLEAN
  BY DEF Crowd!Render, Crowd!SetLoading
<1>4. CrowdTypeInv'
  BY <1>1, <1>2, <1>3, CrowdSawIsSeen, CrowdCallAppended DEF CrowdTypeInv
<1> QED
  BY <1>1, <1>2, <1>4, CrowdCallAppended DEF CrowdCovered, CrowdFetchingIsUnderWay, CrowdDrawnInTime

LEMMA CrowdOtherRender ==
  ASSUME CrowdIInv, Crowd!Render, ~Crowd!Fetches
  PROVE  CrowdTypeInv' /\ CrowdCovered' /\ CrowdFetchingIsUnderWay' /\ CrowdDrawnInTime'
<1>1. CrowdTypeInv
  BY DEF CrowdIInv
<1>2. /\ due' = {}
      /\ UNCHANGED <<filters, owed, loading, fetching, timers, calls, rectangles, excused>>
  BY DEF Crowd!Render
<1>3. drawn' \in {drawn, Crowd!clearCrowdMap,
         rectangles} /\ seen' = Crowd!Saw /\ markersLoading' \in BOOLEAN
  BY DEF Crowd!Render, Crowd!SetLoading
<1>4. CrowdTypeInv'
  BY <1>1, <1>2, <1>3, CrowdSawIsSeen DEF CrowdTypeInv
<1>5. loading \/ due \cap CrowdCauses = {}
  BY <1>1 DEF Crowd!Fetches, CrowdCauses, CrowdTypeInv
<1>6. CrowdCovered'
  BY <1>2, <1>5 DEF CrowdIInv, CrowdCovered
<1>7. CrowdFetchingIsUnderWay'
  <2>1. fetching => "fetching" \notin due
    BY DEF Crowd!Fetches
  <2> QED
    BY <1>2, <2>1 DEF CrowdIInv, CrowdFetchingIsUnderWay
<1>8. CrowdDrawnInTime'
  BY <1>2 DEF CrowdIInv, CrowdDrawnInTime, Crowd!Render
<1> QED
  BY <1>4, <1>6, <1>7, <1>8

\* A render that does not end the loading of markers, or begins it.
LEMMA CrowdLoadingRender ==
  ASSUME Crowd!CrowdAssumption, CrowdIInv, Crowd!Render
  PROVE  CrowdLoadingEnds' /\ CrowdTagsAreOfSessions' /\ CrowdAtFirst'
<1>1. CrowdTypeInv /\ Crowd!Saw \in CrowdSeen /\ Crowd!Saw.length = rectangles.n
  BY CrowdSawIsSeen DEF CrowdIInv
<1>2. Crowd!Saw # Nothing
  BY <1>1 DEF Crowd!CrowdAssumption, CrowdSeen
<1>3. seen' = Crowd!Saw /\ "tags" \notin due' /\ UNCHANGED <<owed, loading>>
  BY DEF Crowd!Render
<1>4. ("tags" \in excused') = ("tags" \in excused)
  BY DEF Crowd!Render
<1>5. ASSUME markersLoading', "tags" \notin excused'
      PROVE  /\ rectangles.n > 0
             /\ \/ owed \/ loading \/ "loading" \in due'
                \/ "rectangles" \in due' /\ rectangles'.n = 0
  <2> DEFINE starts == seen = Nothing \/ rectangles.n # seen.length \/ "tags" \in due
  <2>1. (markersLoading \/ starts) /\ ~(Crowd!Saw # seen /\ drawn'.n >= rectangles.n)
    BY <1>5 DEF Crowd!Render, Crowd!SetLoading
  <2>2. rectangles.n \in {0, 1} /\ drawn.n \in {0, 1} /\ drawn' \in CrowdBoxes
    BY <1>1, CrowdSawIsSeen DEF CrowdTypeInv, CrowdBoxes, Crowd!Render
  <2>3. drawn'.n \in {0, 1}
    BY <2>2 DEF CrowdBoxes
  <2>4. CASE drawn'.n < rectangles.n
    <3>1. rectangles.n > 0
      BY <2>2, <2>3, <2>4
    <3>2. loading
      <4> SUFFICES ASSUME ~loading PROVE FALSE
        OBVIOUS
      <4>1. drawn' = rectangles
        BY DEF Crowd!Render, CrowdIInv, CrowdDrawnInTime
      <4> QED
        BY <2>2, <2>4, <4>1
    <3> QED
      BY <3>1, <3>2
  <2>5. CASE ~(drawn'.n < rectangles.n)
    <3>1. Crowd!Saw = seen
      BY <2>1, <2>2, <2>3, <2>5
    <3>2. seen # Nothing /\ seen.length = rectangles.n
      BY <1>1, <1>2, <3>1
    <3>3. markersLoading \/ "tags" \in due
      BY <2>1, <3>2
    <3>4. CASE markersLoading
      <4>1. /\ seen.length > 0
            /\ \/ owed \/ loading \/ "loading" \in due
               \/ "rectangles" \in due /\ rectangles.n = 0
        BY <1>4, <1>5, <3>4 DEF CrowdIInv, CrowdLoadingEnds
      <4>2. rectangles.n > 0
        BY <3>2, <4>1
      <4>3. ASSUME ~owed, ~loading PROVE "rectangles" \in due' /\ rectangles'.n = 0
        <5>1. "loading" \in due
          BY <2>2, <4>1, <4>2, <4>3
        <5>2. Crowd!Fetches
          BY <4>3, <5>1 DEF Crowd!Fetches
        <5> QED
          BY <1>1, <5>2, CrowdSawIsSeen DEF Crowd!Render
      <4> QED
        BY <4>2, <4>3
    <3>5. CASE "tags" \in due
      BY <1>4, <1>5, <3>2, <3>5 DEF CrowdIInv, CrowdTagsAreOfSessions
    <3> QED
      BY <3>3, <3>4, <3>5
  <2> QED
    BY <2>4, <2>5
<1> QED
  BY <1>1, <1>2, <1>3, <1>5 DEF CrowdLoadingEnds, CrowdTagsAreOfSessions, CrowdAtFirst

LEMMA CrowdRenderKeeps == Crowd!CrowdAssumption /\ CrowdIInv /\ Crowd!Render => CrowdIInv'
<1> SUFFICES ASSUME Crowd!CrowdAssumption, CrowdIInv, Crowd!Render PROVE CrowdIInv'
  OBVIOUS
<1>1. CrowdTypeInv' /\ CrowdCovered' /\ CrowdFetchingIsUnderWay' /\ CrowdDrawnInTime'
  BY CrowdFetchingRender, CrowdOtherRender
<1>2. CrowdDataOfPoint'
  BY DEF Crowd!Render, CrowdIInv, CrowdDataOfPoint
<1> QED
  BY <1>1, <1>2, CrowdLoadingRender DEF CrowdIInv

-----------------------------------------------------------------------------
(* Answers. *)

LEMMA CrowdRemoveAtElements ==
  ASSUME NEW s \in Seq(Nat), NEW i \in DOMAIN s
  PROVE  LET r == Crowd!RemoveAt(s, i)
         IN  /\ r \in Seq(Nat) /\ Len(r) = Len(s) - 1
             /\ \A j \in 1..Len(r) : r[j] = IF j < i THEN s[j] ELSE s[j + 1]
<1> DEFINE n == Len(s)
           a == SubSeq(s, 1, i - 1)
           b == SubSeq(s, i + 1, n)
<1>1. n \in Nat /\ i \in 1..n /\ \A j \in 1..n : s[j] \in Nat
  BY ElementOfSeq, LenProperties
<1>2. a \in Seq(Nat) /\ Len(a) = i - 1 /\ \A j \in 1..(i - 1) : a[j] = s[j]
  <2>1. \A j \in 1..(i - 1) : s[j] \in Nat
    BY <1>1
  <2>2. /\ a \in Seq(Nat) /\ Len(a) = IF 1 <= i - 1 THEN i - 1 - 1 + 1 ELSE 0
        /\ \A j \in 1..(i - 1 - 1 + 1) : a[j] = s[1 + j - 1]
    BY <1>1, <2>1, SubSeqProperties
  <2> QED
    BY <1>1, <2>2
<1>3. b \in Seq(Nat) /\ Len(b) = n - i /\ \A j \in 1..(n - i) : b[j] = s[i + j]
  <2> DEFINE m == i + 1
  <2>1. m \in Int /\ n \in Int /\ \A j \in m..n : s[j] \in Nat
    BY <1>1
  <2>2. /\ b \in Seq(Nat) /\ Len(b) = IF m <= n THEN n - m + 1 ELSE 0
        /\ \A j \in 1..(n - m + 1) : b[j] = s[m + j - 1]
    <3>1. b = SubSeq(s, m, n)
      OBVIOUS
    <3> HIDE DEF m, b, n
    <3> QED
      BY <2>1, <3>1, SubSeqProperties
  <2>3. ASSUME NEW j \in 1..(n - i) PROVE b[j] = s[i + j]
    <3>1. j \in 1..(n - (i + 1) + 1) /\ (i + 1) + j - 1 = i + j
      BY <1>1
    <3> QED
      BY <2>2, <3>1
  <2> QED
    BY <1>1, <2>2, <2>3
<1>4. /\ a \o b \in Seq(Nat) /\ Len(a \o b) = n - 1
      /\ \A j \in 1..(n - 1) : (a \o b)[j] = IF j <= i - 1 THEN a[j] ELSE b[j - (i - 1)]
  <2> HIDE DEF a, b, n
  <2>1. /\ a \o b \in Seq(Nat) /\ Len(a \o b) = Len(a) + Len(b)
        /\ \A j \in 1..(Len(a) + Len(b)) :
             (a \o b)[j] = IF j <= Len(a) THEN a[j] ELSE b[j - Len(a)]
    BY <1>2, <1>3, ConcatProperties
  <2>2. Len(a) + Len(b) = n - 1 /\ Len(a) = i - 1
    BY <1>1, <1>2, <1>3
  <2> QED
    BY <2>1, <2>2
<1>5. ASSUME NEW j \in 1..(n - 1) PROVE (a \o b)[j] = IF j < i THEN s[j] ELSE s[j + 1]
  <2>1. CASE j < i
    <3>1. j <= i - 1 /\ j \in 1..(i - 1)
      BY <1>1, <2>1
    <3> QED
      BY <1>2, <1>4, <2>1, <3>1
  <2>2. CASE ~(j < i)
    <3>1. ~(j <= i - 1) /\ j - (i - 1) \in 1..(n - i) /\ i + (j - (i - 1)) = j + 1
      BY <1>1, <2>2
    <3> QED
      BY <1>3, <1>4, <2>2, <3>1
  <2> QED
    BY <2>1, <2>2
<1> QED
  BY <1>4, <1>5 DEF Crowd!RemoveAt

LEMMA CrowdAnswerKeeps ==
  ASSUME CrowdIInv, due = {}, NEW i \in DOMAIN calls, NEW n \in {0, 1, Nothing},
         Crowd!fetchCrowdMapData(i, n)
  PROVE  CrowdIInv'
<1> DEFINE r == Crowd!RemoveAt(calls, i)
           answer == [of |-> calls[i], n |-> n]
<1>1. CrowdTypeInv
  BY DEF CrowdIInv
<1>2. /\ calls' = r /\ fetching' = FALSE
      /\ rectangles' = IF n = Nothing THEN rectangles ELSE answer
      /\ due' = (IF n = Nothing THEN {} ELSE {"rectangles"}) \cup (IF fetching THEN {"fetching"} ELSE {})
      /\ excused' = excused \cup (IF n = Nothing THEN {"failed"} ELSE {})
                      \cup (IF \E j \in 1..(i - 1) : calls[j] # calls[i] THEN {"overtaken"} ELSE {})
      /\ UNCHANGED <<filters, owed, loading, timers, drawn, seen, markersLoading, point, data,
                     infoTimers, infoCalls>>
  BY DEF Crowd!fetchCrowdMapData, Crowd!info
<1>3. /\ Len(calls) \in Nat /\ i \in 1..Len(calls) /\ calls[i] \in Nat
      /\ r \in Seq(Nat) /\ Len(r) = Len(calls) - 1
      /\ \A j \in 1..Len(r) : r[j] = IF j < i THEN calls[j] ELSE calls[j + 1]
  <2>1. calls \in Seq(Nat)
    BY <1>1 DEF CrowdTypeInv
  <2> QED
    BY <2>1, CrowdRemoveAtElements, LenProperties, ElementOfSeq
<1>4. CrowdTypeInv'
  <2>1. n # Nothing => answer \in CrowdBoxes
    BY <1>3 DEF CrowdBoxes
  <2> QED
    BY <1>1, <1>2, <1>3, <2>1 DEF CrowdTypeInv
<1>5. CrowdCovered'
  <2> SUFFICES ASSUME ~owed, ~loading, ~(timers > 0), ~fetching, "overtaken" \notin excused'
               PROVE  \/ r # <<>> /\ r[Len(r)] = filters
                      \/ r = <<>> /\ (rectangles'.of = filters \/ "failed" \in excused')
    BY <1>2 DEF CrowdCovered, CrowdCauses
  <2>1. \A j \in 1..(i - 1) : calls[j] = calls[i]
    BY <1>2
  <2>2. "overtaken" \notin excused
    BY <1>2
  <2>3. calls # <<>>
    BY <1>3
  <2>4. calls[Len(calls)] = filters
    BY <2>2, <2>3 DEF CrowdIInv, CrowdCovered
  <2>5. CASE Len(calls) = 1
    <3>1. r = <<>> /\ i = 1
      BY <1>3, <2>5, EmptySeq
    <3>2. calls[i] = filters
      BY <2>4, <2>5, <3>1
    <3> QED
      BY <1>2, <3>1, <3>2
  <2>6. CASE Len(calls) # 1
    <3>1. Len(r) >= 1 /\ Len(r) \in 1..Len(r)
      BY <1>3, <2>6
    <3>2. r # <<>>
      BY <3>1
    <3>3. CASE i = Len(calls)
      <4>1. Len(r) < i /\ Len(r) \in 1..(i - 1)
        BY <1>3, <3>1, <3>3
      <4>2. r[Len(r)] = calls[Len(r)] /\ calls[Len(r)] = calls[i]
        BY <1>3, <2>1, <3>1, <4>1
      <4> QED
        BY <2>4, <3>2, <3>3, <4>2
    <3>4. CASE i # Len(calls)
      <4>1. ~(Len(r) < i) /\ Len(r) + 1 = Len(calls)
        BY <1>3, <3>4
      <4>2. r[Len(r)] = calls[Len(r) + 1]
        BY <1>3, <3>1, <4>1
      <4> QED
        BY <2>4, <3>2, <4>1, <4>2
    <3> QED
      BY <3>3, <3>4
  <2> QED
    BY <2>5, <2>6
<1>6. CrowdFetchingIsUnderWay' /\ CrowdDrawnInTime'
  BY <1>2 DEF CrowdIInv, CrowdFetchingIsUnderWay, CrowdDrawnInTime
<1>7. CrowdLoadingEnds' /\ CrowdTagsAreOfSessions'
  BY <1>2 DEF CrowdIInv, CrowdLoadingEnds, CrowdTagsAreOfSessions
<1>8. CrowdAtFirst'
  BY <1>2 DEF CrowdIInv, CrowdAtFirst
<1>9. CrowdDataOfPoint'
  BY <1>2 DEF CrowdIInv, CrowdDataOfPoint
<1> QED
  BY <1>4, <1>5, <1>6, <1>7, <1>8, <1>9 DEF CrowdIInv
-----------------------------------------------------------------------------
(* Filters, sessions, the map, and clicks. *)

\* Nothing but the filters, and what they lead to, changes.
LEMMA CrowdFiltersKeep ==
  ASSUME CrowdIInv, due = {},
    (\E tags \in BOOLEAN : Crowd!setFilter(tags)) \/ Crowd!handleGridSize \/ Crowd!handleMapIdle
  PROVE  CrowdIInv'
<1>1. CrowdTypeInv /\ filters + 1 \in Nat /\ timers + 1 \in Nat
  BY DEF CrowdIInv, CrowdTypeInv
<1>2. ASSUME NEW tags \in BOOLEAN, Crowd!setFilter(tags) PROVE CrowdIInv'
  <2>1. /\ filters' = filters + 1 /\ owed' = TRUE
        /\ due' = {"filters"} \cup (IF tags THEN {"tags"} ELSE {})
        /\ excused' = IF tags /\ rectangles.n = 0 THEN excused \cup {"tags"} ELSE excused
        /\ UNCHANGED <<loading, fetching, timers, calls, rectangles, drawn, seen, markersLoading,
                       point, data, infoTimers, infoCalls>>
    BY <1>2 DEF Crowd!setFilter, Crowd!Refiltered, Crowd!info
  <2>2. CrowdTypeInv' /\ CrowdCovered' /\ CrowdFetchingIsUnderWay' /\ CrowdDrawnInTime'
    BY <1>1, <2>1 DEF CrowdIInv, CrowdTypeInv, CrowdCovered, CrowdFetchingIsUnderWay,
        CrowdDrawnInTime
  <2>3. "tags" \notin due
    OBVIOUS
  <2>4. CrowdLoadingEnds'
    BY <2>1 DEF CrowdIInv, CrowdLoadingEnds
  <2>5. CrowdTagsAreOfSessions'
    BY <1>1, <2>1 DEF CrowdTagsAreOfSessions, CrowdTypeInv, CrowdBoxes
  <2>6. CrowdAtFirst' /\ CrowdDataOfPoint'
    BY <2>1, <2>3 DEF CrowdIInv, CrowdAtFirst, CrowdDataOfPoint
  <2> QED
    BY <2>2, <2>4, <2>5, <2>6 DEF CrowdIInv
<1>3. CASE Crowd!handleGridSize
  <2>1. /\ filters' = filters + 1 /\ due' = {"filters"} /\ timers' = timers + 1
        /\ UNCHANGED <<owed, loading, fetching, calls, rectangles, drawn, seen, markersLoading,
                       point, data, infoTimers, infoCalls, excused>>
    BY <1>3 DEF Crowd!handleGridSize, Crowd!Refiltered, Crowd!info
  <2> QED
    BY <1>1, <2>1 DEF CrowdIInv, CrowdTypeInv, CrowdCovered, CrowdFetchingIsUnderWay,
        CrowdDrawnInTime, CrowdLoadingEnds,
      CrowdTagsAreOfSessions, CrowdAtFirst, CrowdDataOfPoint
<1>4. CASE Crowd!handleMapIdle
  <2>1. /\ filters' = filters + 1 /\ due' = {"zoom"}
        /\ UNCHANGED <<owed, loading, fetching, timers, calls, rectangles, drawn, seen,
                       markersLoading, point, data, infoTimers, infoCalls, excused>>
    BY <1>4 DEF Crowd!handleMapIdle, Crowd!info
  <2>2. due' \cap CrowdCauses # {}
    BY <2>1 DEF CrowdCauses
  <2> QED
    BY <1>1, <2>1, <2>2 DEF CrowdIInv, CrowdTypeInv, CrowdCovered, CrowdFetchingIsUnderWay,
        CrowdDrawnInTime, CrowdLoadingEnds,
      CrowdTagsAreOfSessions, CrowdAtFirst, CrowdDataOfPoint
<1> QED
  BY <1>2, <1>3, <1>4

\* A call is made when the timer is over, or its answer will lead to one.
LEMMA CrowdTimerKeeps ==
  ASSUME CrowdIInv, due = {}, Crowd!setFetchingCrowdMapData
  PROVE  CrowdIInv'
<1>1. /\ timers' = timers - 1 /\ fetching' = TRUE /\ timers > 0
      /\ due' = IF fetching THEN {} ELSE {"fetching"}
      /\ UNCHANGED <<filters, owed, loading, calls, rectangles, drawn, seen, markersLoading,
                     point, data, infoTimers, infoCalls, excused>>
  BY DEF Crowd!setFetchingCrowdMapData, Crowd!info
<1>2. CrowdTypeInv'
  BY <1>1 DEF CrowdIInv, CrowdTypeInv
<1>3. CrowdFetchingIsUnderWay'
  BY <1>1 DEF CrowdIInv, CrowdFetchingIsUnderWay
<1>4. CrowdCovered'
  BY <1>1, <1>3 DEF CrowdCovered, CrowdFetchingIsUnderWay, CrowdCauses
<1> QED
  BY <1>1, <1>2, <1>3, <1>4 DEF CrowdIInv, CrowdDrawnInTime, CrowdLoadingEnds,
      CrowdTagsAreOfSessions, CrowdAtFirst,
    CrowdDataOfPoint

LEMMA CrowdSessionsKeep ==
  ASSUME CrowdIInv, due = {}, Crowd!SessionsAsked \/ Crowd!SessionsLoaded
  PROVE  CrowdIInv'
<1>1. CrowdTypeInv /\ filters + 1 \in Nat
  BY DEF CrowdIInv, CrowdTypeInv
<1>2. CASE Crowd!SessionsAsked
  <2>1. /\ owed' = FALSE /\ loading' = TRUE /\ due' = {"loading"}
        /\ UNCHANGED <<filters, fetching, timers, calls, rectangles, drawn, seen, markersLoading,
                       point, data, infoTimers, infoCalls, excused>>
    BY <1>2 DEF Crowd!SessionsAsked, Crowd!info
  <2>2. CrowdTypeInv' /\ CrowdCovered' /\ CrowdFetchingIsUnderWay' /\ CrowdDrawnInTime'
    BY <1>1, <2>1 DEF CrowdIInv, CrowdTypeInv, CrowdCovered, CrowdFetchingIsUnderWay,
        CrowdDrawnInTime
  <2>3. CrowdLoadingEnds' /\ CrowdTagsAreOfSessions' /\ CrowdDataOfPoint'
    BY <2>1 DEF CrowdIInv, CrowdLoadingEnds, CrowdTagsAreOfSessions, CrowdDataOfPoint
  <2>4. CrowdAtFirst'
    BY <2>1 DEF CrowdIInv, CrowdAtFirst
  <2> QED
    BY <2>2, <2>3, <2>4 DEF CrowdIInv
<1>3. CASE Crowd!SessionsLoaded
  <2>1. /\ loading' = FALSE /\ filters' = filters + 1 /\ due' = {"filters", "loading"}
        /\ UNCHANGED <<owed, fetching, timers, calls, rectangles, drawn, seen, markersLoading,
                       point, data, infoTimers, infoCalls, excused>>
    BY <1>3 DEF Crowd!SessionsLoaded, Crowd!Refiltered, Crowd!info
  <2>2. due' \cap CrowdCauses # {}
    BY <2>1 DEF CrowdCauses
  <2>3. CrowdTypeInv' /\ CrowdCovered' /\ CrowdFetchingIsUnderWay' /\ CrowdDrawnInTime'
    BY <1>1, <2>1, <2>2 DEF CrowdIInv, CrowdTypeInv, CrowdCovered, CrowdFetchingIsUnderWay,
        CrowdDrawnInTime
  <2>4. CrowdLoadingEnds' /\ CrowdTagsAreOfSessions' /\ CrowdDataOfPoint'
    BY <2>1 DEF CrowdIInv, CrowdLoadingEnds, CrowdTagsAreOfSessions, CrowdDataOfPoint
  <2>5. CrowdAtFirst'
    BY <2>1 DEF CrowdIInv, CrowdAtFirst
  <2> QED
    BY <2>3, <2>4, <2>5 DEF CrowdIInv
<1> QED
  BY <1>2, <1>3

\* Clicks change what is shown of a rectangle, and nothing else.
LEMMA CrowdClickedKeep ==
  ASSUME CrowdIInv,
         UNCHANGED <<filters, owed, loading, fetching, timers, calls, rectangles, drawn, seen,
                     markersLoading, due>>,
         \A e \in {"failed", "overtaken", "tags"} : (e \in excused') = (e \in excused),
         CrowdDataOfPoint'
  PROVE  CrowdIInv'
<1>1. CrowdTypeInv' /\ CrowdFetchingIsUnderWay' /\ CrowdDrawnInTime' /\ CrowdAtFirst'
  BY DEF CrowdIInv, CrowdTypeInv, CrowdFetchingIsUnderWay, CrowdDrawnInTime, CrowdAtFirst
<1>2. CrowdCovered' /\ CrowdLoadingEnds' /\ CrowdTagsAreOfSessions'
  BY DEF CrowdIInv, CrowdCovered, CrowdLoadingEnds, CrowdTagsAreOfSessions
<1> QED
  BY <1>1, <1>2 DEF CrowdIInv

LEMMA CrowdClicksKeep ==
  ASSUME CrowdIInv, NEW r \in Cells, NEW found \in BOOLEAN,
         Crowd!handleRectangleClick(r) \/ Crowd!fetchRectangleData(r) \/ Crowd!RectangleAnswer(r, found)
  PROVE  CrowdIInv'
<1>1. CrowdDataOfPoint
  BY DEF CrowdIInv
<1>2. CASE Crowd!handleRectangleClick(r)
  <2>1. CrowdDataOfPoint'
    BY <1>2 DEF Crowd!handleRectangleClick, CrowdDataOfPoint
  <2> QED
    BY <1>2, <2>1, CrowdClickedKeep DEF Crowd!handleRectangleClick
<1>3. CASE Crowd!fetchRectangleData(r)
  <2>1. CrowdDataOfPoint'
    BY <1>1, <1>3 DEF Crowd!fetchRectangleData, CrowdDataOfPoint
  <2> QED
    BY <1>3, <2>1, CrowdClickedKeep DEF Crowd!fetchRectangleData
<1>4. CASE Crowd!RectangleAnswer(r, found)
  <2>1. CrowdDataOfPoint'
    BY <1>1, <1>4 DEF Crowd!RectangleAnswer, CrowdDataOfPoint
  <2> QED
    BY <1>4, <2>1, CrowdClickedKeep DEF Crowd!RectangleAnswer
<1> QED
  BY <1>2, <1>3, <1>4

-----------------------------------------------------------------------------
(* The theorems. *)

LEMMA CrowdInitHolds == Crowd!Init => CrowdIInv
<1> SUFFICES ASSUME Crowd!Init PROVE CrowdIInv
  OBVIOUS
<1>1. Crowd!clearCrowdMap \in CrowdBoxes /\ Crowd!clearCrowdMap.n = 0
  BY DEF Crowd!clearCrowdMap, CrowdBoxes
<1>2. <<>> \in Seq(Nat)
  OBVIOUS
<1> QED
  BY <1>1, <1>2 DEF Crowd!Init, CrowdIInv, CrowdTypeInv, CrowdCovered, CrowdCauses,
      CrowdFetchingIsUnderWay, CrowdDrawnInTime,
    CrowdLoadingEnds, CrowdTagsAreOfSessions, CrowdAtFirst, CrowdDataOfPoint

LEMMA CrowdPageKeeps == CrowdIInv /\ due = {} /\ Crowd!Page => CrowdIInv'
<1> SUFFICES ASSUME CrowdIInv, due = {}, Crowd!Page PROVE CrowdIInv'
  OBVIOUS
<1>1. CASE \E i \in DOMAIN calls, n \in {0, 1, Nothing} : Crowd!fetchCrowdMapData(i, n)
  BY <1>1, CrowdAnswerKeeps
<1>2. CASE (\E tags \in BOOLEAN : Crowd!setFilter(tags)) \/ Crowd!handleGridSize \/ Crowd!handleMapIdle
  BY <1>2, CrowdFiltersKeep
<1>3. CASE Crowd!setFetchingCrowdMapData
  BY <1>3, CrowdTimerKeeps
<1>4. CASE Crowd!SessionsAsked \/ Crowd!SessionsLoaded
  BY <1>4, CrowdSessionsKeep
<1>5. ASSUME NEW r \in Cells, Crowd!handleRectangleClick(r) \/ Crowd!fetchRectangleData(r)
      PROVE  CrowdIInv'
  BY <1>5, CrowdClicksKeep
<1>6. ASSUME NEW r \in Cells, NEW found \in BOOLEAN, Crowd!RectangleAnswer(r, found) PROVE CrowdIInv'
  BY <1>6, CrowdClicksKeep
<1>7. CASE Crowd!useMapEventListeners
  <2>1. CrowdDataOfPoint'
    BY <1>7 DEF Crowd!useMapEventListeners, CrowdDataOfPoint
  <2> QED
    BY <1>7, <2>1, CrowdClickedKeep DEF Crowd!useMapEventListeners
<1> QED
  BY <1>1, <1>2, <1>3, <1>4, <1>5, <1>6, <1>7 DEF Crowd!Page

LEMMA CrowdNextKeeps == Crowd!CrowdAssumption /\ CrowdIInv /\ [Crowd!Next]_(Crowd!vars) => CrowdIInv'
<1> SUFFICES ASSUME Crowd!CrowdAssumption, CrowdIInv, [Crowd!Next]_(Crowd!vars) PROVE CrowdIInv'
  OBVIOUS
<1>1. CASE UNCHANGED Crowd!vars
  <2>1. UNCHANGED <<filters, owed, loading, fetching, timers, calls, rectangles, drawn, seen,
                    markersLoading, due, point, data, infoTimers, infoCalls, excused>>
    BY <1>1 DEF Crowd!vars, Crowd!info
  <2> QED
    BY <2>1 DEF CrowdIInv, CrowdTypeInv, CrowdCovered, CrowdFetchingIsUnderWay, CrowdDrawnInTime,
        CrowdLoadingEnds,
      CrowdTagsAreOfSessions, CrowdAtFirst, CrowdDataOfPoint
<1> QED
  BY <1>1, CrowdRenderKeeps, CrowdPageKeeps DEF Crowd!Next

LEMMA CrowdInvImplies == CrowdIInv => Crowd!CrowdMapIsOfTheFilters
<1> SUFFICES ASSUME CrowdIInv PROVE Crowd!CrowdMapIsOfTheFilters
  OBVIOUS
<1>1. ASSUME Crowd!Rests, "overtaken" \notin excused
      PROVE  /\ rectangles.of = filters \/ "failed" \in excused
             /\ drawn = rectangles
             /\ "tags" \notin excused => ~markersLoading
  <2>1. due = {} /\ calls = <<>> /\ ~owed /\ ~loading /\ ~(timers > 0)
    BY <1>1 DEF Crowd!Rests
  <2>2. rectangles.of = filters \/ "failed" \in excused
    BY <1>1, <2>1 DEF CrowdIInv, CrowdCovered
  <2>3. drawn = rectangles /\ ("tags" \notin excused => ~markersLoading)
    BY <2>1 DEF CrowdIInv, CrowdDrawnInTime, CrowdLoadingEnds
  <2> QED
    BY <2>2, <2>3
<1>2. point # Nothing /\ data # Nothing /\ ~rectangleLoading /\ "clicks" \notin excused => data = point
  BY DEF CrowdIInv, CrowdDataOfPoint
<1> QED
  BY <1>1, <1>2 DEF Crowd!CrowdMapIsOfTheFilters

-----------------------------------------------------------------------------
(* The cookie settings. *)

CookiePages == [gtm : {"absent", "arriving", "running"}, denied : SUBSET Tracking,
                hasty : SUBSET Tracking, banner : BOOLEAN,
                settings : (SUBSET Cookies!Grantable) \cup {Nothing}]

CookieTypeInv ==
  /\ stored \in (SUBSET Cookies!Grantable) \cup {Nothing}
  /\ kept \subseteq Tracking \cup Cookies!Remembered
  /\ page \in [Tabs -> CookiePages]
  /\ by \in Tabs \cup {Nothing}
  /\ strayed \in BOOLEAN

\* A page whose tag manager is there, or on its way, either told its tags what is refused
\* or was too early to.
CookieTold(p) == p.gtm # "absent" => Tracking \ Cookies!loadPreferences \subseteq p.denied \cup p.hasty

CookieObeyed ==
  by # Nothing =>
    /\ stored # Nothing
    /\ "preferences" \notin stored => kept \cap Cookies!Remembered \subseteq {"camera", "recents"}
    /\ CookieTold(page[by])
    /\ ~strayed

\* The inductive invariant.
CookieIInv == CookieTypeInv /\ CookieObeyed

-----------------------------------------------------------------------------
(* Choices. *)

\* What a page becomes where a choice is made, and what it shows otherwise.
LEMMA CookiePageWithoutBanner ==
  ASSUME CookieTypeInv, NEW t \in Tabs, NEW s \in (SUBSET Cookies!Grantable) \cup {Nothing}
  PROVE  /\ Cookies!NoBanner(t) \in CookiePages /\ Cookies!Dismissed(t) \in CookiePages
         /\ [page[t] EXCEPT !.settings = s] \in CookiePages
         /\ [Cookies!NoBanner(t) EXCEPT !.settings = s] \in CookiePages
<1>1. page[t] \in CookiePages
  BY DEF CookieTypeInv
<1> QED
  BY <1>1 DEF Cookies!NoBanner, Cookies!Dismissed, CookiePages

LEMMA CookiePreferencesAreGrantable ==
  ASSUME CookieTypeInv
  PROVE  Cookies!loadPreferences \in SUBSET Cookies!Grantable
BY DEF CookieTypeInv, Cookies!loadPreferences

\* The page that made the choice is told of it.
LEMMA CookieAppliedIsTold ==
  ASSUME NEW p \in CookiePages, NEW choice \in SUBSET Cookies!Grantable
  PROVE  LET q == Cookies!applyPreferences(p, choice)
         IN  q \in CookiePages /\ (q.gtm # "absent" => Tracking \ choice \subseteq q.denied \cup q.hasty)
<1> DEFINE refused == Tracking \ choice
           q == Cookies!applyPreferences(p, choice)
<1>1. /\ q.denied = IF p.gtm = "running" THEN refused ELSE p.denied
      /\ q.hasty = IF p.gtm = "arriving" THEN refused
                   ELSE IF p.gtm = "running" THEN {} ELSE p.hasty
      /\ q.gtm = IF refused = {} /\ p.gtm = "absent" THEN "arriving" ELSE p.gtm
  BY DEF Cookies!applyPreferences, CookiePages
<1>2. q \in CookiePages
  <2>1. q = [p EXCEPT !.denied = q.denied, !.hasty = q.hasty, !.gtm = q.gtm]
    BY <1>1 DEF Cookies!applyPreferences, CookiePages
  <2>2. q.denied \in SUBSET Tracking /\ q.hasty \in SUBSET Tracking
        /\ q.gtm \in {"absent", "arriving", "running"}
    BY <1>1 DEF CookiePages
  <2> QED
    BY <2>1, <2>2 DEF CookiePages
<1>3. ASSUME q.gtm # "absent" PROVE refused \subseteq q.denied \cup q.hasty
  <2>1. CASE p.gtm = "running"
    BY <1>1, <2>1 DEF CookiePages
  <2>2. CASE p.gtm = "arriving"
    BY <1>1, <2>2 DEF CookiePages
  <2>3. CASE p.gtm = "absent"
    BY <1>1, <1>3, <2>3 DEF CookiePages
  <2> QED
    BY <2>1, <2>2, <2>3 DEF CookiePages
<1> QED
  BY <1>2, <1>3

LEMMA CookieChooseKeeps ==
  ASSUME Cookies!ConsentAssumption, CookieIInv, NEW t \in Tabs, NEW p \in CookiePages,
         NEW choice \in SUBSET Cookies!Grantable, Cookies!Choose(t, p, choice)
  PROVE  CookieIInv'
<1> DEFINE q == Cookies!applyPreferences(p, choice)
<1>1. stored' = choice /\ kept' = kept \ Cookies!Removed(choice) /\ page' = [page EXCEPT ![t] = q]
      /\ by' = t /\ strayed' = FALSE
  BY DEF Cookies!Choose
<1>2. q \in CookiePages /\ (q.gtm # "absent" => Tracking \ choice \subseteq q.denied \cup q.hasty)
  BY CookieAppliedIsTold
<1>3. CookieTypeInv'
  BY <1>1, <1>2 DEF CookieIInv, CookieTypeInv
<1>4. choice # Nothing
  BY DEF Cookies!ConsentAssumption
<1>5. CookieTold(page[by])'
  <2>1. page'[by'] = q
    BY <1>1 DEF CookieIInv, CookieTypeInv
  <2>2. Cookies!loadPreferences' = choice
    BY <1>1, <1>4 DEF Cookies!loadPreferences
  <2> QED
    BY <1>2, <2>1, <2>2 DEF CookieTold
<1>6. "preferences" \notin choice => kept' \cap Cookies!Remembered \subseteq {"camera", "recents"}
  BY <1>1 DEF Cookies!Removed, Cookies!Remembered
<1> QED
  BY <1>1, <1>3, <1>4, <1>5, <1>6 DEF CookieIInv, CookieObeyed

LEMMA CookieChoicesKeep ==
  ASSUME Cookies!ConsentAssumption, CookieIInv, NEW t \in Tabs,
         \/ Cookies!handleAllowAll(t) \/ Cookies!handleDenyAll(t)
         \/ \E key \in Cookies!Grantable : Cookies!handlePreferenceChange(t, key)
         \/ Cookies!handleAcceptAll(t) \/ Cookies!handleRejectAll(t)
  PROVE  CookieIInv'
<1>0. CookieTypeInv
  BY DEF CookieIInv
<1>1. CASE Cookies!handleAllowAll(t) \/ Cookies!handleAcceptAll(t)
  <2>1. PICK p \in CookiePages : Cookies!Choose(t, p, Cookies!Grantable)
    BY <1>0, <1>1, CookiePageWithoutBanner DEF Cookies!handleAllowAll, Cookies!handleAcceptAll
  <2> QED
    BY <2>1, CookieChooseKeeps
<1>2. CASE Cookies!handleDenyAll(t) \/ Cookies!handleRejectAll(t)
  <2>1. PICK p \in CookiePages : Cookies!Choose(t, p, {})
    BY <1>0, <1>2, CookiePageWithoutBanner DEF Cookies!handleDenyAll, Cookies!handleRejectAll
  <2> QED
    BY <2>1, CookieChooseKeeps
<1>3. ASSUME NEW key \in Cookies!Grantable, Cookies!handlePreferenceChange(t, key) PROVE CookieIInv'
  <2> DEFINE now == Cookies!Toggled(page[t].settings, key)
             choice == IF key \in now THEN Cookies!loadPreferences \cup {key} ELSE Cookies!loadPreferences \ {key}
  <2>1. Cookies!Settings(t) /\ Cookies!Choose(t, [page[t] EXCEPT !.settings = now], choice)
    BY <1>3 DEF Cookies!handlePreferenceChange
  <2>2. page[t].settings \in SUBSET Cookies!Grantable
    BY <1>0, <2>1 DEF Cookies!Settings, CookieTypeInv, CookiePages
  <2>3. now \in SUBSET Cookies!Grantable
    BY <2>2 DEF Cookies!Toggled
  <2>4. choice \in SUBSET Cookies!Grantable
    BY <1>0, CookiePreferencesAreGrantable
  <2>5. [page[t] EXCEPT !.settings = now] \in CookiePages
    BY <1>0, <2>3, CookiePageWithoutBanner
  <2> QED
    BY <2>1, <2>4, <2>5, CookieChooseKeeps
<1> QED
  BY <1>1, <1>2, <1>3

-----------------------------------------------------------------------------
(* Pages. *)

\* A page that is told as much as before, in the tab that made the choice.
LEMMA CookiePageKeeps ==
  ASSUME CookieIInv, NEW t \in Tabs, NEW p \in CookiePages,
         page' = [page EXCEPT ![t] = p],
         t = by => (CookieTold(page[t]) => CookieTold(p)),
         UNCHANGED <<stored, kept, by, strayed>>
  PROVE  CookieIInv'
<1>1. CookieTypeInv'
  BY DEF CookieIInv, CookieTypeInv
<1>2. by # Nothing => CookieTold(page[by])'
  <2> SUFFICES ASSUME by # Nothing PROVE CookieTold(page[by])'
    OBVIOUS
  <2>1. by \in Tabs /\ page \in [Tabs -> CookiePages] /\ CookieTold(page[by])
    BY DEF CookieIInv, CookieTypeInv, CookieObeyed
  <2>2. page'[by'] = IF by = t THEN p ELSE page[by]
    BY <2>1
  <2>3. Cookies!loadPreferences' = Cookies!loadPreferences
    BY DEF Cookies!loadPreferences
  <2>4. CookieTold(page'[by'])
    BY <2>1, <2>2
  <2> QED
    BY <2>3, <2>4 DEF CookieTold
<1> QED
  BY <1>1, <1>2 DEF CookieIInv, CookieObeyed

LEMMA CookieSettingsKeep ==
  ASSUME CookieIInv, NEW t \in Tabs,
    Cookies!handleSettingsClick(t) \/ Cookies!onClose(t) \/ Cookies!loadGoogleTagManager(t)
  PROVE  CookieIInv'
<1>1. page[t] \in CookiePages
  BY DEF CookieIInv, CookieTypeInv
<1>2. CASE Cookies!handleSettingsClick(t)
  <2> DEFINE p == [Cookies!NoBanner(t) EXCEPT !.settings = Cookies!loadPreferences]
  <2>1. p \in CookiePages
    BY CookiePreferencesAreGrantable, CookiePageWithoutBanner DEF CookieIInv
  <2>2. CookieTold(page[t]) => CookieTold(p)
    BY <1>1 DEF CookieTold, Cookies!NoBanner, CookiePages
  <2> QED
    BY <1>2, <2>1, <2>2, CookiePageKeeps DEF Cookies!handleSettingsClick
<1>3. CASE Cookies!onClose(t)
  <2>1. Cookies!Dismissed(t) \in CookiePages
    BY CookiePageWithoutBanner DEF CookieIInv
  <2>2. CookieTold(page[t]) => CookieTold(Cookies!Dismissed(t))
    BY <1>1 DEF CookieTold, Cookies!Dismissed, CookiePages
  <2> QED
    BY <1>3, <2>1, <2>2, CookiePageKeeps DEF Cookies!onClose
<1>4. CASE Cookies!loadGoogleTagManager(t)
  <2> DEFINE p == [page[t] EXCEPT !.gtm = "running"]
  <2>1. p \in CookiePages
    BY <1>1 DEF CookiePages
  <2>2. CookieTold(page[t]) => CookieTold(p)
    BY <1>1, <1>4 DEF CookieTold, CookiePages, Cookies!loadGoogleTagManager
  <2>3. page' = [page EXCEPT ![t] = p]
    BY <1>4 DEF Cookies!loadGoogleTagManager
  <2> QED
    BY <1>4, <2>1, <2>2, <2>3, CookiePageKeeps DEF Cookies!loadGoogleTagManager
<1> QED
  BY <1>2, <1>3, <1>4

\* What is saved is the choice that was applied, or no longer one that was.
LEMMA CookieSaveKeeps ==
  ASSUME Cookies!ConsentAssumption, CookieIInv, NEW t \in Tabs, Cookies!handleSave(t)
  PROVE  CookieIInv'
<1>1. page[t] \in CookiePages /\ page[t].settings \in SUBSET Cookies!Grantable /\ Cookies!Dismissed(t) \in CookiePages
  BY CookiePageWithoutBanner DEF CookieIInv, CookieTypeInv, CookiePages, Cookies!handleSave,
      Cookies!Settings
<1>2. CASE by # Nothing /\ page[t].settings = Cookies!loadPreferences
  <2>1. UNCHANGED <<stored, kept, by, strayed>>
    BY <1>2 DEF Cookies!handleSave, Cookies!loadPreferences, CookieIInv, CookieObeyed
  <2>2. CookieTold(page[t]) => CookieTold(Cookies!Dismissed(t))
    BY <1>1 DEF CookieTold, Cookies!Dismissed, CookiePages
  <2> QED
    BY <1>1, <2>1, <2>2, CookiePageKeeps DEF Cookies!handleSave
<1>3. CASE by = Nothing \/ page[t].settings # Cookies!loadPreferences
  <2>1. by' = Nothing
    BY <1>3 DEF Cookies!handleSave
  <2>2. CookieTypeInv'
    BY <1>1, <2>1 DEF Cookies!handleSave, CookieIInv, CookieTypeInv
  <2> QED
    BY <2>1, <2>2 DEF CookieIInv, CookieObeyed
<1> QED
  BY <1>2, <1>3

LEMMA CookieLoadKeeps ==
  ASSUME Cookies!ConsentAssumption, CookieIInv, NEW t \in Tabs, Cookies!Load(t)
  PROVE  CookieIInv'
<1>1. Cookies!NewPage(stored) \in CookiePages
  <2>1. (stored = Nothing) \in BOOLEAN
    OBVIOUS
  <2> QED
    BY <2>1 DEF Cookies!NewPage, CookiePages
<1>2. CASE by = t
  <2>1. by' = Nothing
    BY <1>2 DEF Cookies!Load
  <2>2. CookieTypeInv'
    BY <1>1, <2>1 DEF Cookies!Load, CookieIInv, CookieTypeInv
  <2> QED
    BY <2>1, <2>2 DEF CookieIInv, CookieObeyed
<1>3. CASE by # t
  BY <1>1, <1>3, CookiePageKeeps DEF Cookies!Load
<1> QED
  BY <1>2, <1>3

-----------------------------------------------------------------------------
(* What is kept. *)

LEMMA CookieKeepKeeps ==
  ASSUME CookieIInv,
    Cookies!saveScrollPosition \/ Cookies!forgetScrollPosition \/ Cookies!setLastSelectedTimeRange
                     \/ Cookies!saveMapBounds \/ Cookies!handleMapIdle
  PROVE  CookieIInv'
<1>1. UNCHANGED <<stored, page, by, strayed>>
  BY DEF Cookies!saveScrollPosition, Cookies!forgetScrollPosition,
      Cookies!setLastSelectedTimeRange, Cookies!saveMapBounds,
         Cookies!handleMapIdle, Cookies!Keep
<1>2. kept' \subseteq Tracking \cup Cookies!Remembered
  BY DEF CookieIInv, CookieTypeInv, Cookies!Remembered, Cookies!saveScrollPosition,
      Cookies!forgetScrollPosition,
         Cookies!setLastSelectedTimeRange, Cookies!saveMapBounds, Cookies!handleMapIdle,
      Cookies!Keep
<1>3. kept' # kept => "preferences" \in Cookies!loadPreferences
  BY DEF Cookies!saveScrollPosition, Cookies!forgetScrollPosition,
      Cookies!setLastSelectedTimeRange, Cookies!saveMapBounds,
         Cookies!handleMapIdle, Cookies!Keep, Cookies!arePreferenceCookiesAllowed
<1>4. CookieTypeInv'
  BY <1>1, <1>2 DEF CookieIInv, CookieTypeInv
<1>5. CookieTold(page[by])' = CookieTold(page[by])
  BY <1>1 DEF CookieTold, Cookies!loadPreferences
<1> QED
  BY <1>1, <1>3, <1>4, <1>5 DEF CookieIInv, CookieObeyed, Cookies!loadPreferences

LEMMA CookieRecentsKeep ==
  ASSUME CookieIInv, Cookies!addRecent \/ Cookies!clearRecents
  PROVE  CookieIInv'
<1>1. /\ UNCHANGED <<stored, page, by, strayed>>
      /\ kept' \in {kept \cup {"recents"}, kept \ {"recents"}}
  BY DEF Cookies!addRecent, Cookies!clearRecents, Cookies!WriteRecents
<1>2. CookieTypeInv'
  BY <1>1 DEF CookieIInv, CookieTypeInv, Cookies!Remembered
<1>3. CookieTold(page[by])' = CookieTold(page[by])
  BY <1>1 DEF CookieTold, Cookies!loadPreferences
<1>4. kept' \cap Cookies!Remembered \subseteq (kept \cap Cookies!Remembered) \cup {"recents"}
  BY <1>1
<1> QED
  BY <1>1, <1>2, <1>3, <1>4 DEF CookieIInv, CookieObeyed

LEMMA CookieTrackKeeps ==
  ASSUME Cookies!ConsentAssumption, CookieIInv, NEW t \in Tabs, NEW kind \in Tracking,
    Cookies!Track(t, kind)
  PROVE  CookieIInv'
<1>1. UNCHANGED <<stored, page, by>> /\ kept' = kept \cup {kind}
  BY DEF Cookies!Track
<1>2. CookieTypeInv'
  BY <1>1 DEF CookieIInv, CookieTypeInv, Cookies!Track
<1>3. ASSUME by # Nothing PROVE ~strayed'
  <2>1. ~strayed /\ CookieTold(page[by])
    BY <1>3 DEF CookieIInv, CookieObeyed
  <2>2. ASSUME t = by PROVE kind \in Cookies!loadPreferences \cup page[t].hasty
    BY <2>1, <2>2 DEF CookieTold, Cookies!Track
  <2> QED
    BY <2>1, <2>2 DEF Cookies!Track
<1>4. CookieTold(page[by])' = CookieTold(page[by])
  BY <1>1 DEF CookieTold, Cookies!loadPreferences
<1>5. kept' \cap Cookies!Remembered = kept \cap Cookies!Remembered
  BY <1>1 DEF Cookies!ConsentAssumption
<1> QED
  BY <1>1, <1>2, <1>3, <1>4, <1>5 DEF CookieIInv, CookieObeyed

-----------------------------------------------------------------------------
(* The theorems. *)

LEMMA CookieInitHolds == Cookies!Init => CookieIInv
<1> SUFFICES ASSUME Cookies!Init PROVE CookieIInv
  OBVIOUS
<1>1. Cookies!NewPage(Nothing) \in CookiePages
  BY DEF Cookies!NewPage, CookiePages
<1> QED
  BY <1>1 DEF Cookies!Init, CookieIInv, CookieTypeInv, CookieObeyed

LEMMA CookieNextKeeps == Cookies!ConsentAssumption /\ CookieIInv /\ [Cookies!Next]_(Cookies!vars) => CookieIInv'
<1> SUFFICES ASSUME Cookies!ConsentAssumption, CookieIInv, [Cookies!Next]_(Cookies!vars)
             PROVE  CookieIInv'
  OBVIOUS
<1>1. CASE Cookies!Next
  BY <1>1, CookieChoicesKeep, CookieSettingsKeep, CookieSaveKeeps, CookieLoadKeeps,
      CookieTrackKeeps, CookieKeepKeeps, CookieRecentsKeep DEF Cookies!Next
<1>2. CASE UNCHANGED Cookies!vars
  BY <1>2 DEF Cookies!vars, CookieIInv, CookieTypeInv, CookieObeyed, CookieTold,
      Cookies!loadPreferences
<1> QED
  BY <1>1, <1>2

LEMMA CookieInvImplies == CookieIInv => Cookies!RefusalIsObeyed
BY DEF CookieIInv, CookieObeyed, Cookies!RefusalIsObeyed, Cookies!arePreferenceCookiesAllowed,
    Cookies!loadPreferences

-----------------------------------------------------------------------------
(* Exports and links. *)

PopupLists == [size : Nat, of : PopupSensors]
PopupRequests == [size : Nat, of : PopupSensors, limit : Nat, endpoint : {"station_streams",
  "sessions"},
                  current : BOOLEAN]
PopupCopies == [link : Nat, asked : SUBSET Nat, failed : BOOLEAN, from : Nat]
PopupCopied == [link : Nat, from : Nat, at : Nat]

PopupTypeInv ==
  /\ fixed \in BOOLEAN /\ sensor \in PopupSensors
  /\ list \in PopupLists
  /\ sent \in PopupRequests \cup {Nothing}
  /\ address \in Nat
  /\ copy \in PopupCopies \cup {Nothing}
  /\ copied \in PopupCopied \cup {Nothing}

\* The request r is one the panel may send.
PopupFits(r) ==
  /\ r.size \in 1..r.limit
  /\ r.current => (r.endpoint = "station_streams") = (r.of = "Government")

\* What the popup holds, or asked to have shortened, was the address while it was open.
PopupRecent(c) == c.link \in c.from..address /\ c.asked \subseteq c.from..address

\* The inductive invariant.
PopupIInv ==
  /\ PopupTypeInv
  /\ sent # Nothing => PopupFits(sent)
  /\ copy # Nothing => PopupRecent(copy)
  /\ copied # Nothing => copied.link \in copied.from..copied.at

-----------------------------------------------------------------------------
(* The panel. *)

LEMMA PopupExportFits ==
  ASSUME PopupTypeInv, NEW l \in PopupLists, NEW name \in PopupSensors, NEW limit \in Nat,
         l.size \in 1..limit, Popup!exportSession(l, name, limit)
  PROVE  sent' \in PopupRequests /\ PopupFits(sent')
<1> DEFINE r == [size |-> l.size, of |-> l.of, limit |-> limit,
                 endpoint |-> IF name = "Government" THEN "station_streams" ELSE "sessions",
                 current |-> l.of = name]
<1>1. sent' = r
  BY DEF Popup!exportSession
<1>2. (l.of = name) \in BOOLEAN
  OBVIOUS
<1>3. r \in PopupRequests
  BY <1>2 DEF PopupLists, PopupRequests
<1>4. PopupFits(r)
  <2>1. r.size \in 1..r.limit
    OBVIOUS
  <2>2. ASSUME r.current PROVE (r.endpoint = "station_streams") = (r.of = "Government")
    BY <2>2
  <2> QED
    BY <2>1, <2>2 DEF PopupFits
<1> QED
  BY <1>1, <1>3, <1>4

\* The panel without an export.
LEMMA PopupPanelKeeps ==
  ASSUME PopupIInv, fixed' \in BOOLEAN, sensor' \in PopupSensors, list' \in PopupLists,
         UNCHANGED <<sent, address, copy, copied>>
  PROVE  PopupIInv'
BY DEF PopupIInv, PopupTypeInv, PopupFits, PopupRecent

LEMMA PopupListKeeps ==
  ASSUME Popup!PopupsAssumption, PopupIInv,
         \/ Popup!handleExportClick \/ Popup!useAutoDismissAlert
         \/ \E isFixed \in BOOLEAN, name \in PopupSensors : Popup!ChooseSensor(isFixed, name)
         \/ \E n \in 0..Most : Popup!SessionsArrive(n)
         \/ Popup!MoreSessionsArrive
         \/ Popup!OpenOrClose \/ Popup!exportSessionDone
         \/ \E email \in {"other", "valid"} : Popup!handleInputChange(email)
  PROVE  PopupIInv'
<1>1. PopupTypeInv
  BY DEF PopupIInv
<1>2. CASE Popup!handleExportClick \/ Popup!useAutoDismissAlert
  BY <1>1, <1>2, PopupPanelKeeps DEF Popup!handleExportClick, Popup!useAutoDismissAlert,
      Popup!link, PopupTypeInv
<1>3. ASSUME NEW isFixed \in BOOLEAN, NEW name \in PopupSensors, Popup!ChooseSensor(isFixed, name)
      PROVE  PopupIInv'
  BY <1>1, <1>3, PopupPanelKeeps DEF Popup!ChooseSensor, Popup!Shows, Popup!link, PopupTypeInv
<1>4. ASSUME NEW n \in 0..Most, Popup!SessionsArrive(n) PROVE PopupIInv'
  <2>1. [size |-> n, of |-> sensor] \in PopupLists
    BY <1>1 DEF PopupTypeInv, PopupLists, Popup!PopupsAssumption
  <2> QED
    BY <1>1, <1>4, <2>1, PopupPanelKeeps DEF Popup!SessionsArrive, Popup!Shows, Popup!link,
        PopupTypeInv
<1>5. CASE Popup!MoreSessionsArrive
  <2>1. [list EXCEPT !.size = @ + 1] \in PopupLists
    BY <1>1 DEF PopupTypeInv, PopupLists
  <2> QED
    BY <1>1, <1>5, <2>1, PopupPanelKeeps DEF Popup!MoreSessionsArrive, Popup!Shows, Popup!link,
        PopupTypeInv
<1>6. CASE Popup!OpenOrClose \/ \E email \in {"other", "valid"} : Popup!handleInputChange(email)
  BY <1>1, <1>6, PopupPanelKeeps DEF Popup!OpenOrClose, Popup!handleInputChange, Popup!Form,
      Popup!link, PopupTypeInv
<1>7. CASE Popup!exportSessionDone
  BY <1>1, <1>7, PopupPanelKeeps DEF Popup!exportSessionDone, Popup!link, PopupTypeInv
<1> QED
  BY <1>2, <1>3, <1>4, <1>5, <1>6, <1>7

LEMMA PopupExportKeeps ==
  ASSUME PopupIInv, Popup!handleSubmit \/ \E name \in PopupSensors : Popup!ExportOne(name)
  PROVE  PopupIInv'
<1>1. PopupTypeInv
  BY DEF PopupIInv
<1>2. ASSUME UNCHANGED <<fixed, sensor, list, Popup!link>>,
             sent' \in PopupRequests /\ PopupFits(sent')
      PROVE  PopupIInv'
  BY <1>2 DEF PopupIInv, PopupTypeInv, PopupRecent, Popup!link
<1>3. CASE Popup!handleSubmit
  <2>1. CASE form.email # "valid"
    BY <1>1, <1>3, <2>1, PopupPanelKeeps DEF Popup!handleSubmit, Popup!Form, Popup!link,
        PopupTypeInv
  <2>2. CASE form.email = "valid"
    <3> DEFINE limit == Popup!getSessionListExportLimit(fixed, sensor)
    <3>1. limit \in Nat
      BY DEF Popup!getSessionListExportLimit, Popup!LimitStandard, Popup!LimitFixedAir
    <3>2. list.size \in 1..limit /\ Popup!exportSession(list, sensor, limit)
      BY <1>3, <2>2 DEF Popup!handleSubmit, Popup!HasForm, Popup!ExportButtonComponent
    <3>3. sent' \in PopupRequests /\ PopupFits(sent')
      BY <1>1, <3>1, <3>2, PopupExportFits DEF PopupTypeInv
    <3> QED
      BY <1>2, <1>3, <2>2, <3>3 DEF Popup!handleSubmit, Popup!Form
  <2> QED
    BY <2>1, <2>2
<1>4. ASSUME NEW name \in PopupSensors, Popup!ExportOne(name) PROVE PopupIInv'
  <2>1. [size |-> 1, of |-> name] \in PopupLists
    BY DEF PopupLists
  <2>2. Popup!exportSession([size |-> 1, of |-> name], name, 1)
    BY <1>4 DEF Popup!ExportOne
  <2>3. sent' \in PopupRequests /\ PopupFits(sent')
    BY <1>1, <2>1, <2>2, PopupExportFits
  <2> QED
    BY <1>2, <1>4, <2>3 DEF Popup!ExportOne
<1> QED
  BY <1>3, <1>4

-----------------------------------------------------------------------------
(* Links. *)

LEMMA PopupLinkKeeps ==
  ASSUME PopupIInv, Popup!Link
  PROVE  PopupIInv'
<1>1. PopupTypeInv /\ UNCHANGED <<fixed, sensor, list, sent>>
  BY DEF PopupIInv, Popup!Link, Popup!CopyLinkModal, Popup!Navigate, Popup!handleCopySubmit,
      Popup!CloseLink, Popup!ShortLinkArrives,
         Popup!handleCopyError, Popup!panel
<1>2. ASSUME UNCHANGED copied, address' \in Nat,
             copy' \in PopupCopies \cup {Nothing}, copy' # Nothing => PopupRecent(copy)'
      PROVE  PopupIInv'
  BY <1>1, <1>2 DEF PopupIInv, PopupTypeInv, PopupFits
<1>3. CASE Popup!CopyLinkModal
  <2> DEFINE c == [link |-> address, asked |-> {address}, failed |-> FALSE, from |-> address]
  <2>1. copy' = c
    BY <1>3 DEF Popup!CopyLinkModal, Popup!useShortenedLink
  <2>2. c \in PopupCopies
    BY <1>1 DEF PopupTypeInv, PopupCopies
  <2>3. PopupRecent(copy)'
    <3>1. address' = address /\ address \in address..address
      BY <1>1, <1>3 DEF Popup!CopyLinkModal, PopupTypeInv
    <3>2. copy'.link = address /\ copy'.from = address /\ copy'.asked = {address}
      BY <2>1
    <3> QED
      BY <3>1, <3>2 DEF PopupRecent
  <2> QED
    BY <1>1, <1>2, <1>3, <2>1, <2>2, <2>3 DEF Popup!CopyLinkModal, PopupTypeInv
<1>4. CASE Popup!Navigate
  <2>1. address' = address + 1 /\ UNCHANGED copied
    BY <1>4 DEF Popup!Navigate
  <2>2. CASE copy = Nothing
    BY <1>1, <1>2, <1>4, <2>1, <2>2 DEF Popup!Navigate, PopupTypeInv
  <2>3. CASE copy # Nothing
    <3>1. copy \in PopupCopies /\ PopupRecent(copy)
      BY <2>3 DEF PopupIInv, PopupTypeInv
    <3>2. copy' = [copy EXCEPT !.asked = copy.asked \cup {address + 1}]
      BY <1>4, <2>3, <3>1 DEF Popup!Navigate, Popup!useShortenedLink, PopupCopies
    <3>3. copy' \in PopupCopies
      BY <1>1, <3>1, <3>2 DEF PopupCopies, PopupTypeInv
    <3>4. PopupRecent(copy)'
      BY <1>1, <2>1, <3>1, <3>2 DEF PopupRecent, PopupCopies, PopupTypeInv
    <3> QED
      BY <1>1, <1>2, <2>1, <3>3, <3>4 DEF PopupTypeInv
  <2> QED
    BY <2>2, <2>3
<1>5. ASSUME NEW a \in 0..MaxChanges, Popup!ShortLinkArrives(a) \/ Popup!handleCopyError(a)
      PROVE  PopupIInv'
  <2>1. copy \in PopupCopies /\ PopupRecent(copy) /\ a \in copy.asked /\ UNCHANGED <<address, copied>>
    BY <1>5 DEF PopupIInv, PopupTypeInv, Popup!ShortLinkArrives, Popup!handleCopyError
  <2>2. a \in Nat /\ a \in copy.from..address
    BY <2>1 DEF PopupCopies, PopupRecent
  <2>3. PICK b \in BOOLEAN, x \in {copy.link, a} :
          copy' = [copy EXCEPT !.asked = copy.asked \ {a}, !.link = x, !.failed = b]
    <3>1. CASE Popup!ShortLinkArrives(a)
      BY <2>1, <3>1 DEF Popup!ShortLinkArrives, PopupCopies
    <3>2. CASE Popup!handleCopyError(a)
      BY <2>1, <3>2 DEF Popup!handleCopyError, PopupCopies
    <3> QED
      BY <1>5, <3>1, <3>2
  <2>4. copy' \in PopupCopies
    BY <2>1, <2>2, <2>3 DEF PopupCopies
  <2>5. PopupRecent(copy)'
    BY <2>1, <2>2, <2>3 DEF PopupRecent, PopupCopies
  <2> QED
    BY <1>1, <1>2, <2>1, <2>4, <2>5 DEF PopupTypeInv
<1>6. CASE Popup!handleCopySubmit
  <2>1. copy \in PopupCopies /\ PopupRecent(copy)
    BY <1>6 DEF PopupIInv, PopupTypeInv, Popup!handleCopySubmit
  <2>2. copied' \in PopupCopied /\ copied'.link \in copied'.from..copied'.at
    BY <1>1, <1>6, <2>1 DEF Popup!handleCopySubmit, PopupCopied, PopupCopies, PopupRecent,
        PopupTypeInv
  <2> QED
    BY <1>1, <1>6, <2>2 DEF Popup!handleCopySubmit, PopupIInv, PopupTypeInv, PopupFits
<1>7. CASE Popup!CloseLink
  BY <1>1, <1>2, <1>7 DEF Popup!CloseLink, PopupTypeInv
<1> QED
  BY <1>3, <1>4, <1>5, <1>6, <1>7 DEF Popup!Link

-----------------------------------------------------------------------------
(* The theorems. *)

LEMMA PopupInitHolds == Popup!Init => PopupIInv
BY DEF Popup!Init, PopupIInv, PopupTypeInv, PopupLists

LEMMA PopupNextKeeps == Popup!PopupsAssumption /\ PopupIInv /\ [Popup!Next]_(Popup!vars) => PopupIInv'
<1> SUFFICES ASSUME Popup!PopupsAssumption, PopupIInv, [Popup!Next]_(Popup!vars) PROVE PopupIInv'
  OBVIOUS
<1>1. CASE Popup!Panel
  BY <1>1, PopupListKeeps, PopupExportKeeps DEF Popup!Panel
<1>2. CASE Popup!Link
  BY <1>2, PopupLinkKeeps
<1>3. CASE UNCHANGED Popup!vars
  BY <1>3, PopupPanelKeeps DEF Popup!vars, Popup!panel, Popup!link, PopupIInv, PopupTypeInv
<1> QED
  BY <1>1, <1>2, <1>3 DEF Popup!Next

LEMMA PopupInvImplies == PopupIInv => Popup!PopupsSendWhatTheyShow
BY DEF PopupIInv, PopupFits, Popup!PopupsSendWhatTheyShow

-----------------------------------------------------------------------------
(* The views of the map page. *)

ViewsUrls == [kind : {"fixed", "mobile"}, cur : Views!UserSettings, prev : Views!UserSettings,
              ids : BOOLEAN, place : Centres, prevPlace : Centres]

ViewsTypeInv ==
  /\ isMobile \in BOOLEAN /\ onMap \in BOOLEAN /\ mapInstance \in BOOLEAN /\ moving \in BOOLEAN
  /\ timer \in BOOLEAN /\ lost \in BOOLEAN
  /\ url \in ViewsUrls /\ place \in Centres /\ left \in Centres
  /\ due \in SUBSET {"cur", "prev", "map"}

\* Off the map there is nothing of it, and on it it is there or about to be.
ViewsMounted ==
  /\ ~onMap => url.cur = Views!CalendarView /\ ~mapInstance /\ ~moving /\ due = {} /\ ~timer
  /\ onMap => moving \/ mapInstance
  /\ timer => url.prev = Views!CalendarView /\ mapInstance
  /\ onMap /\ url.cur # Views!ModalView /\ url.ids => "cur" \in due

\* The ways of a wide screen.
ViewsWide ==
  ~isMobile =>
    /\ ~lost
    /\ \/ /\ onMap /\ url.cur \in {Views!MapView, Views!CrowdMapView}
          /\ url.prev \notin {Views!CalendarView, Views!SessionListView}
       \/ onMap /\ url.cur = Views!TimelapseView /\ url.prev \in Views!MapShown
       \/ /\ onMap /\ url.cur = Views!ModalView /\ url.ids
          /\ url.prev \in Views!MapShown \cup {Views!CalendarView}
       \/ ~onMap /\ url.prev = Views!ModalView /\ url.ids

\* Those of a phone, as long as it does not sidestep.
ViewsNarrow ==
  isMobile /\ ~lost =>
    /\ url.cur = Views!ModalView =>
         /\ url.prev \in {Views!MapView, Views!SessionListView}
         /\ url.ids
         /\ due = {} => url.kind = "mobile"
    /\ url.cur = Views!CalendarView => url.prev \in {Views!MapView, Views!SessionListView} /\ ~onMap
    /\ url.cur = Views!SessionListView => url.prev \in Views!AboutSessions \cup {Views!MapView}
    /\ url.cur \in {Views!MapLegendView, Views!TimelapseView, Views!FiltersView} =>
         url.prev \notin Views!AboutSessions

\* The map is elsewhere, for a session or because it is yet to go back.
ViewsAway ==
  \/ url.cur \in {Views!ModalView, Views!CalendarView}
  \/ url.cur = Views!SessionListView /\ url.prev # Views!MapView
  \/ /\ url.cur \in Views!MapShown /\ url.prev \in Views!AboutSessions
     /\ due # {} \/ timer \/ ~mapInstance

ViewsKept ==
  ~lost =>
    /\ IF ViewsAway THEN url.prevPlace = left ELSE place = left
    /\ url.cur = Views!SessionListView /\ due = {} => url.prevPlace = left
    /\ \/ url.cur \in Views!MapShown /\ url.prev \in {Views!SessionListView, Views!ModalView}
       \/ url.cur = Views!SessionListView /\ url.prev = Views!MapView
       => mapInstance /\ (due # {} => "cur" \in due)
    /\ url.prev = Views!CalendarView /\ due \notin {{}, {"map"}} => ~mapInstance

\* The inductive invariant.
ViewsIInv == ViewsTypeInv /\ ViewsMounted /\ ViewsWide /\ ViewsNarrow /\ ViewsKept

-----------------------------------------------------------------------------
(* Steps of the page itself. *)

LEMMA ViewsRenderKeeps ==
  ASSUME ViewsIInv, Views!Render
  PROVE  ViewsIInv'
<1> USE DEF ViewsUrls, Views!MapView, Views!CrowdMapView, Views!ModalView, Views!CalendarView,
         Views!FiltersView, Views!MapLegendView, Views!SessionListView, Views!TimelapseView,
         Views!UserSettings, Views!MapShown, Views!AboutSessions
<1> USE DEF ViewsIInv, ViewsTypeInv, ViewsMounted, ViewsWide, ViewsNarrow, ViewsKept, ViewsAway,
         Views!Render, Views!Redirects, Views!fixedSessionTypeSelected,
         Views!setPreviousZoomOnTheMap, Views!setPreviousZoomInTheURL, Views!desktopCondition,
         Views!mobileCondition, Views!mobileConditionForSessionList
<1>1. ViewsTypeInv'
  <2>1. place' \in Centres
    OBVIOUS
  <2>2. [url EXCEPT !.ids = FALSE] \in ViewsUrls
    OBVIOUS
  <2>3. \A u \in ViewsUrls : Views!setPreviousZoomInTheURL(u, place') \in ViewsUrls
    BY <2>1
  <2> HIDE DEF Views!setPreviousZoomInTheURL, ViewsUrls
  <2>4. url' \in ViewsUrls
    BY <2>2, <2>3
  <2> QED
    BY <2>1, <2>4
<1>2. ViewsMounted'
  OBVIOUS
<1>3. ViewsWide'
  OBVIOUS
<1>4. ViewsNarrow'
  OBVIOUS
<1>5. ViewsKept'
  OBVIOUS
<1> QED
  BY <1>1, <1>2, <1>3, <1>4, <1>5

LEMMA ViewsRedirectKeeps ==
  ASSUME ViewsIInv, Views!RedirectToCalendar
  PROVE  ViewsIInv'
<1> USE DEF ViewsUrls, Views!MapView, Views!CrowdMapView, Views!ModalView, Views!CalendarView,
         Views!FiltersView, Views!MapLegendView, Views!SessionListView, Views!TimelapseView,
         Views!UserSettings, Views!MapShown, Views!AboutSessions
<1> USE DEF ViewsIInv, ViewsTypeInv, ViewsMounted, ViewsWide, ViewsNarrow, ViewsKept, ViewsAway,
         Views!RedirectToCalendar, Views!Redirects, Views!fixedSessionTypeSelected
<1>1. ViewsTypeInv'
  OBVIOUS
<1>2. ViewsMounted'
  OBVIOUS
<1>3. ViewsWide'
  OBVIOUS
<1>4. ViewsNarrow'
  OBVIOUS
<1>5. ViewsKept'
  OBVIOUS
<1> QED
  BY <1>1, <1>2, <1>3, <1>4, <1>5

LEMMA ViewsTimerKeeps ==
  ASSUME ViewsIInv, due = {}, Views!TimerFires
  PROVE  ViewsIInv'
<1> USE DEF ViewsUrls, Views!MapView, Views!CrowdMapView, Views!ModalView, Views!CalendarView,
         Views!FiltersView, Views!MapLegendView, Views!SessionListView, Views!TimelapseView,
         Views!UserSettings, Views!MapShown, Views!AboutSessions
<1> USE DEF ViewsIInv, ViewsTypeInv, ViewsMounted, ViewsWide, ViewsNarrow, ViewsKept, ViewsAway,
         Views!TimerFires, Views!setPreviousZoomOnTheMap
<1>1. ViewsTypeInv'
  OBVIOUS
<1>2. ViewsMounted'
  OBVIOUS
<1>3. ViewsWide'
  OBVIOUS
<1>4. ViewsNarrow'
  OBVIOUS
<1>5. ViewsKept'
  OBVIOUS
<1> QED
  BY <1>1, <1>2, <1>3, <1>4, <1>5

LEMMA ViewsIdleKeeps ==
  ASSUME ViewsIInv, due = {}, Views!handleMapIdle
  PROVE  ViewsIInv'
<1> USE DEF ViewsUrls, Views!MapView, Views!CrowdMapView, Views!ModalView, Views!CalendarView,
         Views!FiltersView, Views!MapLegendView, Views!SessionListView, Views!TimelapseView,
         Views!UserSettings, Views!MapShown, Views!AboutSessions
<1> USE DEF ViewsIInv, ViewsTypeInv, ViewsMounted, ViewsWide, ViewsNarrow, ViewsKept, ViewsAway,
         Views!handleMapIdle
<1>1. ViewsTypeInv'
  OBVIOUS
<1>2. ViewsMounted'
  OBVIOUS
<1>3. ViewsWide'
  OBVIOUS
<1>4. ViewsNarrow'
  OBVIOUS
<1>5. ViewsKept'
  OBVIOUS
<1> QED
  BY <1>1, <1>2, <1>3, <1>4, <1>5

-----------------------------------------------------------------------------
(* Steps of the user. *)

LEMMA ViewsMoveKeeps ==
  ASSUME ViewsIInv, due = {}, ~timer, NEW p \in Centres, Views!Move(p)
  PROVE  ViewsIInv'
<1> USE DEF ViewsUrls, Views!MapView, Views!CrowdMapView, Views!ModalView, Views!CalendarView,
         Views!FiltersView, Views!MapLegendView, Views!SessionListView, Views!TimelapseView,
         Views!UserSettings, Views!MapShown, Views!AboutSessions
<1> USE DEF ViewsIInv, ViewsTypeInv, ViewsMounted, ViewsWide, ViewsNarrow, ViewsKept, ViewsAway,
         Views!Move, Views!OnTheMap
<1>1. ViewsTypeInv'
  OBVIOUS
<1>2. ViewsMounted'
  OBVIOUS
<1>3. ViewsWide'
  OBVIOUS
<1>4. ViewsNarrow'
  OBVIOUS
<1>5. ViewsKept'
  OBVIOUS
<1> QED
  BY <1>1, <1>2, <1>3, <1>4, <1>5

LEMMA ViewsCloseKeeps ==
  ASSUME ViewsIInv, due = {}, ~timer, Views!CloseModal
  PROVE  ViewsIInv'
<1> USE DEF ViewsUrls, Views!MapView, Views!CrowdMapView, Views!ModalView, Views!CalendarView,
         Views!FiltersView, Views!MapLegendView, Views!SessionListView, Views!TimelapseView,
         Views!UserSettings, Views!MapShown, Views!AboutSessions
<1> USE DEF ViewsIInv, ViewsTypeInv, ViewsMounted, ViewsWide, ViewsNarrow, ViewsKept, ViewsAway,
         Views!CloseModal, Views!OnTheMap, Views!Shows, Views!Stay, Views!Sidesteps,
         Views!goToUserSettings, Views!fixedSessionTypeSelected,
         Views!revertUserSettingsAndResetIds
<1>1. ViewsTypeInv'
  OBVIOUS
<1>2. ViewsMounted'
  OBVIOUS
<1>3. ViewsWide'
  OBVIOUS
<1>4. ViewsNarrow'
  OBVIOUS
<1>5. ViewsKept'
  OBVIOUS
<1> QED
  BY <1>1, <1>2, <1>3, <1>4, <1>5

LEMMA ViewsLinkKeeps ==
  ASSUME ViewsIInv, due = {}, ~timer, Views!ModalLink
  PROVE  ViewsIInv'
<1> USE DEF ViewsUrls, Views!MapView, Views!CrowdMapView, Views!ModalView, Views!CalendarView,
         Views!FiltersView, Views!MapLegendView, Views!SessionListView, Views!TimelapseView,
         Views!UserSettings, Views!MapShown, Views!AboutSessions
<1> USE DEF ViewsIInv, ViewsTypeInv, ViewsMounted, ViewsWide, ViewsNarrow, ViewsKept, ViewsAway,
         Views!ModalLink, Views!OnTheMap, Views!Shows, Views!Stay, Views!Sidesteps,
         Views!goToUserSettings, Views!fixedSessionTypeSelected
<1>1. ViewsTypeInv'
  OBVIOUS
<1>2. ViewsMounted'
  OBVIOUS
<1>3. ViewsWide'
  OBVIOUS
<1>4. ViewsNarrow'
  OBVIOUS
<1>5. ViewsKept'
  OBVIOUS
<1> QED
  BY <1>1, <1>2, <1>3, <1>4, <1>5

LEMMA ViewsBackKeeps ==
  ASSUME ViewsIInv, due = {}, ~timer, Views!handleCalendarGoBack
  PROVE  ViewsIInv'
<1> USE DEF ViewsUrls, Views!MapView, Views!CrowdMapView, Views!ModalView, Views!CalendarView,
         Views!FiltersView, Views!MapLegendView, Views!SessionListView, Views!TimelapseView,
         Views!UserSettings, Views!MapShown, Views!AboutSessions
<1> USE DEF ViewsIInv, ViewsTypeInv, ViewsMounted, ViewsWide, ViewsNarrow, ViewsKept, ViewsAway,
         Views!handleCalendarGoBack, Views!OnTheMap, Views!Shows, Views!Stay, Views!Sidesteps,
         Views!goToUserSettings, Views!fixedSessionTypeSelected
<1>1. ViewsTypeInv'
  OBVIOUS
<1>2. ViewsMounted'
  OBVIOUS
<1>3. ViewsWide'
  OBVIOUS
<1>4. ViewsNarrow'
  OBVIOUS
<1>5. ViewsKept'
  OBVIOUS
<1> QED
  BY <1>1, <1>2, <1>3, <1>4, <1>5

LEMMA ViewsTimelapseKeeps ==
  ASSUME ViewsIInv, due = {}, ~timer, Views!openTimelapse
  PROVE  ViewsIInv'
<1> USE DEF ViewsUrls, Views!MapView, Views!CrowdMapView, Views!ModalView, Views!CalendarView,
         Views!FiltersView, Views!MapLegendView, Views!SessionListView, Views!TimelapseView,
         Views!UserSettings, Views!MapShown, Views!AboutSessions
<1> USE DEF ViewsIInv, ViewsTypeInv, ViewsMounted, ViewsWide, ViewsNarrow, ViewsKept, ViewsAway,
         Views!openTimelapse, Views!OnTheMap, Views!Shows, Views!Stay, Views!Sidesteps,
         Views!goToUserSettings, Views!fixedSessionTypeSelected
<1>1. ViewsTypeInv'
  OBVIOUS
<1>2. ViewsMounted'
  OBVIOUS
<1>3. ViewsWide'
  OBVIOUS
<1>4. ViewsNarrow'
  OBVIOUS
<1>5. ViewsKept'
  OBVIOUS
<1> QED
  BY <1>1, <1>2, <1>3, <1>4, <1>5

LEMMA ViewsPanelKeeps ==
  ASSUME ViewsIInv, due = {}, ~timer, Views!ClosePanel
  PROVE  ViewsIInv'
<1> USE DEF ViewsUrls, Views!MapView, Views!CrowdMapView, Views!ModalView, Views!CalendarView,
         Views!FiltersView, Views!MapLegendView, Views!SessionListView, Views!TimelapseView,
         Views!UserSettings, Views!MapShown, Views!AboutSessions
<1> USE DEF ViewsIInv, ViewsTypeInv, ViewsMounted, ViewsWide, ViewsNarrow, ViewsKept, ViewsAway,
         Views!ClosePanel, Views!OnTheMap, Views!Shows, Views!Stay, Views!Sidesteps,
         Views!goToUserSettings, Views!fixedSessionTypeSelected
<1>1. ViewsTypeInv'
  OBVIOUS
<1>2. ViewsMounted'
  OBVIOUS
<1>3. ViewsWide'
  OBVIOUS
<1>4. ViewsNarrow'
  OBVIOUS
<1>5. ViewsKept'
  OBVIOUS
<1> QED
  BY <1>1, <1>2, <1>3, <1>4, <1>5

LEMMA ViewsButtonKeeps ==
  ASSUME ViewsIInv, due = {}, ~timer, Views!handleTimelapseClick
  PROVE  ViewsIInv'
<1> USE DEF ViewsUrls, Views!MapView, Views!CrowdMapView, Views!ModalView, Views!CalendarView,
         Views!FiltersView, Views!MapLegendView, Views!SessionListView, Views!TimelapseView,
         Views!UserSettings, Views!MapShown, Views!AboutSessions
<1> USE DEF ViewsIInv, ViewsTypeInv, ViewsMounted, ViewsWide, ViewsNarrow, ViewsKept, ViewsAway,
         Views!handleTimelapseClick, Views!OnTheMap, Views!Shows, Views!Stay, Views!Sidesteps,
         Views!goToUserSettings, Views!fixedSessionTypeSelected
<1>1. ViewsTypeInv'
  OBVIOUS
<1>2. ViewsMounted'
  OBVIOUS
<1>3. ViewsWide'
  OBVIOUS
<1>4. ViewsNarrow'
  OBVIOUS
<1>5. ViewsKept'
  OBVIOUS
<1> QED
  BY <1>1, <1>2, <1>3, <1>4, <1>5

LEMMA ViewsFilterKeeps ==
  ASSUME ViewsIInv, due = {}, ~timer, Views!handleFilterClick
  PROVE  ViewsIInv'
<1> USE DEF ViewsUrls, Views!MapView, Views!CrowdMapView, Views!ModalView, Views!CalendarView,
         Views!FiltersView, Views!MapLegendView, Views!SessionListView, Views!TimelapseView,
         Views!UserSettings, Views!MapShown, Views!AboutSessions
<1> USE DEF ViewsIInv, ViewsTypeInv, ViewsMounted, ViewsWide, ViewsNarrow, ViewsKept, ViewsAway,
         Views!handleFilterClick, Views!OnTheMap, Views!Shows, Views!Stay, Views!Sidesteps,
         Views!goToUserSettings, Views!fixedSessionTypeSelected
<1>1. ViewsTypeInv'
  OBVIOUS
<1>2. ViewsMounted'
  OBVIOUS
<1>3. ViewsWide'
  OBVIOUS
<1>4. ViewsNarrow'
  OBVIOUS
<1>5. ViewsKept'
  OBVIOUS
<1> QED
  BY <1>1, <1>2, <1>3, <1>4, <1>5

LEMMA ViewsToggleKeeps ==
  ASSUME ViewsIInv, due = {}, ~timer, Views!handleToggleClick
  PROVE  ViewsIInv'
<1> USE DEF ViewsUrls, Views!MapView, Views!CrowdMapView, Views!ModalView, Views!CalendarView,
         Views!FiltersView, Views!MapLegendView, Views!SessionListView, Views!TimelapseView,
         Views!UserSettings, Views!MapShown, Views!AboutSessions
<1> USE DEF ViewsIInv, ViewsTypeInv, ViewsMounted, ViewsWide, ViewsNarrow, ViewsKept, ViewsAway,
         Views!handleToggleClick, Views!OnTheMap, Views!Shows, Views!Stay, Views!Sidesteps,
         Views!goToUserSettings, Views!fixedSessionTypeSelected
<1>1. ViewsTypeInv'
  OBVIOUS
<1>2. ViewsMounted'
  OBVIOUS
<1>3. ViewsWide'
  OBVIOUS
<1>4. ViewsNarrow'
  OBVIOUS
<1>5. ViewsKept'
  OBVIOUS
<1> QED
  BY <1>1, <1>2, <1>3, <1>4, <1>5

LEMMA ViewsSectionKeeps ==
  ASSUME ViewsIInv, due = {}, ~timer,
         NEW opens \in {Views!SessionListView, Views!MapLegendView, Views!FiltersView},
         Views!SectionButton(opens)
  PROVE  ViewsIInv'
<1> USE DEF ViewsUrls, Views!MapView, Views!CrowdMapView, Views!ModalView, Views!CalendarView,
         Views!FiltersView, Views!MapLegendView, Views!SessionListView, Views!TimelapseView,
         Views!UserSettings, Views!MapShown, Views!AboutSessions
<1> USE DEF ViewsIInv, ViewsTypeInv, ViewsMounted, ViewsWide, ViewsNarrow, ViewsKept, ViewsAway,
         Views!SectionButton, Views!OnTheMap, Views!Shows, Views!Stay, Views!Sidesteps,
         Views!goToUserSettings, Views!fixedSessionTypeSelected
<1>1. ViewsTypeInv'
  OBVIOUS
<1>2. ViewsMounted'
  OBVIOUS
<1>3. ViewsWide'
  OBVIOUS
<1>4. ViewsNarrow'
  OBVIOUS
<1>5. ViewsKept'
  OBVIOUS
<1> QED
  BY <1>1, <1>2, <1>3, <1>4, <1>5

LEMMA ViewsKindKeeps ==
  ASSUME ViewsIInv, due = {}, ~timer, NEW kind \in {"fixed", "mobile"}, Views!setFilter(kind)
  PROVE  ViewsIInv'
<1> USE DEF ViewsUrls, Views!MapView, Views!CrowdMapView, Views!ModalView, Views!CalendarView,
         Views!FiltersView, Views!MapLegendView, Views!SessionListView, Views!TimelapseView,
         Views!UserSettings, Views!MapShown, Views!AboutSessions
<1> USE DEF ViewsIInv, ViewsTypeInv, ViewsMounted, ViewsWide, ViewsNarrow, ViewsKept, ViewsAway,
         Views!setFilter, Views!Filtered, Views!OnTheMap, Views!Shows, Views!Stay,
         Views!Sidesteps, Views!goToUserSettings, Views!fixedSessionTypeSelected
<1>1. ViewsTypeInv'
  OBVIOUS
<1>2. ViewsMounted'
  OBVIOUS
<1>3. ViewsWide'
  OBVIOUS
<1>4. ViewsNarrow'
  OBVIOUS
<1>5. ViewsKept'
  OBVIOUS
<1> QED
  BY <1>1, <1>2, <1>3, <1>4, <1>5

\* The URL a session is opened with, and where it has the map go back to.
ViewsRecorded ==
  IF url.cur = Views!SessionListView THEN url ELSE Views!setPreviousZoomInTheURL(url, place)

ViewsOpened(opens) == [ViewsRecorded EXCEPT !.ids = TRUE, !.prev = url.cur, !.cur = opens]

ViewsIsRecorded ==
  /\ url.cur # Views!SessionListView
  /\ mapInstance
  /\ \/ ~isMobile /\ url.cur # Views!ModalView /\ url.prev # Views!CalendarView
     \/ isMobile /\ url.cur = Views!MapView

LEMMA ViewsOpenedFits ==
  ASSUME ViewsIInv, NEW opens \in Views!UserSettings
  PROVE  /\ ViewsOpened(opens) \in ViewsUrls
         /\ ViewsOpened(opens).kind = url.kind /\ ViewsOpened(opens).ids = TRUE
         /\ ViewsOpened(opens).prev = url.cur /\ ViewsOpened(opens).cur = opens
         /\ ViewsOpened(opens).prevPlace = IF ViewsIsRecorded THEN place ELSE url.prevPlace
<1>1. url \in ViewsUrls /\ place \in Centres
  BY DEF ViewsIInv, ViewsTypeInv
<1>2. ViewsRecorded = IF ViewsIsRecorded THEN [url EXCEPT !.prevPlace = place] ELSE url
  BY DEF ViewsRecorded, ViewsIsRecorded, Views!setPreviousZoomInTheURL, Views!desktopCondition,
    Views!mobileCondition, Views!mobileConditionForSessionList, Views!SessionListView,
    Views!MapView
<1>3. ViewsRecorded \in ViewsUrls
  BY <1>1, <1>2 DEF ViewsUrls
<1>4. /\ ViewsRecorded.kind = url.kind
      /\ ViewsRecorded.prevPlace = IF ViewsIsRecorded THEN place ELSE url.prevPlace
  BY <1>1, <1>2 DEF ViewsUrls
<1>5. url.cur \in Views!UserSettings
  BY <1>1 DEF ViewsUrls
<1> HIDE DEF ViewsRecorded
<1> QED
  BY <1>3, <1>4, <1>5 DEF ViewsUrls, ViewsOpened

LEMMA ViewsMarkerKeeps ==
  ASSUME ViewsIInv, due = {}, ~timer, Views!handleMarkerClick
  PROVE  ViewsIInv'
<1> DEFINE opens == IF isMobile /\ url.kind = "fixed" THEN Views!CalendarView ELSE Views!ModalView
           opened == ViewsOpened(opens)
<1>1. /\ opened \in ViewsUrls /\ opened.kind = url.kind /\ opened.ids = TRUE
      /\ opened.prev = url.cur /\ opened.cur = opens
      /\ opened.prevPlace = IF ViewsIsRecorded THEN place ELSE url.prevPlace
  <2>1. opens \in Views!UserSettings
    BY DEF Views!UserSettings
  <2> HIDE DEF opens
  <2> QED
    BY <2>1, ViewsOpenedFits
<1> HIDE DEF opened
<1> USE DEF ViewsUrls, Views!MapView, Views!CrowdMapView, Views!ModalView, Views!CalendarView,
         Views!FiltersView, Views!MapLegendView, Views!SessionListView, Views!TimelapseView,
         Views!UserSettings, Views!MapShown, Views!AboutSessions
<1> USE DEF ViewsIInv, ViewsTypeInv, ViewsMounted, ViewsWide, ViewsNarrow, ViewsKept, ViewsAway,
         ViewsIsRecorded, Views!Sidesteps
<1>2. CASE isMobile /\ url.kind = "fixed"
  <2>1. /\ url' = opened /\ onMap /\ mapInstance
        /\ onMap' = FALSE /\ mapInstance' = FALSE /\ moving' = FALSE /\ due' = {} /\ timer' = FALSE
        /\ lost' = (lost \/ Views!Sidesteps(Views!CalendarView))
        /\ UNCHANGED <<isMobile, place, left>>
    BY <1>2 DEF Views!handleMarkerClick, Views!fixedSessionTypeSelected, Views!OnTheMap,
         ViewsRecorded, ViewsOpened, opened
  <2>2. ViewsTypeInv'
    BY <2>1, <1>1, <1>2
  <2>3. ViewsMounted'
    BY <2>1, <1>1, <1>2
  <2>4. ViewsWide'
    BY <2>1, <1>1, <1>2
  <2>5. ViewsNarrow'
    BY <2>1, <1>1, <1>2
  <2>6. ViewsKept'
    BY <2>1, <1>1, <1>2
  <2> QED
    BY <2>2, <2>3, <2>4, <2>5, <2>6
<1>3. CASE ~(isMobile /\ url.kind = "fixed") /\ ~url.ids
  <2>1. /\ url' = opened
        /\ isMobile => url.cur \notin {Views!FiltersView, Views!TimelapseView}
        /\ ~isMobile => url.cur \in {Views!MapView, Views!CrowdMapView, Views!ModalView}
        /\ lost' = (lost \/ Views!Sidesteps(url'.cur)) /\ onMap /\ mapInstance
        /\ due' = (IF url'.cur # url.cur THEN {"cur"} ELSE {})
                     \cup (IF url'.prev # url.prev THEN {"prev"} ELSE {})
        /\ UNCHANGED <<isMobile, onMap, place, mapInstance, moving, timer, left>>
    BY <1>3 DEF Views!handleMarkerClick, Views!fixedSessionTypeSelected, Views!OnTheMap,
         Views!Shows, Views!Stay, ViewsRecorded, ViewsOpened, opened
  <2>2. ViewsTypeInv'
    BY <2>1, <1>1, <1>3
  <2>3. ViewsMounted'
    BY <2>1, <1>1, <1>3
  <2>4. ViewsWide'
    BY <2>1, <1>1, <1>3
  <2>5. ViewsNarrow'
    BY <2>1, <1>1, <1>3
  <2>6. ViewsKept'
    BY <2>1, <1>1, <1>3
  <2> QED
    BY <2>2, <2>3, <2>4, <2>5, <2>6
<1>4. CASE ~(isMobile /\ url.kind = "fixed") /\ url.ids
  <2>1. /\ url' = Views!revertUserSettingsAndResetIds
        /\ lost' = (lost \/ Views!Sidesteps(url'.cur)) /\ onMap /\ mapInstance
        /\ due' = (IF url'.cur # url.cur THEN {"cur"} ELSE {})
                     \cup (IF url'.prev # url.prev THEN {"prev"} ELSE {})
        /\ UNCHANGED <<isMobile, onMap, place, mapInstance, moving, timer, left>>
    BY <1>4 DEF Views!handleMarkerClick, Views!fixedSessionTypeSelected, Views!OnTheMap,
         Views!Shows, Views!Stay
  <2> USE DEF Views!revertUserSettingsAndResetIds
  <2>2. ViewsTypeInv'
    BY <2>1, <1>1, <1>4
  <2>3. ViewsMounted'
    BY <2>1, <1>1, <1>4
  <2>4. ViewsWide'
    BY <2>1, <1>1, <1>4
  <2>5. ViewsNarrow'
    BY <2>1, <1>1, <1>4
  <2>6. ViewsKept'
    BY <2>1, <1>1, <1>4
  <2> QED
    BY <2>2, <2>3, <2>4, <2>5, <2>6
<1> QED
  BY <1>2, <1>3, <1>4

-----------------------------------------------------------------------------
(* The invariant holds, and what follows. *)

LEMMA ViewsInitHolds == Views!Init => ViewsIInv
<1> SUFFICES ASSUME Views!Init PROVE ViewsIInv
  OBVIOUS
<1> USE DEF ViewsUrls, Views!MapView, Views!CrowdMapView, Views!ModalView, Views!CalendarView,
         Views!FiltersView, Views!MapLegendView, Views!SessionListView, Views!TimelapseView,
         Views!UserSettings, Views!MapShown, Views!AboutSessions
<1>1. ViewsTypeInv /\ ViewsMounted /\ ViewsWide /\ ViewsNarrow
  BY DEF Views!Init, ViewsTypeInv, ViewsMounted, ViewsWide, ViewsNarrow
<1>2. ViewsKept
  BY DEF Views!Init, ViewsKept, ViewsAway
<1> QED
  BY <1>1, <1>2 DEF ViewsIInv

LEMMA ViewsNextKeeps == ViewsIInv /\ [Views!Next]_(Views!vars) => ViewsIInv'
<1> SUFFICES ASSUME ViewsIInv, [Views!Next]_(Views!vars) PROVE ViewsIInv'
  OBVIOUS
<1>1. CASE UNCHANGED Views!vars
  BY <1>1 DEF Views!vars, ViewsIInv, ViewsTypeInv, ViewsMounted, ViewsWide, ViewsNarrow, ViewsKept,
    ViewsAway
<1>2. CASE Views!Render \/ Views!RedirectToCalendar
  BY <1>2, ViewsRenderKeeps, ViewsRedirectKeeps
<1>3. CASE due = {} /\ (Views!TimerFires \/ Views!handleMapIdle)
  BY <1>3, ViewsTimerKeeps, ViewsIdleKeeps
<1>4. CASE due = {} /\ ~timer /\ Views!User
  BY <1>4, ViewsMoveKeeps, ViewsMarkerKeeps, ViewsCloseKeeps, ViewsLinkKeeps, ViewsBackKeeps,
    ViewsSectionKeeps, ViewsTimelapseKeeps, ViewsPanelKeeps, ViewsButtonKeeps, ViewsFilterKeeps,
    ViewsToggleKeeps, ViewsKindKeeps DEF Views!User
<1> QED
  BY <1>1, <1>2, <1>3, <1>4 DEF Views!Next

LEMMA ViewsInvImplies == ViewsIInv => Views!MapGoesBack
<1> SUFFICES ASSUME ViewsIInv, Views!Rests, onMap, ~lost
             PROVE  /\ url.cur \in Views!MapShown => place = left
                    /\ url.cur = Views!ModalView <=> url.ids
  BY DEF Views!MapGoesBack
<1> USE DEF ViewsUrls, Views!MapView, Views!CrowdMapView, Views!ModalView, Views!CalendarView,
         Views!FiltersView, Views!MapLegendView, Views!SessionListView, Views!TimelapseView,
         Views!UserSettings, Views!MapShown, Views!AboutSessions
<1> USE DEF Views!Rests
<1>1. url.cur \in Views!MapShown => place = left
  BY DEF ViewsIInv, ViewsKept, ViewsAway, ViewsMounted
<1>2. url.cur = Views!ModalView => url.ids
  BY DEF ViewsIInv, ViewsTypeInv, ViewsWide, ViewsNarrow
<1>3. url.ids => url.cur = Views!ModalView
  BY DEF ViewsIInv, ViewsMounted
<1> QED
  BY <1>1, <1>2, <1>3

-----------------------------------------------------------------------------
(* The search for a place. *)

SearchTexts == Cities \cup {Nothing}
SearchLandings == [city : SearchTexts, step : {"none", "asked", "moving"}, bounds : BOOLEAN,
                   view : Cities \cup {Search!Elsewhere, Nothing}]

\* The excuses that are never taken back.
SearchLasting == {"cleared", "ignored", "settling"}

\* What is suggested is for the text, or it is yet to be asked for or answered.
SearchSuggests ==
  /\ requestId \in Nat /\ typed \in SearchTexts /\ suggestions \in SearchTexts
  /\ \A r \in requests : r.id \in 0..requestId /\ r.text \in SearchTexts
  /\ "cleared" \notin excused =>
       \/ debounce
       \/ /\ \A r \in requests : r.id = requestId => r.text = typed
          /\ suggestions \in {Nothing, typed} \/ \E r \in requests : r.id = requestId
  /\ "ignored" \notin excused => (byHand => typed = inputValue)

\* Where the map is, or is about to be.
SearchGoal == IF moving = Nothing THEN map ELSE moving

\* A city that nobody has looked at yet comes from the address of the page.
SearchFromAddress ==
  pendingCount = 0 /\ moving = Nothing /\ map = Search!Elsewhere /\ handled = Nothing

\* The city is where the map goes, or the map is about to be sent there.
SearchAgrees ==
  /\ landing.step = "none" =>
       /\ pendingCount \in {0, 1}
       /\ \/ city \in {Nothing, SearchGoal} /\ (city \in {Nothing, handled} \/ pendingCount = 1)
          \/ SearchFromAddress
  /\ landing.step = "asked" =>
       /\ pendingCount = 1 /\ city \in {Nothing, landing.city} /\ handled = landing.city
       /\ moving = Nothing /\ map = Search!Elsewhere
  /\ landing.step = "moving" =>
       /\ pendingCount = 1 /\ city \in {Nothing, landing.city} /\ handled = landing.city
       /\ moving = landing.city

SearchFollows ==
  /\ city \in SearchTexts /\ pendingCount \in Nat /\ landing \in SearchLandings
  /\ landing.step # "none" => landing.city # Nothing /\ landing.view # Nothing
  /\ view \in Cities \cup {Search!Elsewhere} /\ moving \in Cities \cup {Search!Elsewhere, Nothing}
  /\ \A r \in picks : /\ r.of \in Cities \cup {Search!Elsewhere}
                      /\ r.view \in Cities \cup {Search!Elsewhere}
  /\ "settling" \notin excused => SearchAgrees

\* Sessions are asked for when a timer ends or an advertisement's move does, so whoever
\* sends the map somewhere also sees to it that they are asked for there.
SearchInTime ==
  /\ moving # Nothing => timers > 0 \/ landing.step = "moving" \/ "early" \in excused
  /\ landing.step = "none" =>
       IF city \in {Nothing, handled}
       THEN timers > 0 \/ "early" \in excused \/ "moved" \in excused \/ asked = view
       ELSE timers > 0 \/ pendingCount = 0

SearchAsks ==
  /\ timers \in Nat
  /\ "stale" \in excused \/ view = map
  /\ "settling" \in excused \/ SearchInTime

\* A place is among the recent ones once, and they are few.
SearchRemembers ==
  /\ recents \in Seq(Cities)
  /\ Len(recents) <= Capacity
  /\ \A i, j \in 1..Len(recents) : recents[i] = recents[j] => i = j

\* The inductive invariant.
SearchIInv == SearchSuggests /\ SearchFollows /\ SearchAsks /\ SearchRemembers

-----------------------------------------------------------------------------
(* What a step leaves alone. *)

LEMMA SearchSuggestsStay ==
  ASSUME SearchSuggests, excused \cap SearchLasting \subseteq excused',
         UNCHANGED <<inputValue, typed, suggestions, debounce, requests, requestId, byHand>>
  PROVE  SearchSuggests'
BY DEF SearchSuggests, SearchLasting

LEMMA SearchPlaceStays ==
  ASSUME SearchFollows, SearchAsks, excused \subseteq excused', picks' \subseteq picks,
         UNCHANGED <<city, map, moving, pendingCount, handled, landing, view, timers, asked>>
  PROVE  SearchFollows' /\ SearchAsks'
<1>1. SearchAgrees => SearchAgrees'
  BY DEF SearchAgrees, SearchGoal, SearchFromAddress
<1>2. SearchInTime => SearchInTime'
  BY DEF SearchInTime
<1> QED
  BY <1>1, <1>2 DEF SearchFollows, SearchAsks

LEMMA SearchRemembersStay ==
  ASSUME SearchRemembers, recents' = recents
  PROVE  SearchRemembers'
BY DEF SearchRemembers

-----------------------------------------------------------------------------
(* The recent searches. *)

LEMMA SearchWithout ==
  ASSUME SearchRemembers, NEW p \in Cities
  PROVE  LET rest == Search!RemoveFirst(recents, p)
         IN  /\ rest \in Seq(Cities)
             /\ \A i \in 1..Len(rest) : rest[i] # p
             /\ \A i, j \in 1..Len(rest) : rest[i] = rest[j] => i = j
<1>1. recents \in Seq(Cities)
  BY DEF SearchRemembers
<1>2. CASE ~ \E i \in 1..Len(recents) : recents[i] = p
  BY <1>1, <1>2 DEF Search!RemoveFirst, SearchRemembers
<1>3. CASE \E i \in 1..Len(recents) : recents[i] = p
  <2> DEFINE at == Search!SelectInSeq(recents, LAMBDA v : v = p)
             I == {i \in 1..Len(recents) : recents[i] = p}
  <2>1. at \in I
    <3>1. PICK k \in 1..Len(recents) : recents[k] = p
      BY <1>3
    <3>2. I = {k}
      BY <3>1 DEF SearchRemembers
    <3>3. Search!Min(I) = k
      BY <3>2 DEF Search!Min
    <3>4. at = IF I # {} THEN Search!Min(I) ELSE 0
      BY DEF Search!SelectInSeq
    <3> QED
      BY <3>1, <3>2, <3>3, <3>4
  <2>2. at \in 1..Len(recents) /\ recents[at] = p
    BY <2>1
  <2>3. Search!RemoveFirst(recents, p) =
          SubSeq(recents, 1, at - 1) \o SubSeq(recents, at + 1, Len(recents))
    BY <1>3 DEF Search!RemoveFirst, Search!RemoveAt
  <2> HIDE DEF at, I
  <2> DEFINE front == SubSeq(recents, 1, at - 1)
             back == SubSeq(recents, at + 1, Len(recents))
             rest == front \o back
  <2>4. /\ front \in Seq(Cities) /\ Len(front) = at - 1
        /\ \A i \in 1..Len(front) : front[i] = recents[i]
    BY <1>1, <2>2, SubSeqProperties
  <2>5. /\ back \in Seq(Cities) /\ Len(back) = Len(recents) - at
        /\ \A i \in 1..Len(back) : back[i] = recents[at + i]
    BY <1>1, <2>2, SubSeqProperties
  <2> HIDE DEF front, back
  <2>6. /\ rest \in Seq(Cities) /\ Len(rest) = Len(recents) - 1
        /\ \A i \in 1..Len(rest) : rest[i] = IF i < at THEN recents[i] ELSE recents[i + 1]
    <3>1. Len(recents) \in Nat /\ at \in Nat /\ at >= 1 /\ at <= Len(recents)
      BY <1>1, <2>2
    <3>2. rest \in Seq(Cities) /\ Len(rest) = Len(recents) - 1
      <4>1. rest \in Seq(Cities) /\ Len(rest) = Len(front) + Len(back)
        BY <2>4, <2>5
      <4> QED
        BY <3>1, <2>4, <2>5, <4>1
    <3>3. ASSUME NEW i \in 1..Len(rest)
          PROVE  rest[i] = IF i < at THEN recents[i] ELSE recents[i + 1]
      <4>1. CASE i < at
        BY <3>1, <4>1, <2>4, <2>5
      <4>2. CASE ~(i < at)
        <5>1. i - (at - 1) \in 1..Len(back) /\ at + (i - (at - 1)) = i + 1
          BY <3>1, <3>2, <4>2, <2>5
        <5>2. rest[i] = back[i - (at - 1)]
          BY <3>1, <3>2, <4>2, <2>4, <2>5
        <5> QED
          BY <4>2, <5>1, <5>2, <2>5
      <4> QED
        BY <4>1, <4>2
    <3> QED
      BY <3>2, <3>3
  <2> HIDE DEF rest
  <2>7. \A i \in 1..Len(rest) : rest[i] # p
    BY <1>1, <2>2, <2>6 DEF SearchRemembers
  <2>8. \A i, j \in 1..Len(rest) : rest[i] = rest[j] => i = j
    BY <1>1, <2>2, <2>6 DEF SearchRemembers
  <2>9. Search!RemoveFirst(recents, p) = rest
    BY <2>3 DEF rest, front, back
  <2> QED
    BY <2>6, <2>7, <2>8, <2>9
<1> QED
  BY <1>2, <1>3

\* A place that is searched for comes first, once, and the last one may have to go.
LEMMA SearchRecentFits ==
  ASSUME Search!SearchAssumption, SearchRemembers, NEW p \in Cities, Search!addRecent(p)
  PROVE  SearchRemembers'
<1> DEFINE rest == Search!RemoveFirst(recents, p)
           next == <<p>> \o rest
           n == IF Len(next) < Capacity THEN Len(next) ELSE Capacity
<1>1. /\ rest \in Seq(Cities)
      /\ \A i \in 1..Len(rest) : rest[i] # p
      /\ \A i, j \in 1..Len(rest) : rest[i] = rest[j] => i = j
  BY SearchWithout
<1>2. recents' = SubSeq(next, 1, n)
  BY DEF Search!addRecent
<1> HIDE DEF rest
<1>3. /\ next \in Seq(Cities) /\ Len(next) = Len(rest) + 1
      /\ \A i \in 1..Len(next) : next[i] = IF i = 1 THEN p ELSE rest[i - 1]
  BY <1>1
<1> HIDE DEF next
<1>4. n \in 0..Len(next) /\ n <= Capacity
  BY <1>3 DEF Search!SearchAssumption
<1> HIDE DEF n
<1>5. /\ recents' \in Seq(Cities) /\ Len(recents') = n
      /\ \A i \in 1..n : recents'[i] = next[i]
  BY <1>2, <1>3, <1>4, SubSeqProperties
<1>6. ASSUME NEW i \in 1..Len(next), NEW j \in 1..Len(next), next[i] = next[j]
      PROVE  i = j
  <2>1. Len(rest) \in Nat
    BY <1>1
  <2>2. /\ i # 1 => i - 1 \in 1..Len(rest)
        /\ j # 1 => j - 1 \in 1..Len(rest)
    BY <1>3, <2>1
  <2>3. i = 1 <=> j = 1
    BY <1>1, <1>3, <1>6, <2>2
  <2>4. CASE i # 1
    <3>1. rest[i - 1] = rest[j - 1]
      BY <1>3, <1>6, <2>3, <2>4
    <3>2. i - 1 = j - 1
      BY <1>1, <2>2, <2>3, <2>4, <3>1
    <3> QED
      BY <3>2
  <2> QED
    BY <2>3, <2>4
<1> QED
  BY <1>3, <1>4, <1>5, <1>6 DEF SearchRemembers

-----------------------------------------------------------------------------
(* The text. *)

\* Another text is searched for, except that of an item that was selected.
LEMMA SearchInputKeeps ==
  ASSUME SearchSuggests, NEW text \in SearchTexts, inputValue' = text, UNCHANGED <<requests, requestId>>,
         Search!setInput(text),
         (excused \cap SearchLasting) \cup Search!Cleared(text) \subseteq excused'
  PROVE  SearchSuggests'
<1>1. CASE text = typed
  BY <1>1 DEF Search!setInput, SearchSuggests, SearchLasting
<1>2. CASE text # typed /\ text # Nothing
  BY <1>2 DEF Search!setInput, Search!Empty, SearchSuggests, SearchLasting
<1>3. CASE text # typed /\ text = Nothing
  BY <1>3 DEF Search!setInput, Search!Cleared, Search!Empty, SearchSuggests, SearchLasting, SearchTexts
<1> QED
  BY <1>1, <1>2, <1>3

LEMMA SearchChangeKeeps ==
  ASSUME SearchSuggests, NEW text \in SearchTexts, inputValue' = text, UNCHANGED <<requests, requestId>>,
         Search!onInputValueChange(text), byHand' = TRUE
  PROVE  SearchSuggests' /\ excused \subseteq excused'
<1>1. CASE Search!setInput(text) /\ excused' = excused \cup Search!Cleared(text)
  BY <1>1, SearchInputKeeps
<1>2. CASE /\ excused' = excused \cup {"ignored"}
           /\ UNCHANGED <<typed, suggestions, debounce>>
  BY <1>2 DEF SearchSuggests
<1> QED
  BY <1>1, <1>2 DEF Search!onInputValueChange

\* The text of an item that was selected.
LEMMA SearchSelectedKeeps ==
  ASSUME SearchSuggests, excused \cap SearchLasting \subseteq excused', NEW p, Search!Selected(p)
  PROVE  SearchSuggests'
BY DEF Search!Selected, SearchSuggests, SearchLasting

LEMMA SearchTypeKeeps ==
  ASSUME SearchIInv, NEW text \in SearchTexts, Search!Type(text)
  PROVE  SearchIInv'
<1>1. SearchSuggests' /\ excused \subseteq excused'
  BY SearchChangeKeeps DEF Search!Type, SearchIInv
<1>2. SearchFollows' /\ SearchAsks'
  BY <1>1, SearchPlaceStays DEF Search!Type, Search!place, Search!sought, SearchIInv
<1>3. SearchRemembers'
  BY SearchRemembersStay DEF Search!Type, SearchIInv
<1> QED
  BY <1>1, <1>2, <1>3 DEF SearchIInv

LEMMA SearchDebounceKeeps ==
  ASSUME SearchIInv, Search!DebounceEnds
  PROVE  SearchIInv'
<1>1. SearchSuggests'
  <2>1. /\ requestId' = requestId + 1
        /\ requests' = requests \cup {[id |-> requestId + 1, text |-> typed]}
        /\ UNCHANGED <<inputValue, typed, suggestions, byHand, excused>>
    BY DEF Search!DebounceEnds, Search!chosen
  <2>2. /\ requestId \in Nat /\ typed \in SearchTexts /\ suggestions \in SearchTexts
        /\ \A r \in requests : r.id \in 0..requestId /\ r.text \in SearchTexts
    BY DEF SearchIInv, SearchSuggests
  <2>3. /\ requestId' \in Nat /\ typed' \in SearchTexts /\ suggestions' \in SearchTexts
        /\ \A r \in requests' : r.id \in 0..requestId' /\ r.text \in SearchTexts
    BY <2>1, <2>2
  <2>4. \A r \in requests' : r.id = requestId' => r.text = typed'
    BY <2>1, <2>2
  <2>5. \E r \in requests' : r.id = requestId'
    <3> DEFINE question == [id |-> requestId + 1, text |-> typed]
    <3>1. question \in requests' /\ question.id = requestId'
      BY <2>1
    <3> QED
      BY <3>1
  <2>6. "ignored" \notin excused' => (byHand' => typed' = inputValue')
    BY <2>1 DEF SearchIInv, SearchSuggests
  <2> QED
    BY <2>3, <2>4, <2>5, <2>6 DEF SearchSuggests
<1>2. SearchFollows' /\ SearchAsks'
  BY SearchPlaceStays DEF Search!DebounceEnds, Search!place, Search!sought, SearchIInv
<1>3. SearchRemembers'
  BY SearchRemembersStay DEF Search!DebounceEnds, SearchIInv
<1> QED
  BY <1>1, <1>2, <1>3 DEF SearchIInv

LEMMA SearchArriveKeeps ==
  ASSUME SearchIInv, NEW r \in requests, NEW found, Search!SuggestionsArrive(r, found)
  PROVE  SearchIInv'
<1>1. SearchSuggests'
  BY DEF SearchIInv, SearchSuggests, SearchTexts, Search!SuggestionsArrive, Search!chosen
<1>2. SearchFollows' /\ SearchAsks'
  BY SearchPlaceStays DEF Search!SuggestionsArrive, Search!place, Search!sought, SearchIInv
<1>3. SearchRemembers'
  BY SearchRemembersStay DEF Search!SuggestionsArrive, SearchIInv
<1> QED
  BY <1>1, <1>2, <1>3 DEF SearchIInv

\* What goes on top of the bounds in the URL may do so later.
LEMMA SearchAskedWhereStays ==
  ASSUME SearchFollows, SearchAsks, NEW p \in Cities \cup {Search!Elsewhere}, picks' = picks \cup {[of |-> p, view |-> view]},
         UNCHANGED <<Search!place, excused>>
  PROVE  SearchFollows' /\ SearchAsks'
<1>1. UNCHANGED <<city, map, moving, pendingCount, handled, landing, view, timers, asked, excused>>
  BY DEF Search!place, Search!sought
<1>2. SearchAgrees => SearchAgrees'
  BY <1>1 DEF SearchAgrees, SearchGoal, SearchFromAddress
<1>3. SearchInTime => SearchInTime'
  BY <1>1 DEF SearchInTime
<1>4. \A r \in picks' : r.of \in Cities \cup {Search!Elsewhere} /\ r.view \in Cities \cup {Search!Elsewhere}
  BY DEF SearchFollows
<1> QED
  BY <1>1, <1>2, <1>3, <1>4 DEF SearchFollows, SearchAsks

LEMMA SearchSuggestionKeeps ==
  ASSUME SearchIInv, Search!selectSuggestion
  PROVE  SearchIInv'
<1>1. SearchSuggests'
  BY SearchSelectedKeeps DEF Search!selectSuggestion, SearchIInv
<1>2. suggestions \in Cities
  BY DEF Search!selectSuggestion, SearchIInv, SearchSuggests, SearchTexts
<1>4. SearchFollows' /\ SearchAsks'
  BY <1>2, SearchAskedWhereStays DEF Search!selectSuggestion, SearchIInv
<1>3. SearchRemembers'
  BY SearchRemembersStay DEF Search!selectSuggestion, SearchIInv
<1> QED
  BY <1>1, <1>3, <1>4 DEF SearchIInv

LEMMA SearchForgetKeeps ==
  ASSUME Search!SearchAssumption, SearchIInv, Search!clearRecents
  PROVE  SearchIInv'
<1>1. SearchSuggests'
  BY SearchSuggestsStay DEF Search!clearRecents, Search!typing, Search!chosen, SearchIInv
<1>2. SearchFollows' /\ SearchAsks'
  BY SearchPlaceStays DEF Search!clearRecents, Search!place, Search!sought, SearchIInv
<1>3. SearchRemembers'
  BY DEF Search!clearRecents, Search!SearchAssumption, SearchRemembers
<1> QED
  BY <1>1, <1>2, <1>3 DEF SearchIInv

-----------------------------------------------------------------------------
(* The place. *)

\* With no search before it under way, the map is sent where the city is, and the timer
\* is started that asks for the sessions.
LEMMA SearchNavigationKeeps ==
  ASSUME Search!SearchAssumption, SearchFollows, SearchAsks, NEW p \in Cities,
         NEW v \in Cities \cup {Search!Elsewhere}, Search!applyMapNavigation(p, v),
         UNCHANGED <<map, handled, landing>>, picks' \subseteq picks
  PROVE  SearchFollows' /\ SearchAsks' /\ excused \cap SearchLasting \subseteq excused'
<1>1. /\ pendingCount' = pendingCount + 1 /\ city' = p /\ view' = v /\ timers' = timers + 1
      /\ asked' = asked
      /\ moving' = (IF p = map THEN Nothing ELSE p)
  BY DEF Search!applyMapNavigation, Search!GoTo
<1>2. /\ excused \cap SearchLasting \subseteq excused'
      /\ "stale" \in excused' \/ v = map
      /\ pendingCount > 0 \/ moving # Nothing => "settling" \in excused'
  BY DEF Search!applyMapNavigation, Search!Unsettled, Search!WrittenBack, SearchLasting
<1>3. /\ city' \in SearchTexts /\ pendingCount' \in Nat /\ landing' \in SearchLandings
      /\ view' \in Cities \cup {Search!Elsewhere}
      /\ moving' \in Cities \cup {Search!Elsewhere, Nothing}
      /\ landing'.step # "none" => landing'.city # Nothing /\ landing'.view # Nothing
      /\ \A r \in picks' : /\ r.of \in Cities \cup {Search!Elsewhere}
                           /\ r.view \in Cities \cup {Search!Elsewhere}
  BY <1>1 DEF SearchFollows, SearchTexts
<1>4. ASSUME pendingCount = 0, moving = Nothing, SearchAgrees
      PROVE  SearchAgrees'
  <2>1. landing.step = "none"
    BY <1>4 DEF SearchAgrees, SearchFollows, SearchLandings
  <2>2. SearchGoal' = p
    BY <1>1 DEF SearchGoal, Search!SearchAssumption
  <2> QED
    BY <1>1, <1>4, <2>1, <2>2 DEF SearchAgrees
<1>5. pendingCount \in Nat /\ ("settling" \notin excused => SearchAgrees)
  BY DEF SearchFollows
<1>6. SearchFollows'
  BY <1>2, <1>3, <1>4, <1>5 DEF SearchFollows, SearchLasting
<1>7. timers' \in Nat /\ timers' > 0
  BY <1>1 DEF SearchAsks
<1>8. SearchAsks'
  BY <1>1, <1>2, <1>7 DEF SearchAsks, SearchInTime
<1> QED
  BY <1>2, <1>6, <1>8

LEMMA SearchRecentKeeps ==
  ASSUME Search!SearchAssumption, SearchIInv, NEW p \in Cities, Search!SelectRecent(p)
  PROVE  SearchIInv'
<1>1. CASE p = selectedItem
  <2>1. SearchSuggests' /\ excused \subseteq excused'
    BY <1>1, SearchChangeKeeps DEF Search!SelectRecent, SearchIInv, SearchTexts
  <2>2. SearchFollows' /\ SearchAsks'
    BY <1>1, <2>1, SearchPlaceStays DEF Search!SelectRecent, Search!sought, SearchIInv
  <2>3. SearchRemembers'
    BY <1>1, SearchRemembersStay DEF Search!SelectRecent, SearchIInv
  <2> QED
    BY <2>1, <2>2, <2>3 DEF SearchIInv
<1>2. CASE p # selectedItem
  <2>1. /\ Search!Selected(p) /\ Search!applyMapNavigation(p, view) /\ Search!addRecent(p)
        /\ UNCHANGED <<map, handled, landing, picks>>
    BY <1>2 DEF Search!SelectRecent
  <2>2. view \in Cities \cup {Search!Elsewhere}
    BY DEF SearchIInv, SearchFollows
  <2>3. SearchFollows' /\ SearchAsks' /\ excused \cap SearchLasting \subseteq excused'
    BY <2>1, <2>2, SearchNavigationKeeps DEF SearchIInv
  <2>4. SearchSuggests'
    BY <2>1, <2>3, SearchSelectedKeeps DEF SearchIInv
  <2>5. SearchRemembers'
    BY <2>1, SearchRecentFits DEF SearchIInv
  <2> QED
    BY <2>3, <2>4, <2>5 DEF SearchIInv
<1> QED
  BY <1>1, <1>2

LEMMA SearchPickKeeps ==
  ASSUME Search!SearchAssumption, SearchIInv, NEW r \in picks, Search!handleSelect(r)
  PROVE  SearchIInv'
<1>1. /\ UNCHANGED <<inputValue, typed, suggestions, debounce, requests, requestId, byHand>>
      /\ picks' \subseteq picks
  BY DEF Search!handleSelect, Search!typing
<1>2. CASE UNCHANGED <<recents, city, map, moving, pendingCount, handled, landing, view, timers,
                       asked, excused>>
  BY <1>1, <1>2, SearchSuggestsStay, SearchPlaceStays, SearchRemembersStay DEF SearchIInv
<1>3. CASE /\ Search!applyMapNavigation(r.of, r.view) /\ Search!addRecent(r.of)
           /\ UNCHANGED <<map, handled, landing>>
  <2>1. r.of \in Cities /\ r.view \in Cities \cup {Search!Elsewhere}
    BY DEF Search!handleSelect, SearchIInv, SearchFollows
  <2>2. SearchFollows' /\ SearchAsks' /\ excused \cap SearchLasting \subseteq excused'
    BY <1>1, <1>3, <2>1, SearchNavigationKeeps DEF SearchIInv
  <2>3. SearchSuggests'
    BY <1>1, <2>2, SearchSuggestsStay DEF SearchIInv
  <2>4. SearchRemembers'
    BY <1>3, <2>1, SearchRecentFits DEF SearchIInv
  <2> QED
    BY <2>2, <2>3, <2>4 DEF SearchIInv
<1> QED
  BY <1>2, <1>3 DEF Search!handleSelect, Search!place, Search!sought

LEMMA SearchClearKeeps ==
  ASSUME SearchIInv, city \in {Nothing, handled}, Search!handleClearInput
  PROVE  SearchIInv'
<1>1. /\ city' = Nothing /\ excused' = excused \cup Search!Cleared(Nothing)
      /\ UNCHANGED <<map, moving, pendingCount, handled, landing, view, timers, asked, picks>>
  BY DEF Search!handleClearInput, Search!sought, Search!Empty
<1>2. SearchSuggests'
  BY <1>1, SearchInputKeeps DEF Search!handleClearInput, Search!Empty, SearchIInv, SearchTexts
<1>3. SearchFollows'
  <2>1. SearchAgrees => SearchAgrees'
    BY <1>1 DEF SearchAgrees
  <2> QED
    BY <1>1, <2>1 DEF SearchIInv, SearchFollows, SearchTexts
<1>4. SearchAsks'
  <2>1. SearchInTime => SearchInTime'
    BY <1>1 DEF SearchInTime
  <2> QED
    BY <1>1, <2>1 DEF SearchIInv, SearchAsks
<1>5. SearchRemembers'
  BY SearchRemembersStay DEF Search!handleClearInput, SearchIInv
<1> QED
  BY <1>2, <1>3, <1>4, <1>5 DEF SearchIInv

LEMMA SearchLocationKeeps ==
  ASSUME SearchIInv, Search!handleBrowserLocation
  PROVE  SearchIInv'
<1>1. SearchSuggests'
  BY SearchSuggestsStay DEF Search!handleBrowserLocation, Search!typing, Search!chosen, SearchIInv
<1>2. SearchFollows' /\ SearchAsks'
  BY SearchAskedWhereStays DEF Search!handleBrowserLocation, SearchIInv
<1>3. SearchRemembers'
  BY SearchRemembersStay DEF Search!handleBrowserLocation, SearchIInv
<1> QED
  BY <1>1, <1>2, <1>3 DEF SearchIInv

LEMMA SearchLocatedKeeps ==
  ASSUME SearchIInv, city \in {Nothing, handled}, NEW r \in picks, Search!Located(r)
  PROVE  SearchIInv'
<1>1. SearchRemembers'
  BY SearchRemembersStay DEF Search!Located, SearchIInv
<1>2. CASE UNCHANGED <<Search!typing, byHand, Search!place, excused>>
  <2>1. SearchSuggests'
    BY <1>2, SearchSuggestsStay DEF Search!typing, SearchIInv
  <2>2. SearchFollows' /\ SearchAsks'
    BY <1>2, SearchPlaceStays DEF Search!Located, Search!place, Search!sought, SearchIInv
  <2> QED
    BY <1>1, <2>1, <2>2 DEF SearchIInv
<1>3. CASE ~UNCHANGED <<Search!typing, byHand, Search!place, excused>>
  <2>1. /\ inputValue' = Nothing /\ Search!setInput(Nothing) /\ UNCHANGED <<requests, requestId>>
        /\ city' = Nothing /\ view' = r.view /\ timers' = timers + 1
        /\ UNCHANGED <<map, pendingCount, handled, landing, asked>> /\ picks' \subseteq picks
        /\ moving' \in {Nothing, Search!Elsewhere}
        /\ excused' = (excused \ {"stale"}) \cup Search!Cleared(Nothing) \cup Search!Unsettled
                        \cup Search!WrittenBack(r.view, map)
    BY <1>3 DEF Search!Located, Search!getBrowserLocation, Search!GoTo, Search!Empty
  <2>2. /\ excused \cap SearchLasting \subseteq excused' /\ Search!Cleared(Nothing) \subseteq excused'
        /\ "stale" \in excused' \/ r.view = map
        /\ pendingCount > 0 \/ moving # Nothing => "settling" \in excused'
    BY <2>1 DEF Search!Unsettled, Search!WrittenBack, SearchLasting
  <2>3. SearchSuggests'
    BY <2>1, <2>2, SearchInputKeeps DEF SearchIInv, SearchTexts
  <2>4. r.view \in Cities \cup {Search!Elsewhere}
    BY DEF SearchIInv, SearchFollows
  <2>5. SearchFollows'
    <3>1. ASSUME SearchAgrees, pendingCount = 0, moving = Nothing PROVE SearchAgrees'
      BY <2>1, <3>1 DEF SearchAgrees, SearchIInv, SearchFollows, SearchLandings
    <3>2. /\ pendingCount \in Nat /\ landing \in SearchLandings
          /\ "settling" \notin excused => SearchAgrees
          /\ landing.step # "none" => landing.city # Nothing /\ landing.view # Nothing
          /\ \A s \in picks' : /\ s.of \in Cities \cup {Search!Elsewhere}
                               /\ s.view \in Cities \cup {Search!Elsewhere}
      BY <2>1 DEF SearchIInv, SearchFollows
    <3> QED
      BY <2>1, <2>2, <2>4, <3>1, <3>2 DEF SearchFollows, SearchTexts, SearchLasting
  <2>6. timers' \in Nat /\ timers' > 0
    BY <2>1 DEF SearchIInv, SearchAsks
  <2>7. SearchAsks'
    BY <2>1, <2>2, <2>6 DEF SearchAsks, SearchInTime
  <2> QED
    BY <1>1, <2>3, <2>5, <2>7 DEF SearchIInv
<1> QED
  BY <1>2, <1>3

LEMMA SearchTimerKeeps ==
  ASSUME SearchIInv, city \in {Nothing, handled}, Search!FetchTimerEnds
  PROVE  SearchIInv'
<1>1. /\ timers > 0 /\ timers' = timers - 1 /\ asked' = view
      /\ UNCHANGED <<city, map, moving, pendingCount, handled, landing, view, picks>>
  BY DEF Search!FetchTimerEnds
<1>2. /\ excused \cap SearchLasting \subseteq excused'
      /\ "stale" \in excused <=> "stale" \in excused'
      /\ "settling" \in excused <=> "settling" \in excused'
      /\ moving # Nothing => "early" \in excused'
  BY DEF Search!FetchTimerEnds, SearchLasting
<1>3. SearchSuggests'
  BY <1>2, SearchSuggestsStay DEF Search!FetchTimerEnds, Search!typing, Search!chosen, SearchIInv
<1>4. SearchFollows'
  <2>1. SearchAgrees => SearchAgrees'
    BY <1>1 DEF SearchAgrees, SearchGoal, SearchFromAddress
  <2> QED
    BY <1>1, <1>2, <2>1 DEF SearchIInv, SearchFollows
<1>5. SearchAsks'
  <2>1. timers' \in Nat
    BY <1>1 DEF SearchIInv, SearchAsks
  <2>2. SearchInTime'
    BY <1>1, <1>2 DEF SearchInTime
  <2> QED
    BY <1>1, <1>2, <2>1, <2>2 DEF SearchIInv, SearchAsks
<1>6. SearchRemembers'
  BY SearchRemembersStay DEF Search!FetchTimerEnds, SearchIInv
<1> QED
  BY <1>3, <1>4, <1>5, <1>6 DEF SearchIInv

-----------------------------------------------------------------------------
(* The map rests. *)

\* An advertisement's move ended: its city stays if it has bounds, and what is asked for
\* is what the URL has or had.
LEMMA SearchFinalKeeps ==
  ASSUME Search!SearchAssumption, SearchFollows, SearchAsks, NEW there, NEW e,
         excused \subseteq e, landing.step = "moving", Search!finalize(there, e),
         map' = there, moving' = Nothing, UNCHANGED <<handled, timers, picks>>,
         moving = there \/ pendingCount = 0 \/ "settling" \in e
  PROVE  SearchFollows' /\ SearchAsks' /\ excused \cap SearchLasting \subseteq excused'
<1>1. /\ pendingCount' = (IF pendingCount > 0 THEN pendingCount - 1 ELSE 0)
      /\ city' = (IF landing.bounds THEN landing.city ELSE Nothing)
      /\ landing' = Search!NoLanding
      /\ Search!FetchWith(Search!restored, there, e)
  BY DEF Search!finalize, Search!disarmCitySettle
<1>2. /\ view' = Search!restored
      /\ excused \cap SearchLasting \subseteq excused'
      /\ "settling" \in e => "settling" \in excused'
      /\ "stale" \in excused' \/ Search!restored = there
      /\ asked' = view' \/ "early" \in excused'
  BY <1>1 DEF Search!FetchWith, Search!WrittenBack, SearchLasting
<1>3. /\ pendingCount \in Nat /\ landing \in SearchLandings
      /\ landing.city \in Cities /\ landing.view \in Cities \cup {Search!Elsewhere}
      /\ "settling" \notin excused' => SearchAgrees
  BY <1>2 DEF SearchFollows, SearchLandings, SearchTexts, SearchLasting
<1>4. Search!NoLanding \in SearchLandings /\ Search!NoLanding.step = "none"
  BY DEF Search!NoLanding, SearchLandings, SearchTexts
<1>5. /\ city' \in SearchTexts /\ pendingCount' \in Nat /\ landing' \in SearchLandings
      /\ view' \in Cities \cup {Search!Elsewhere}
  BY <1>1, <1>2, <1>3, <1>4 DEF SearchTexts, Search!restored
<1>6. ASSUME "settling" \notin excused'
      PROVE  SearchAgrees' /\ SearchInTime'
  <2>1. /\ SearchAgrees /\ moving = there /\ pendingCount = 1
        /\ handled = landing.city /\ there = landing.city
    BY <1>2, <1>3, <1>6 DEF SearchAgrees
  <2>2. city' \in {Nothing, there} /\ city' \in {Nothing, handled'} /\ pendingCount' = 0
    BY <1>1, <2>1
  <2>3. SearchAgrees'
    BY <1>1, <1>4, <2>2 DEF SearchAgrees, SearchGoal
  <2> QED
    BY <1>2, <2>2, <2>3 DEF SearchInTime
<1>7. \A r \in picks' : r.of \in Cities \cup {Search!Elsewhere} /\ r.view \in Cities \cup {Search!Elsewhere}
  BY DEF SearchFollows
<1>8. SearchFollows'
  BY <1>1, <1>4, <1>5, <1>6, <1>7 DEF SearchFollows
<1>9. SearchAsks'
  BY <1>2, <1>6 DEF SearchAsks
<1> QED
  BY <1>2, <1>8, <1>9

\* Any other rest: the city that is kept is the one that was gone to.
LEMMA SearchHandledKeeps ==
  ASSUME SearchFollows, SearchAsks, city \in {Nothing, handled},
         NEW there \in Cities \cup {Search!Elsewhere}, NEW e,
         excused \subseteq e, landing.step # "moving", Search!handleMapIdle(there),
         excused' = e \ {"stale"}, map' = there, moving' = Nothing,
         UNCHANGED <<handled, timers, picks, landing, asked>>,
         \/ moving # Nothing /\ moving = there
         \/ "moved" \in e /\ ((pendingCount = 0 /\ moving = Nothing) \/ "settling" \in e)
  PROVE  SearchFollows' /\ SearchAsks' /\ excused \cap SearchLasting \subseteq excused'
<1>1. /\ pendingCount' = (IF pendingCount > 0 THEN pendingCount - 1 ELSE 0)
      /\ city' = (IF pendingCount > 0 THEN city ELSE Nothing)
      /\ view' = there
  BY DEF Search!handleMapIdle, Search!disarmCitySettle
<1>2. /\ excused \cap SearchLasting \subseteq excused'
      /\ "settling" \in e => "settling" \in excused'
      /\ "early" \in excused => "early" \in excused'
      /\ "moved" \in e => "moved" \in excused'
  BY DEF SearchLasting
<1>3. /\ city \in SearchTexts /\ pendingCount \in Nat /\ landing \in SearchLandings
      /\ "settling" \notin excused' => SearchAgrees /\ SearchInTime
  BY <1>2 DEF SearchFollows, SearchAsks, SearchLasting
<1>4. /\ city' \in SearchTexts /\ pendingCount' \in Nat /\ city' \in {Nothing, handled'}
  BY <1>1, <1>3 DEF SearchTexts
<1>5. ASSUME "settling" \notin excused'
      PROVE  SearchAgrees'
  <2>1. SearchAgrees /\ landing.step \in {"none", "asked"}
    BY <1>3, <1>5 DEF SearchLandings
  <2>2. pendingCount = 0 \/ (moving = there /\ moving # Nothing)
    BY <1>2, <1>5
  <2>3. landing.step = "none"
    BY <1>2, <1>5, <2>1, <2>2 DEF SearchAgrees
  <2>4. pendingCount' = 0 /\ city' \in {Nothing, there}
    BY <1>1, <2>1, <2>2, <2>3 DEF SearchAgrees, SearchGoal, SearchFromAddress
  <2> QED
    BY <1>4, <2>3, <2>4 DEF SearchAgrees, SearchGoal
<1>6. ASSUME "settling" \notin excused'
      PROVE  SearchInTime'
  <2>1. timers > 0 \/ "early" \in excused' \/ "moved" \in excused'
    BY <1>2, <1>3, <1>6 DEF SearchInTime
  <2> QED
    BY <1>4, <2>1 DEF SearchInTime
<1>7. SearchFollows'
  BY <1>1, <1>4, <1>5 DEF SearchFollows
<1>8. SearchAsks'
  BY <1>1, <1>6 DEF SearchAsks
<1> QED
  BY <1>2, <1>7, <1>8

LEMMA SearchIdleKeeps ==
  ASSUME Search!SearchAssumption, SearchIInv, city \in {Nothing, handled},
         NEW there \in Cities \cup {Search!Elsewhere}, NEW e,
         Search!Idle(there, e), excused \subseteq e,
         \/ moving # Nothing /\ moving = there
         \/ "moved" \in e /\ ((pendingCount = 0 /\ moving = Nothing) \/ "settling" \in e)
  PROVE  SearchIInv'
<1>1. /\ map' = there /\ moving' = Nothing
      /\ UNCHANGED <<handled, timers, picks, recents>>
  BY DEF Search!Idle
<1>2. SearchFollows /\ SearchAsks
  BY DEF SearchIInv
<1>3. SearchFollows' /\ SearchAsks' /\ excused \cap SearchLasting \subseteq excused'
  <2>1. CASE landing.step = "moving"
    <3>1. Search!finalize(there, e)
      BY <2>1 DEF Search!Idle
    <3> QED
      BY <1>1, <1>2, <2>1, <3>1, SearchFinalKeeps
  <2>2. CASE landing.step # "moving"
    <3>1. /\ Search!handleMapIdle(there) /\ excused' = e \ {"stale"}
          /\ UNCHANGED <<landing, asked>>
      BY <2>2 DEF Search!Idle
    <3> QED
      BY <1>1, <1>2, <2>2, <3>1, SearchHandledKeeps
  <2> QED
    BY <2>1, <2>2
<1>4. SearchSuggests'
  BY <1>3, SearchSuggestsStay DEF Search!Idle, Search!typing, Search!chosen, SearchIInv
<1>5. SearchRemembers'
  BY <1>1, SearchRemembersStay DEF SearchIInv
<1> QED
  BY <1>3, <1>4, <1>5 DEF SearchIInv

LEMMA SearchRestsKeeps ==
  ASSUME Search!SearchAssumption, SearchIInv, city \in {Nothing, handled},
         Search!MapRests \/ Search!UserMoves
  PROVE  SearchIInv'
<1>1. pendingCount \in Nat /\ moving \in Cities \cup {Search!Elsewhere, Nothing}
  BY DEF SearchIInv, SearchFollows
<1>2. CASE Search!MapRests
  <2>1. moving # Nothing /\ Search!Idle(moving, excused) /\ moving \in Cities \cup {Search!Elsewhere}
    BY <1>1, <1>2 DEF Search!MapRests
  <2> QED
    BY <2>1, SearchIdleKeeps
<1>3. CASE Search!UserMoves
  <2> DEFINE e == excused \cup {"moved"} \cup Search!Unsettled
  <2>1. PICK there \in {Search!Elsewhere} \cup Cities : Search!Idle(there, e)
    BY <1>3 DEF Search!UserMoves
  <2>2. /\ excused \subseteq e /\ "moved" \in e
        /\ pendingCount > 0 \/ moving # Nothing => "settling" \in e
    BY DEF Search!Unsettled
  <2> HIDE DEF e
  <2>3. (pendingCount = 0 /\ moving = Nothing) \/ "settling" \in e
    BY <1>1, <2>2
  <2> QED
    BY <2>1, <2>2, <2>3, SearchIdleKeeps
<1> QED
  BY <1>2, <1>3

LEMMA SearchTimeoutKeeps ==
  ASSUME SearchIInv, city \in {Nothing, handled}, Search!SettleTimeout
  PROVE  SearchIInv'
<1>1. /\ pendingCount' = 0 /\ excused \subseteq excused'
      /\ (moving = Nothing /\ landing = Search!NoLanding) \/ "settling" \in excused'
      /\ UNCHANGED <<city, map, moving, handled, landing, view, timers, asked, picks>>
  BY DEF Search!SettleTimeout, Search!sought
<1>2. SearchSuggests'
  BY <1>1, SearchSuggestsStay DEF Search!SettleTimeout, Search!typing, Search!chosen, SearchIInv
<1>3. SearchFollows'
  <2>1. ASSUME SearchAgrees, landing = Search!NoLanding
        PROVE  SearchAgrees'
    BY <1>1, <2>1 DEF SearchAgrees, SearchGoal, SearchFromAddress, Search!NoLanding
  <2> QED
    BY <1>1, <2>1 DEF SearchIInv, SearchFollows
<1>4. SearchAsks'
  <2>1. SearchInTime => SearchInTime'
    BY <1>1 DEF SearchInTime
  <2> QED
    BY <1>1, <2>1 DEF SearchIInv, SearchAsks
<1>5. SearchRemembers'
  BY SearchRemembersStay DEF Search!SettleTimeout, SearchIInv
<1> QED
  BY <1>2, <1>3, <1>4, <1>5 DEF SearchIInv

-----------------------------------------------------------------------------
(* The city of an advertisement. *)

LEMMA SearchLandsKeeps ==
  ASSUME Search!SearchAssumption, SearchIInv, Search!Lands
  PROVE  SearchIInv'
<1>1. /\ city \notin {Nothing, handled} /\ handled' = city
      /\ UNCHANGED <<city, map, moving, excused, view, timers, asked, picks>>
  BY DEF Search!Lands, Search!sought
<1>2. SearchSuggests'
  BY SearchSuggestsStay DEF Search!Lands, Search!typing, Search!chosen, SearchIInv
<1>3. SearchRemembers'
  BY SearchRemembersStay DEF Search!Lands, SearchIInv
<1>4. /\ SearchFollows /\ SearchAsks /\ city \in SearchTexts /\ pendingCount \in Nat
      /\ landing \in SearchLandings /\ view \in Cities \cup {Search!Elsewhere}
  BY DEF SearchIInv, SearchFollows
<1>5. CASE pendingCount > 0
  <2>1. UNCHANGED <<pendingCount, landing>>
    BY <1>5 DEF Search!Lands
  <2>2. SearchAgrees => SearchAgrees'
    BY <1>1, <1>5, <2>1 DEF SearchAgrees, SearchGoal, SearchFromAddress
  <2>3. SearchInTime => SearchInTime'
    BY <1>1, <1>4, <1>5, <2>1 DEF SearchInTime
  <2>4. SearchFollows'
    BY <1>1, <1>4, <2>1, <2>2 DEF SearchFollows
  <2>5. SearchAsks'
    BY <1>1, <1>4, <2>3 DEF SearchAsks
  <2> QED
    BY <1>2, <1>3, <2>4, <2>5 DEF SearchIInv
<1>6. CASE pendingCount = 0
  <2>1. /\ pendingCount' = 1
        /\ landing' = [city |-> city, step |-> "asked", bounds |-> FALSE, view |-> view]
    BY <1>6 DEF Search!Lands
  <2>2. /\ landing' \in SearchLandings /\ landing'.city = city /\ landing'.step = "asked"
        /\ landing'.city # Nothing /\ landing'.view # Nothing
    BY <1>1, <1>4, <2>1 DEF SearchLandings, Search!SearchAssumption
  <2>3. ASSUME SearchAgrees
        PROVE  SearchAgrees' /\ moving = Nothing
    <3>1. landing.step \in {"none", "asked", "moving"}
      BY <1>4 DEF SearchLandings
    <3>2. moving = Nothing /\ map = Search!Elsewhere
      BY <1>1, <1>6, <2>3, <3>1 DEF SearchAgrees, SearchFromAddress
    <3> QED
      BY <1>1, <2>1, <2>2, <3>2 DEF SearchAgrees
  <2>4. moving = Nothing => SearchInTime'
    BY <1>1, <2>2 DEF SearchInTime
  <2>5. SearchFollows'
    BY <1>1, <1>4, <2>1, <2>2, <2>3 DEF SearchFollows
  <2>6. SearchAsks'
    BY <1>1, <1>4, <2>3, <2>4 DEF SearchAsks, SearchFollows
  <2> QED
    BY <1>2, <1>3, <2>5, <2>6 DEF SearchIInv
<1> QED
  BY <1>4, <1>5, <1>6

LEMMA SearchGeocodedKeeps ==
  ASSUME SearchIInv, city \in {Nothing, handled}, NEW viewport \in BOOLEAN,
         Search!Geocoded(viewport)
  PROVE  SearchIInv'
<1> DEFINE bounds == Search!determineZoomLevel(landing.city, viewport)
<1>1. /\ landing.step = "asked" /\ excused \subseteq excused'
      /\ map = landing.city \/ moving # Nothing => "settling" \in excused'
      /\ moving' = (IF landing.city = map THEN Nothing ELSE landing.city)
      /\ landing' = [landing EXCEPT !.step = "moving", !.bounds = bounds]
      /\ UNCHANGED <<city, map, pendingCount, handled, view, timers, asked, picks>>
  BY DEF Search!Geocoded, Search!GoTo, Search!sought
<1>2. SearchSuggests'
  BY <1>1, SearchSuggestsStay DEF Search!Geocoded, Search!typing, Search!chosen, SearchIInv
<1>3. SearchRemembers'
  BY SearchRemembersStay DEF Search!Geocoded, SearchIInv
<1>4. bounds \in BOOLEAN
  BY DEF Search!determineZoomLevel
<1> HIDE DEF bounds
<1>5. landing \in SearchLandings /\ landing.city # Nothing /\ landing.view # Nothing
  BY <1>1 DEF SearchIInv, SearchFollows
<1>6. /\ landing' \in SearchLandings /\ landing'.step = "moving"
      /\ landing'.city = landing.city /\ landing'.view = landing.view
  BY <1>1, <1>4, <1>5 DEF SearchLandings
<1>7. ASSUME SearchAgrees, map # landing.city
      PROVE  SearchAgrees'
  BY <1>1, <1>6, <1>7 DEF SearchAgrees
<1>8. moving' \in Cities \cup {Search!Elsewhere, Nothing}
  BY <1>1, <1>5 DEF SearchLandings, SearchTexts
<1>9. SearchFollows'
  BY <1>1, <1>5, <1>6, <1>7, <1>8 DEF SearchIInv, SearchFollows
<1>10. SearchInTime'
  BY <1>6 DEF SearchInTime
<1>11. SearchAsks'
  BY <1>1, <1>10 DEF SearchIInv, SearchAsks
<1> QED
  BY <1>2, <1>3, <1>9, <1>11 DEF SearchIInv

LEMMA SearchFellBackKeeps ==
  ASSUME SearchIInv, Search!FellBack
  PROVE  SearchIInv'
<1>1. /\ landing.step = "asked" /\ landing' = [landing EXCEPT !.step = "moving"]
      /\ city' = landing.city /\ view' = landing.view
      /\ moving' \in {Nothing, Search!Elsewhere}
      /\ excused' = (excused \ {"stale"}) \cup {"settling"} \cup Search!WrittenBack(landing.view, map)
      /\ UNCHANGED <<map, pendingCount, handled, timers, asked, picks>>
  BY DEF Search!FellBack, Search!getBrowserLocation, Search!GoTo
<1>2. /\ excused \cap SearchLasting \subseteq excused' /\ "settling" \in excused'
      /\ "stale" \in excused' \/ landing.view = map
  BY <1>1 DEF Search!WrittenBack, SearchLasting
<1>3. SearchSuggests'
  BY <1>2, SearchSuggestsStay DEF Search!FellBack, Search!typing, Search!chosen, SearchIInv
<1>4. SearchRemembers'
  BY SearchRemembersStay DEF Search!FellBack, SearchIInv
<1>5. landing \in SearchLandings /\ landing.city # Nothing /\ landing.view # Nothing
  BY <1>1 DEF SearchIInv, SearchFollows
<1>6. /\ landing' \in SearchLandings /\ landing'.city = landing.city /\ landing'.view = landing.view
      /\ city' \in SearchTexts /\ view' \in Cities \cup {Search!Elsewhere}
  BY <1>1, <1>5 DEF SearchLandings
<1>7. SearchFollows'
  BY <1>1, <1>2, <1>5, <1>6 DEF SearchIInv, SearchFollows
<1>8. SearchAsks'
  BY <1>1, <1>2 DEF SearchIInv, SearchAsks
<1> QED
  BY <1>3, <1>4, <1>7, <1>8 DEF SearchIInv

LEMMA SearchNotFoundKeeps ==
  ASSUME SearchIInv, Search!NotFound
  PROVE  SearchIInv'
<1> DEFINE e == IF moving = Nothing THEN excused ELSE excused \cup {"settling"}
<1>1. /\ landing.step = "asked" /\ landing' = Search!NoLanding /\ city' = Nothing
      /\ Search!FetchWith(landing.view, map, e)
      /\ UNCHANGED <<map, moving, pendingCount, handled, timers, picks>>
  BY DEF Search!NotFound
<1>2. /\ view' = landing.view
      /\ excused \cap SearchLasting \subseteq excused'
      /\ moving # Nothing => "settling" \in excused'
      /\ "stale" \in excused' \/ view' = map
      /\ asked' = view' \/ "early" \in excused'
  BY <1>1 DEF Search!FetchWith, Search!WrittenBack, SearchLasting
<1>3. SearchSuggests'
  BY <1>2, SearchSuggestsStay DEF Search!NotFound, Search!typing, Search!chosen, SearchIInv
<1>4. SearchRemembers'
  BY SearchRemembersStay DEF Search!NotFound, SearchIInv
<1>5. landing \in SearchLandings /\ landing.view # Nothing
  BY <1>1 DEF SearchIInv, SearchFollows
<1>6. /\ landing' \in SearchLandings /\ landing'.step = "none"
      /\ city' \in SearchTexts /\ view' \in Cities \cup {Search!Elsewhere}
  BY <1>1, <1>2, <1>5 DEF Search!NoLanding, SearchLandings, SearchTexts
<1>7. SearchAgrees => SearchAgrees'
  BY <1>1, <1>6 DEF SearchAgrees
<1>8. SearchFollows'
  BY <1>1, <1>2, <1>6, <1>7 DEF SearchIInv, SearchFollows, SearchLasting
<1>9. moving = Nothing => SearchInTime'
  BY <1>1, <1>2 DEF SearchInTime
<1>10. SearchAsks'
  BY <1>1, <1>2, <1>9 DEF SearchIInv, SearchAsks
<1> QED
  BY <1>3, <1>4, <1>8, <1>10 DEF SearchIInv

-----------------------------------------------------------------------------
(* The invariant holds, and what follows. *)

LEMMA SearchInitHolds == Search!SearchAssumption /\ Search!Init => SearchIInv
<1> SUFFICES ASSUME Search!SearchAssumption, Search!Init PROVE SearchIInv
  OBVIOUS
<1>1. SearchSuggests
  BY DEF Search!Init, Search!Empty, SearchSuggests, SearchTexts
<1>2. SearchFollows
  BY DEF Search!Init, SearchFollows, SearchAgrees, SearchGoal, SearchFromAddress, Search!NoLanding,
    SearchLandings, SearchTexts
<1>3. SearchAsks
  BY DEF Search!Init, SearchAsks, SearchInTime
<1>4. SearchRemembers
  <2>1. CASE recents = << >>
    BY <2>1 DEF SearchRemembers, Search!SearchAssumption
  <2>2. CASE \E p \in Cities : recents = <<p>>
    BY <2>2 DEF SearchRemembers, Search!SearchAssumption
  <2> QED
    BY <2>1, <2>2 DEF Search!Init
<1> QED
  BY <1>1, <1>2, <1>3, <1>4 DEF SearchIInv

LEMMA SearchPageKeeps ==
  ASSUME Search!SearchAssumption, SearchIInv, city \in {Nothing, handled}, Search!Page
  PROVE  SearchIInv'
<1>1. CASE \/ \E text \in Cities \cup {Search!Empty} : Search!Type(text)
           \/ Search!handleClearInput \/ Search!DebounceEnds
           \/ \E r \in requests, found \in {"ok", "no_results", "error"} : Search!SuggestionsArrive(r, found)
  BY <1>1, SearchTypeKeeps, SearchClearKeeps, SearchDebounceKeeps, SearchArriveKeeps DEF Search!Empty, SearchTexts
<1>2. CASE \/ \E p \in Cities : Search!SelectRecent(p)
           \/ \E r \in picks : Search!handleSelect(r) \/ Search!Located(r)
  BY <1>2, SearchRecentKeeps, SearchPickKeeps, SearchLocatedKeeps
<1>3. CASE Search!selectSuggestion \/ Search!clearRecents \/ Search!handleBrowserLocation
  BY <1>3, SearchSuggestionKeeps, SearchForgetKeeps, SearchLocationKeeps
<1>4. CASE Search!FetchTimerEnds \/ Search!MapRests \/ Search!UserMoves \/ Search!SettleTimeout
  BY <1>4, SearchTimerKeeps, SearchRestsKeeps, SearchTimeoutKeeps
<1>5. CASE (\E viewport \in BOOLEAN : Search!Geocoded(viewport)) \/ Search!FellBack \/ Search!NotFound
  BY <1>5, SearchGeocodedKeeps, SearchFellBackKeeps, SearchNotFoundKeeps
<1> QED
  BY <1>1, <1>2, <1>3, <1>4, <1>5 DEF Search!Page

LEMMA SearchNextKeeps ==
  Search!SearchAssumption /\ SearchIInv /\ [Search!Next]_(Search!vars) => SearchIInv'
<1> SUFFICES ASSUME Search!SearchAssumption, SearchIInv, [Search!Next]_(Search!vars)
             PROVE  SearchIInv'
  OBVIOUS
<1>1. CASE UNCHANGED Search!vars
  BY <1>1, SearchSuggestsStay, SearchPlaceStays, SearchRemembersStay
  DEF Search!vars, Search!typing, Search!chosen, Search!place, Search!sought, SearchIInv
<1>2. CASE Search!Lands
  BY <1>2, SearchLandsKeeps
<1>3. CASE city \in {Nothing, handled} /\ Search!Page
  BY <1>3, SearchPageKeeps
<1> QED
  BY <1>1, <1>2, <1>3 DEF Search!Next

LEMMA SearchInvImplies == SearchIInv => Search!SearchIsSettled
<1> SUFFICES ASSUME SearchIInv PROVE Search!SearchIsSettled
  OBVIOUS
<1>1. Search!Typed => suggestions \in {Nothing, typed} /\ (byHand => typed = inputValue)
  BY DEF Search!Typed, SearchIInv, SearchSuggests
<1>2. ASSUME Search!Settled
      PROVE  SearchAgrees /\ SearchInTime /\ landing.step = "none"
  <2>1. SearchAgrees /\ SearchInTime
    BY <1>2 DEF Search!Settled, SearchIInv, SearchFollows, SearchAsks
  <2>2. landing.step = "none"
    BY <1>2, <2>1 DEF Search!Settled, SearchAgrees, SearchIInv, SearchFollows, SearchLandings
  <2> QED
    BY <2>1, <2>2
<1>3. Search!Settled => city \in {Nothing, map}
  BY <1>2 DEF Search!Settled, SearchAgrees, SearchGoal, SearchFromAddress
<1>4. Search!Settled /\ timers = 0 /\ excused \cap {"early", "moved", "stale"} = {} => asked = map
  BY <1>2 DEF Search!Settled, SearchInTime, SearchIInv, SearchAsks
<1>5. Len(recents) <= Capacity /\ Search!IsInjective(recents)
  BY DEF SearchIInv, SearchRemembers, Search!IsInjective
<1> QED
  BY <1>1, <1>3, <1>4, <1>5 DEF Search!SearchIsSettled

-----------------------------------------------------------------------------
(* The lists of sessions. *)

ListsUrls == [kind : Kinds, query : Queries, offset : Nat, fetched : Nat, limit : Nat]
ListsCalls ==
  [kind : Kinds, query : Queries, offset : Nat, limit : Nat, more : BOOLEAN, at : ListsUrls,
   length : Nat]
ListsNets ==
  [lists : [Kinds -> Seq(Kinds \X Queries \X Nat)], count : [Lists!Slices -> Nat],
   pending : SUBSET Lists!Slices, calls : SUBSET ListsCalls]
ListsGoals == [kind : Kinds, query : Queries, size : Nat]

ListsTypeInv ==
  /\ url \in ListsUrls /\ net \in ListsNets /\ wanted \in ListsGoals
  /\ fetchingData \in BOOLEAN /\ isFirstRender \in BOOLEAN

\* What is to be fetched is fetched by the next render.
ListsFlagged == fetchingData \/ isFirstRender => due # {}

\* One request for mobile sessions is under way at a time.
ListsOneMobile(n) ==
  \A c \in n.calls :
    c.kind = "mobile" => "mobile" \in n.pending /\ \A d \in n.calls : d.kind = "mobile" => c = d

\* Whose page a request is for.
ListsCallsFit(n) ==
  \A c \in n.calls :
    /\ c.query = c.at.query
    /\ ~c.more => c.kind = c.at.kind
    /\ c.more => c.kind \in {"mobile", "dormant"} /\ (c.kind = "dormant" => c.at.kind = "dormant")

\* The request c is to the slice of the list that is wanted.
ListsOurs(c) == Lists!SliceOf(c.kind) = Lists!SliceOf(wanted.kind)

\* The first page was asked for.
ListsAsked ==
  \E c \in net.calls :
    /\ ~c.more /\ c.offset = 0
    /\ c.kind = wanted.kind /\ c.query = wanted.query /\ c.limit = wanted.size

\* It is there, and another one may be on its way.
ListsThere ==
  LET got == net.lists[wanted.kind]
      total == TotalOf[wanted.kind][wanted.query]
  IN  /\ \A i \in 1..Len(got) : got[i] = <<wanted.kind, wanted.query, i>>
      /\ Len(got) <= total /\ (Len(got) >= wanted.size \/ Len(got) = total)
      /\ wanted.kind = "mobile" => url.fetched >= Len(got)
      /\ \A c \in net.calls : ListsOurs(c) =>
            c.more /\ c.kind = wanted.kind /\ c.offset = Len(got) /\ c.length = Len(got)

\* An offset in the URL is that of a page on its way.
ListsPaging ==
  url.offset # 0 =>
    \E c \in net.calls : /\ c.more /\ Lists!SliceOf(c.kind) \in net.pending
                         /\ wanted.kind = "mobile" => c.kind = "mobile"

ListsFollow ==
  ~fetchingData /\ ~isFirstRender /\ excused = {} =>
    /\ url.kind = wanted.kind
    /\ \A c \in net.calls : ListsOurs(c) =>
          /\ Lists!SliceOf(wanted.kind) \in net.pending
          /\ \A d \in net.calls : ListsOurs(d) => c = d
    /\ ListsAsked \/ ListsThere
    /\ ListsPaging

\* The inductive invariant.
ListsIInv ==
  ListsTypeInv /\ ListsFlagged /\ ListsOneMobile(net) /\ ListsCallsFit(net) /\ ListsFollow

-----------------------------------------------------------------------------
(* Slices and requests. *)

LEMMA ListsSlices ==
  ASSUME NEW k \in Kinds
  PROVE  /\ Lists!SliceOf(k) \in Lists!Slices /\ Lists!SliceOf(k) \in {"mobile", "fixed"}
         /\ Lists!SliceOf(k) = "mobile" <=> k = "mobile"
BY DEF Lists!SliceOf, Lists!Slices

LEMMA ListsSize ==
  ASSUME Lists!ListsAssumption, NEW u \in ListsUrls
  PROVE  Lists!SizeOf(u) \in Nat
BY DEF Lists!ListsAssumption, Lists!SizeOf, ListsUrls

LEMMA ListsCallFits ==
  ASSUME ListsTypeInv, NEW k \in Kinds, NEW offset \in Nat, NEW limit \in Nat, NEW more \in BOOLEAN
  PROVE  Lists!Call(k, offset, limit, more) \in ListsCalls
<1>1. Len(Lists!listSessions) \in Nat
  BY DEF ListsTypeInv, ListsNets, ListsUrls, Lists!listSessions
<1> QED
  BY <1>1 DEF Lists!Call, ListsTypeInv, ListsUrls, ListsCalls

LEMMA ListsDispatched ==
  ASSUME NEW n \in ListsNets, NEW c \in ListsCalls
  PROVE  LET m == Lists!Dispatched(n, c)
             s == Lists!SliceOf(c.kind)
         IN  /\ m \in ListsNets /\ m.lists = n.lists
             /\ s \in n.pending => m = n
             /\ s \notin n.pending => m.pending = n.pending \cup {s} /\ m.calls = n.calls \cup {c}
<1>1. c.kind \in Kinds
  BY DEF ListsCalls
<1> QED
  BY <1>1, ListsSlices DEF Lists!Dispatched, ListsNets

LEMMA ListsDispatchedFits ==
  ASSUME NEW n \in ListsNets, NEW c \in ListsCalls, ListsOneMobile(n), ListsCallsFit(n),
         c.query = c.at.query, ~c.more => c.kind = c.at.kind,
         c.more => c.kind \in {"mobile", "dormant"} /\ (c.kind = "dormant" => c.at.kind = "dormant")
  PROVE  ListsOneMobile(Lists!Dispatched(n, c)) /\ ListsCallsFit(Lists!Dispatched(n, c))
<1> DEFINE m == Lists!Dispatched(n, c)
           s == Lists!SliceOf(c.kind)
<1>1. CASE s \in n.pending
  <2>1. m = n
    BY <1>1, ListsDispatched
  <2> QED
    BY <2>1
<1>2. CASE s \notin n.pending
  <2>1. m.pending = n.pending \cup {s} /\ m.calls = n.calls \cup {c}
    BY <1>2, ListsDispatched
  <2>2. c.kind = "mobile" => s = "mobile"
    BY DEF Lists!SliceOf
  <2> HIDE DEF m, s
  <2>3. ListsOneMobile(m)
    BY <1>2, <2>1, <2>2 DEF ListsOneMobile
  <2>4. ListsCallsFit(m)
    BY <2>1 DEF ListsCallsFit
  <2> QED
    BY <2>3, <2>4 DEF m
<1> QED
  BY <1>1, <1>2

\* A list that is cleaned forgets its requests, and they stay on their way.
LEMMA ListsCleanFits ==
  ASSUME NEW n \in ListsNets
  PROVE  /\ Lists!cleanSessions(n) \in ListsNets
         /\ Lists!cleanSessions(n).calls = n.calls
         /\ Lists!cleanSessions(n).pending = n.pending \ {"fixed"}
         /\ Lists!clearMobileSessions(n) \in ListsNets
         /\ Lists!clearMobileSessions(n).calls = n.calls
         /\ Lists!clearMobileSessions(n).pending = n.pending
<1>1. Lists!cleanSessions(n) \in ListsNets
  <2> DEFINE lists == [k \in Kinds |-> IF k \in {"active", "dormant"} THEN <<>> ELSE n.lists[k]]
             count == [s \in Lists!Slices |-> IF s = "fixed" THEN 0 ELSE n.count[s]]
  <2>1. lists \in [Kinds -> Seq(Kinds \X Queries \X Nat)] /\ count \in [Lists!Slices -> Nat]
    BY DEF ListsNets
  <2>2. Lists!cleanSessions(n) =
          [n EXCEPT !.lists = lists, !.count = count, !.pending = n.pending \ {"fixed"}]
    BY DEF Lists!cleanSessions, ListsNets
  <2> HIDE DEF lists, count
  <2> QED
    BY <2>1, <2>2 DEF ListsNets
<1>2. Lists!clearMobileSessions(n) \in ListsNets
  <2> DEFINE lists == [k \in Kinds |-> IF k = "mobile" THEN <<>> ELSE n.lists[k]]
             count == [s \in Lists!Slices |-> IF s = "mobile" THEN 0 ELSE n.count[s]]
  <2>1. lists \in [Kinds -> Seq(Kinds \X Queries \X Nat)] /\ count \in [Lists!Slices -> Nat]
    BY DEF ListsNets
  <2>2. Lists!clearMobileSessions(n) = [n EXCEPT !.lists = lists, !.count = count]
    BY DEF Lists!clearMobileSessions, ListsNets
  <2> HIDE DEF lists, count
  <2> QED
    BY <2>1, <2>2 DEF ListsNets
<1> QED
  BY <1>1, <1>2 DEF Lists!cleanSessions, Lists!clearMobileSessions, ListsNets

LEMMA ListsCleanedFits ==
  ASSUME NEW n \in ListsNets
  PROVE  LET m == Lists!Cleaned(n)
         IN  /\ m \in ListsNets /\ m.calls = n.calls
             /\ n.pending \ {"fixed"} \subseteq m.pending
             /\ ~Lists!Cleans => m = n
<1>1. CASE ~Lists!Cleans
  BY <1>1 DEF Lists!Cleaned
<1>2. CASE Lists!Cleans
  <2> DEFINE n1 == IF "realtime" \in due THEN Lists!clearMobileSessions(n) ELSE n
  <2>1. n1 \in ListsNets /\ n1.calls = n.calls /\ n1.pending = n.pending
    BY ListsCleanFits
  <2>2. Lists!Cleaned(n) = Lists!cleanSessions(n1)
    BY <1>2 DEF Lists!Cleaned
  <2> HIDE DEF n1
  <2> QED
    BY <1>2, <2>1, <2>2, ListsCleanFits
<1> QED
  BY <1>1, <1>2

\* What depends on the requests alone.
LEMMA ListsRequestsStay ==
  ASSUME NEW n, NEW m, ListsOneMobile(n), ListsCallsFit(n), m.calls \subseteq n.calls,
         \A c \in m.calls : c.kind = "mobile" /\ "mobile" \in n.pending => "mobile" \in m.pending
  PROVE  ListsOneMobile(m) /\ ListsCallsFit(m)
BY DEF ListsOneMobile, ListsCallsFit

-----------------------------------------------------------------------------
(* The user. *)

\* A step after which the sessions are fetched anew.
LEMMA ListsRefetched ==
  ASSUME ListsIInv, fetchingData' = TRUE, due' # {}, url' \in ListsUrls, net' \in ListsNets,
         isFirstRender' \in BOOLEAN, UNCHANGED <<wanted, excused>>,
         net'.calls \subseteq net.calls,
         \A c \in net'.calls :
           c.kind = "mobile" /\ "mobile" \in net.pending => "mobile" \in net'.pending
  PROVE  ListsIInv'
<1>1. ListsOneMobile(net') /\ ListsCallsFit(net')
  BY ListsRequestsStay DEF ListsIInv
<1> QED
  BY <1>1 DEF ListsIInv, ListsTypeInv, ListsFlagged, ListsFollow

LEMMA ListsFilterKeeps ==
  ASSUME ListsIInv, NEW k \in Kinds, NEW q \in Queries, Lists!setFilter(k, q)
  PROVE  ListsIInv'
<1>1. url' \in ListsUrls
  BY DEF Lists!setFilter, ListsIInv, ListsTypeInv, ListsUrls
<1> QED
  BY <1>1, ListsRefetched DEF Lists!setFilter, Lists!history, ListsIInv, ListsTypeInv

LEMMA ListsRefreshKeeps ==
  ASSUME ListsIInv, Lists!RefreshMap
  PROVE  ListsIInv'
<1> DEFINE n == Lists!clearMobileSessions(net)
<1>1. n \in ListsNets /\ n.calls = net.calls /\ n.pending = net.pending
  BY ListsCleanFits DEF ListsIInv, ListsTypeInv
<1>2. net' = Lists!cleanSessions(n)
  BY DEF Lists!RefreshMap
<1> HIDE DEF n
<1>3. net' \in ListsNets /\ net'.calls = net.calls /\ net'.pending = net.pending \ {"fixed"}
  BY <1>1, <1>2, ListsCleanFits
<1> QED
  BY <1>3, ListsRefetched DEF Lists!RefreshMap, Lists!history, ListsIInv, ListsTypeInv

LEMMA ListsReloadKeeps ==
  ASSUME ListsIInv, Lists!Reload
  PROVE  ListsIInv'
<1>1. net' \in ListsNets /\ net'.calls = {}
  BY DEF Lists!Reload, Lists!Blank, ListsNets
<1> QED
  BY <1>1, ListsRefetched DEF Lists!Reload, Lists!history, ListsIInv, ListsTypeInv

\* A step that leaves the requests, and the list that is wanted.
LEMMA ListsFollowStays ==
  ASSUME ListsFollow, net' = net, url' \in ListsUrls, UNCHANGED <<wanted, excused>>,
         fetchingData' = fetchingData, isFirstRender' = isFirstRender,
         url'.kind = url.kind, url'.fetched = url.fetched, url'.offset = url.offset
  PROVE  ListsFollow'
BY DEF ListsFollow, ListsOurs, ListsAsked, ListsThere, ListsPaging

LEMMA ListsMoveKeeps ==
  ASSUME ListsIInv, due = {}, NEW q \in Queries, Lists!handleMapIdle(q)
  PROVE  ListsIInv'
<1>1. /\ url' \in ListsUrls
      /\ url'.kind = url.kind /\ url'.fetched = url.fetched /\ url'.offset = url.offset
  BY DEF Lists!handleMapIdle, ListsIInv, ListsTypeInv, ListsUrls
<1>2. UNCHANGED <<fetchingData, isFirstRender, net, wanted, excused>>
  BY DEF Lists!handleMapIdle, Lists!history
<1>3. ListsFollow'
  BY <1>1, <1>2, ListsFollowStays DEF ListsIInv
<1> QED
  BY <1>1, <1>2, <1>3 DEF ListsIInv, ListsTypeInv, ListsFlagged

LEMMA ListsRealtimeKeeps ==
  ASSUME ListsIInv, due = {}, Lists!setRealtimeMapUpdates
  PROVE  ListsIInv'
<1>1. UNCHANGED <<url, fetchingData, isFirstRender, net, wanted, excused>>
  BY DEF Lists!setRealtimeMapUpdates, Lists!history
<1>2. ListsFollow'
  BY <1>1, ListsFollowStays DEF ListsIInv, ListsTypeInv
<1> QED
  BY <1>1, <1>2 DEF ListsIInv, ListsTypeInv, ListsFlagged

\* A page more, from where the list ends, of a list that is there.
LEMMA ListsScrollKeeps ==
  ASSUME Lists!ListsAssumption, ListsIInv, due = {}, Lists!handleScrollEnd
  PROVE  ListsIInv'
<1> DEFINE newOffset == url.offset + Len(Lists!listSessions)
           c1 == Lists!Call("mobile", newOffset, Lists!SizeOf(url), TRUE)
           c2 == Lists!Call("dormant", newOffset, Lists!SizeOf(url), TRUE)
           n1 == IF Lists!hasMoreSessions THEN Lists!Dispatched(net, c1) ELSE net
           n2 == IF Lists!hasMoreDormantSessions THEN Lists!Dispatched(n1, c2) ELSE n1
<1>1. /\ url \in ListsUrls /\ net \in ListsNets /\ url.kind \in Kinds /\ url.offset \in Nat
      /\ ListsOneMobile(net) /\ ListsCallsFit(net)
  BY DEF ListsIInv, ListsTypeInv, ListsUrls
<1>2. Len(Lists!listSessions) \in Nat
  BY <1>1 DEF ListsNets, Lists!listSessions
<1>3. newOffset \in Nat /\ Lists!SizeOf(url) \in Nat
  BY <1>1, <1>2, ListsSize
<1>4. /\ url' = [url EXCEPT !.offset = newOffset] /\ net' = n2
      /\ excused' = IF net.pending = {} THEN excused ELSE excused \cup {"dropped"}
      /\ UNCHANGED <<fetchingData, isFirstRender, wanted>>
      /\ Lists!hasMoreSessions \/ Lists!hasMoreDormantSessions
  BY DEF Lists!handleScrollEnd
<1>5. /\ c1 \in ListsCalls /\ c1.more /\ c1.kind = "mobile" /\ c1.at = url /\ c1.query = url.query
      /\ c1.offset = newOffset /\ c1.length = Len(Lists!listSessions)
  <2>1. "mobile" \in Kinds
    BY DEF Lists!ListsAssumption
  <2>2. c1 \in ListsCalls
    BY <1>3, <2>1, ListsCallFits DEF ListsIInv
  <2> QED
    BY <2>2 DEF Lists!Call
<1>6. ASSUME Lists!hasMoreDormantSessions
      PROVE  /\ c2 \in ListsCalls /\ c2.more /\ c2.kind = "dormant"
             /\ c2.at = url /\ c2.query = url.query
             /\ c2.offset = newOffset /\ c2.length = Len(Lists!listSessions) /\ url.kind = "dormant"
  <2>1. "dormant" \in Kinds /\ url.kind = "dormant"
    BY <1>1, <1>6 DEF Lists!hasMoreDormantSessions
  <2>2. c2 \in ListsCalls
    BY <1>3, <2>1, ListsCallFits DEF ListsIInv
  <2> QED
    BY <2>1, <2>2 DEF Lists!Call
<1> HIDE DEF c1, c2, newOffset
<1>7. n1 \in ListsNets /\ ListsOneMobile(n1) /\ ListsCallsFit(n1)
  BY <1>1, <1>5, ListsDispatched, ListsDispatchedFits
<1>8. n2 \in ListsNets /\ ListsOneMobile(n2) /\ ListsCallsFit(n2)
  <2> HIDE DEF n1
  <2> QED
    BY <1>6, <1>7, ListsDispatched, ListsDispatchedFits
<1>9. url' \in ListsUrls /\ url'.kind = url.kind /\ url'.fetched = url.fetched
  BY <1>1, <1>3, <1>4 DEF ListsUrls
<1>10. ListsTypeInv' /\ ListsFlagged' /\ ListsOneMobile(net') /\ ListsCallsFit(net')
  BY <1>4, <1>8, <1>9 DEF ListsIInv, ListsTypeInv, ListsFlagged
<1>11. ListsFollow'
  <2> SUFFICES ASSUME ~fetchingData', ~isFirstRender', excused' = {} PROVE ListsFollow'
    BY DEF ListsFollow
  <2>1. excused = {} /\ net.pending = {}
    BY <1>4
  <2>2. /\ url.kind = wanted.kind
        /\ \A c \in net.calls : ~ListsOurs(c)
        /\ ListsThere /\ url.offset = 0
    BY <1>4, <2>1 DEF ListsIInv, ListsFollow, ListsAsked, ListsPaging, ListsOurs
  <2>3. /\ n2.lists = net.lists
        /\ n2.calls = net.calls \cup (IF Lists!hasMoreSessions THEN {c1} ELSE {})
                                \cup (IF Lists!hasMoreDormantSessions THEN {c2} ELSE {})
        /\ n2.pending = (IF Lists!hasMoreSessions THEN {"mobile"} ELSE {})
                          \cup (IF Lists!hasMoreDormantSessions THEN {"fixed"} ELSE {})
    <3>1. /\ n1.lists = net.lists
          /\ n1.calls = net.calls \cup (IF Lists!hasMoreSessions THEN {c1} ELSE {})
          /\ n1.pending = IF Lists!hasMoreSessions THEN {"mobile"} ELSE {}
      BY <1>1, <1>5, <2>1, ListsDispatched DEF Lists!SliceOf
    <3> HIDE DEF n1
    <3> QED
      BY <1>6, <1>7, <3>1, ListsDispatched DEF Lists!SliceOf
  <2> HIDE DEF n2
  <2>4. /\ newOffset = Len(net.lists[wanted.kind])
        /\ Len(Lists!listSessions) = Len(net.lists[wanted.kind])
    BY <1>2, <2>2 DEF newOffset, Lists!listSessions
  <2>5. wanted.kind = "mobile" => ~Lists!hasMoreDormantSessions
    BY <2>2 DEF Lists!hasMoreDormantSessions
  <2>6. \A c \in net'.calls : ListsOurs(c)' =>
          /\ c.more /\ c.kind = wanted.kind /\ c.offset = newOffset /\ c.length = newOffset
          /\ Lists!SliceOf(wanted.kind) \in net'.pending
          /\ \A d \in net'.calls : ListsOurs(d)' => c = d
    <3>1. wanted.kind = "mobile" =>
            \A c \in net'.calls : ListsOurs(c)' => c = c1 /\ Lists!hasMoreSessions
      BY <1>4, <1>6, <2>2, <2>3, <2>5 DEF ListsOurs
    <3>2. wanted.kind # "mobile" =>
            \A c \in net'.calls : ListsOurs(c)' => c = c2 /\ Lists!hasMoreDormantSessions
      BY <1>4, <1>5, <1>6, <2>2, <2>3 DEF ListsOurs, Lists!SliceOf
    <3> QED
      BY <1>4, <1>5, <1>6, <2>2, <2>3, <2>4, <3>1, <3>2 DEF Lists!SliceOf
  <2>7. ListsThere'
    BY <1>4, <1>9, <2>2, <2>3, <2>4, <2>6 DEF ListsThere
  <2>8. ListsPaging'
    <3>1. CASE Lists!hasMoreSessions
      BY <1>4, <1>5, <2>3, <3>1 DEF ListsPaging, Lists!SliceOf
    <3>2. CASE Lists!hasMoreDormantSessions
      BY <1>4, <1>6, <2>3, <2>5, <3>2 DEF ListsPaging, Lists!SliceOf
    <3> QED
      BY <1>4, <3>1, <3>2
  <2> QED
    BY <1>4, <1>9, <2>2, <2>6, <2>7, <2>8 DEF ListsFollow
<1> QED
  BY <1>10, <1>11 DEF ListsIInv

-----------------------------------------------------------------------------
(* Renders. *)

LEMMA ListsRenderKeeps ==
  ASSUME Lists!ListsAssumption, ListsIInv, Lists!Render
  PROVE  ListsIInv'
<1> DEFINE c0 == Lists!Call(url.kind, url.offset, Lists!sizeToFetch, FALSE)
           n1 == Lists!Fetched(net)
<1>1. /\ url \in ListsUrls /\ net \in ListsNets /\ url.kind \in Kinds /\ url.offset \in Nat
      /\ url.query \in Queries /\ url.fetched \in Nat
      /\ ListsOneMobile(net) /\ ListsCallsFit(net)
  BY DEF ListsIInv, ListsTypeInv, ListsUrls
<1>2. Lists!sizeToFetch \in Nat
  BY <1>1, ListsSize DEF Lists!sizeToFetch
<1>3. /\ c0 \in ListsCalls /\ ~c0.more /\ c0.kind = url.kind /\ c0.at = url /\ c0.query = url.query
      /\ c0.offset = url.offset /\ c0.limit = Lists!sizeToFetch
  <2>1. c0 \in ListsCalls
    BY <1>1, <1>2, ListsCallFits DEF ListsIInv
  <2> QED
    BY <2>1 DEF Lists!Call
<1> HIDE DEF c0
<1>4. /\ net' = Lists!Cleaned(n1)
      /\ url' = IF Lists!Restores THEN [url EXCEPT !.limit = url.fetched] ELSE url
      /\ fetchingData' = Lists!Cleans /\ isFirstRender' = FALSE
      /\ Lists!Cleans => due' # {}
  BY DEF Lists!Render
<1>5. n1 = IF fetchingData \/ isFirstRender THEN Lists!Dispatched(net, c0) ELSE net
  BY DEF Lists!Fetched, c0
<1> HIDE DEF n1
<1>6. n1 \in ListsNets /\ ListsOneMobile(n1) /\ ListsCallsFit(n1)
  BY <1>1, <1>3, <1>5, ListsDispatched, ListsDispatchedFits
<1>7. /\ net' \in ListsNets /\ net'.calls = n1.calls
      /\ n1.pending \ {"fixed"} \subseteq net'.pending
      /\ ~Lists!Cleans => net' = n1
  BY <1>4, <1>6, ListsCleanedFits
<1>8. ListsOneMobile(net') /\ ListsCallsFit(net')
  BY <1>6, <1>7, ListsRequestsStay
<1>9. /\ url' \in ListsUrls /\ url'.kind = url.kind /\ url'.offset = url.offset
      /\ ~isFirstRender => url' = url
  BY <1>1, <1>4 DEF ListsUrls, Lists!Restores
<1>10. wanted' \in ListsGoals
  BY <1>1, <1>2 DEF Lists!Render, Lists!history, ListsGoals, ListsIInv, ListsTypeInv
<1>11. ListsTypeInv' /\ ListsFlagged'
  BY <1>4, <1>7, <1>9, <1>10 DEF ListsTypeInv, ListsFlagged, Lists!Cleans
<1>12. ListsFollow'
  <2> SUFFICES ASSUME ~Lists!Cleans, excused' = {} PROVE ListsFollow'
    BY <1>4 DEF ListsFollow
  <2>1. net' = n1
    BY <1>7
  <2>2. CASE ~(fetchingData \/ isFirstRender)
    <3>1. net' = net /\ url' = url /\ UNCHANGED <<wanted, excused>>
      BY <1>5, <1>9, <2>1, <2>2 DEF Lists!Render, Lists!history
    <3> QED
      BY <2>2, <3>1 DEF ListsIInv, ListsFollow, ListsOurs, ListsAsked, ListsThere, ListsPaging
  <2>3. CASE fetchingData \/ isFirstRender
    <3>1. /\ wanted' = [kind |-> url.kind, query |-> url.query, size |-> Lists!sizeToFetch]
          /\ excused' = IF Lists!SliceOf(url.kind) \in net.pending THEN excused \cup {"dropped"}
                        ELSE IF Lists!UnderWay(Lists!SliceOf(url.kind)) THEN excused \cup {"twice"}
                        ELSE IF url.offset = 0 THEN {} ELSE excused \cup {"offset"}
      BY <2>3 DEF Lists!Render
    <3>2. /\ Lists!SliceOf(url.kind) \notin net.pending /\ url.offset = 0
          /\ \A c \in net.calls : Lists!SliceOf(c.kind) # Lists!SliceOf(url.kind)
      BY <3>1 DEF Lists!UnderWay
    <3>3. /\ net'.calls = net.calls \cup {c0}
          /\ net'.pending = net.pending \cup {Lists!SliceOf(url.kind)}
      BY <1>1, <1>3, <1>5, <2>1, <2>3, <3>2, ListsDispatched
    <3>4. \A c \in net'.calls : ListsOurs(c)' => c = c0
      BY <3>1, <3>2, <3>3 DEF ListsOurs
    <3>5. ListsAsked'
      BY <1>3, <3>1, <3>2, <3>3 DEF ListsAsked
    <3>6. ListsPaging'
      BY <1>9, <3>2 DEF ListsPaging
    <3> QED
      BY <1>9, <3>1, <3>3, <3>4, <3>5, <3>6 DEF ListsFollow
  <2> QED
    BY <2>2, <2>3
<1> QED
  BY <1>8, <1>11, <1>12 DEF ListsIInv

-----------------------------------------------------------------------------
(* Answers. *)

\* What an answer, or a failure, does to the requests.
LEMMA ListsSettledFits ==
  ASSUME ListsOneMobile(net), ListsCallsFit(net), NEW c \in net.calls, NEW n,
         n.calls = net.calls \ {c}, n.pending = net.pending \ {Lists!SliceOf(c.kind)}
  PROVE  ListsOneMobile(n) /\ ListsCallsFit(n)
BY DEF ListsOneMobile, ListsCallsFit, Lists!SliceOf

LEMMA ListsFailKeeps ==
  ASSUME ListsIInv, due = {}, NEW c \in net.calls, Lists!Fails(c)
  PROVE  ListsIInv'
<1>1. /\ net' \in ListsNets
      /\ net'.calls = net.calls \ {c} /\ net'.pending = net.pending \ {Lists!SliceOf(c.kind)}
  BY DEF Lists!Fails, ListsIInv, ListsTypeInv, ListsNets
<1>2. ListsOneMobile(net') /\ ListsCallsFit(net')
  BY <1>1, ListsSettledFits DEF ListsIInv
<1> QED
  BY <1>1, <1>2 DEF Lists!Fails, ListsIInv, ListsTypeInv, ListsFlagged, ListsFollow

\* A page is of the sessions from its offset on, as far as there are some.
LEMMA ListsServed ==
  ASSUME Lists!ListsAssumption, NEW c \in ListsCalls
  PROVE  LET s == Lists!Served(c)
             total == TotalOf[c.kind][c.query]
         IN  /\ s \in Seq(Kinds \X Queries \X Nat) /\ total \in Nat
             /\ Len(s) <= c.limit /\ (c.offset <= total => c.offset + Len(s) <= total)
             /\ c.offset + Len(s) >= total \/ Len(s) = c.limit
             /\ \A i \in 1..Len(s) : s[i] = <<c.kind, c.query, c.offset + i>>
<1> DEFINE total == TotalOf[c.kind][c.query]
           last == Lists!Least(c.offset + c.limit, total)
           n == IF last > c.offset THEN last - c.offset ELSE 0
           s == [i \in 1..n |-> <<c.kind, c.query, c.offset + i>>]
<1>1. /\ c.kind \in Kinds /\ c.query \in Queries
      /\ c.offset \in Nat /\ c.limit \in Nat /\ total \in Nat
  BY DEF ListsCalls, Lists!ListsAssumption
<1> HIDE DEF total
<1>2. /\ last \in Nat /\ last <= total /\ last <= c.offset + c.limit
      /\ last = total \/ last = c.offset + c.limit
  BY <1>1 DEF Lists!Least
<1> HIDE DEF last
<1>3. n \in Nat /\ 1..n = 1..(last - c.offset)
  BY <1>1, <1>2
<1>4. Lists!Served(c) = s
  BY <1>3 DEF Lists!Served, last, total
<1> HIDE DEF n
<1>5. /\ s \in Seq(Kinds \X Queries \X Nat) /\ Len(s) = n
      /\ \A i \in 1..Len(s) : s[i] = <<c.kind, c.query, c.offset + i>>
  BY <1>1, <1>3
<1>6. /\ n <= c.limit /\ (c.offset <= total => c.offset + n <= total)
      /\ c.offset + n >= total \/ n = c.limit
  BY <1>1, <1>2 DEF n
<1> QED
  BY <1>1, <1>4, <1>5, <1>6 DEF total

LEMMA ListsStored ==
  ASSUME Lists!ListsAssumption, ListsIInv, NEW c \in net.calls,
         NEW s \in Seq(Kinds \X Queries \X Nat)
  PROVE  LET n == Lists!Stored(c, s)
         IN  /\ n \in ListsNets
             /\ n.calls = net.calls \ {c} /\ n.pending = net.pending \ {Lists!SliceOf(c.kind)}
             /\ \A k \in Kinds :
                  Lists!SliceOf(k) # Lists!SliceOf(c.kind) => n.lists[k] = net.lists[k]
             /\ n.lists[c.kind] = IF c.more THEN net.lists[c.kind] \o s ELSE s
<1> DEFINE lists == [k \in Kinds |-> IF k \notin Lists!TakenBy(c.kind) THEN net.lists[k]
                                     ELSE IF c.more THEN net.lists[k] \o s ELSE s]
           count == [net.count EXCEPT ![Lists!SliceOf(c.kind)] = TotalOf[c.kind][c.query]]
<1>1. net \in ListsNets /\ c \in ListsCalls /\ c.kind \in Kinds /\ c.query \in Queries
  BY DEF ListsIInv, ListsTypeInv, ListsNets, ListsCalls
<1>2. lists \in [Kinds -> Seq(Kinds \X Queries \X Nat)]
  <2>1. \A k \in Kinds : net.lists[k] \in Seq(Kinds \X Queries \X Nat)
    BY <1>1 DEF ListsNets
  <2>2. \A k \in Kinds : net.lists[k] \o s \in Seq(Kinds \X Queries \X Nat)
    BY <2>1
  <2> QED
    BY <2>1, <2>2
<1>3. count \in [Lists!Slices -> Nat]
  <2>1. TotalOf[c.kind][c.query] \in Nat
    BY <1>1 DEF Lists!ListsAssumption
  <2> QED
    BY <1>1, <2>1 DEF ListsNets
<1>4. Lists!Stored(c, s) =
        [net EXCEPT !.lists = lists, !.count = count, !.calls = net.calls \ {c},
                    !.pending = net.pending \ {Lists!SliceOf(c.kind)}]
  BY <1>1 DEF Lists!Stored, ListsNets
<1>5. /\ c.kind \in Lists!TakenBy(c.kind)
      /\ \A k \in Lists!TakenBy(c.kind) : Lists!SliceOf(k) = Lists!SliceOf(c.kind)
  BY <1>1 DEF Lists!TakenBy, Lists!SliceOf
<1>6. \A k \in Kinds : Lists!SliceOf(k) # Lists!SliceOf(c.kind) => lists[k] = net.lists[k]
  BY <1>5
<1>7. lists[c.kind] = IF c.more THEN net.lists[c.kind] \o s ELSE s
  BY <1>1, <1>5
<1> HIDE DEF lists, count
<1> QED
  BY <1>1, <1>2, <1>3, <1>4, <1>6, <1>7 DEF ListsNets

LEMMA ListsCounted ==
  ASSUME NEW u \in ListsUrls, NEW n \in Nat
  PROVE  LET v == [u EXCEPT !.fetched = n]
         IN  /\ v \in ListsUrls /\ v.fetched = n
             /\ v.kind = u.kind /\ v.query = u.query /\ v.offset = u.offset
BY DEF ListsUrls

LEMMA ListsUrlAfter ==
  ASSUME ListsIInv, NEW c \in net.calls, NEW s \in Seq(Kinds \X Queries \X Nat)
  PROVE  LET u == Lists!UrlAfter(c, s)
         IN  /\ u \in ListsUrls
             /\ ~c.more /\ c.kind # "mobile" => u = url
             /\ c.more \/ c.kind = "mobile" =>
                  u.kind = c.at.kind /\ u.query = c.at.query /\ u.offset = c.at.offset
             /\ c.more => u.fetched = c.length + Len(s)
             /\ ~c.more /\ c.kind = "mobile" => u.fetched \in {c.limit, Len(s)}
<1>1. /\ c \in ListsCalls /\ c.at \in ListsUrls /\ c.length \in Nat
      /\ Len(s) \in Nat /\ url \in ListsUrls
  BY DEF ListsIInv, ListsTypeInv, ListsNets, ListsCalls
<1>2. CASE c.more
  <2>1. Lists!UrlAfter(c, s) = [c.at EXCEPT !.fetched = c.length + Len(s)]
    BY <1>2 DEF Lists!UrlAfter
  <2>2. c.length + Len(s) \in Nat
    BY <1>1
  <2> HIDE DEF ListsUrls
  <2> QED
    BY <1>1, <1>2, <2>1, <2>2, ListsCounted
<1>3. CASE ~c.more /\ c.kind # "mobile"
  BY <1>1, <1>3 DEF Lists!UrlAfter
<1>4. CASE ~c.more /\ c.kind = "mobile"
  <2> DEFINE n == IF c.limit = c.at.fetched THEN c.at.fetched ELSE Len(s)
  <2>1. Lists!UrlAfter(c, s) = [c.at EXCEPT !.fetched = n]
    BY <1>4 DEF Lists!UrlAfter
  <2>2. n \in Nat /\ n \in {c.limit, Len(s)}
    BY <1>1 DEF ListsUrls
  <2> HIDE DEF n
  <2> QED
    BY <1>1, <1>4, <2>1, <2>2, ListsCounted
<1> QED
  BY <1>1, <1>2, <1>3, <1>4

LEMMA ListsAnswerKeeps ==
  ASSUME Lists!ListsAssumption, ListsIInv, due = {}, NEW c \in net.calls, Lists!Answer(c)
  PROVE  ListsIInv'
<1> DEFINE s == Lists!Served(c)
           got == net.lists[wanted.kind]
           total == TotalOf[wanted.kind][wanted.query]
<1>1. /\ net \in ListsNets /\ c \in ListsCalls /\ c.kind \in Kinds /\ c.at \in ListsUrls
      /\ c.offset \in Nat /\ c.length \in Nat /\ c.limit \in Nat
      /\ wanted \in ListsGoals /\ wanted.kind \in Kinds /\ wanted.query \in Queries
      /\ url \in ListsUrls /\ url.kind \in Kinds /\ got \in Seq(Kinds \X Queries \X Nat)
      /\ c.at.kind \in Kinds /\ c.at.offset \in Nat
  BY DEF ListsIInv, ListsTypeInv, ListsNets, ListsCalls, ListsGoals, ListsUrls
<1>2. /\ net' = Lists!Stored(c, s) /\ url' = Lists!UrlAfter(c, s)
      /\ UNCHANGED <<fetchingData, isFirstRender, wanted>>
  BY DEF Lists!Answer
<1>3. s \in Seq(Kinds \X Queries \X Nat)
  BY <1>1, ListsServed
<1>4. /\ net' \in ListsNets
      /\ net'.calls = net.calls \ {c} /\ net'.pending = net.pending \ {Lists!SliceOf(c.kind)}
      /\ \A k \in Kinds : Lists!SliceOf(k) # Lists!SliceOf(c.kind) => net'.lists[k] = net.lists[k]
      /\ net'.lists[c.kind] = IF c.more THEN net.lists[c.kind] \o s ELSE s
  BY <1>2, <1>3, ListsStored
<1>5. /\ url' \in ListsUrls
      /\ ~c.more /\ c.kind # "mobile" => url' = url
      /\ c.more \/ c.kind = "mobile" =>
           url'.kind = c.at.kind /\ url'.query = c.at.query /\ url'.offset = c.at.offset
      /\ c.more => url'.fetched = c.length + Len(s)
      /\ ~c.more /\ c.kind = "mobile" => url'.fetched \in {c.limit, Len(s)}
  BY <1>2, <1>3, ListsUrlAfter
<1>6. ListsOneMobile(net') /\ ListsCallsFit(net')
  BY <1>4, ListsSettledFits DEF ListsIInv
<1>7. ~fetchingData' /\ ~isFirstRender'
  BY <1>2 DEF ListsIInv, ListsFlagged, ListsTypeInv
<1>8. ListsTypeInv' /\ ListsFlagged'
  BY <1>2, <1>4, <1>5, <1>7 DEF ListsIInv, ListsTypeInv, ListsFlagged
<1>9. ListsFollow'
  <2> SUFFICES ASSUME excused' = {} PROVE ListsFollow'
    BY DEF ListsFollow
  <2>1. /\ excused = {} /\ url'.kind = url.kind
        /\ c.more \/ c.kind = "mobile" => url'.offset = 0
        /\ c.more => c.at.kind = wanted.kind /\ c.at.query = wanted.query
    <3>1. /\ excused = {} /\ Lists!SameFilters(url', url)
          /\ ~((c.more \/ c.kind = "mobile") /\ c.at.offset > 0)
          /\ ~(c.more /\ ~Lists!SameFilters(c.at, wanted))
      BY DEF Lists!Answer
    <3> QED
      BY <1>1, <1>5, <3>1 DEF Lists!SameFilters
  <2>2. /\ url.kind = wanted.kind
        /\ \A d \in net.calls : ListsOurs(d) =>
             /\ Lists!SliceOf(wanted.kind) \in net.pending
             /\ \A e \in net.calls : ListsOurs(e) => d = e
        /\ ListsAsked \/ ListsThere
        /\ ListsPaging
    BY <1>2, <1>7, <2>1 DEF ListsIInv, ListsFollow
  <2>3. /\ c.query = c.at.query
        /\ ~c.more => c.kind = c.at.kind
        /\ c.more => /\ c.kind \in {"mobile", "dormant"}
                     /\ c.kind = "dormant" => c.at.kind = "dormant"
    BY DEF ListsIInv, ListsCallsFit
  <2>4. \A d \in net'.calls : ListsOurs(d)' => ListsOurs(d) /\ d \in net.calls /\ d # c
    BY <1>2, <1>4 DEF ListsOurs
  <2> HIDE DEF s
  <2>5. CASE ~ListsOurs(c)
    <3>1. wanted.kind = "mobile" => url' = url
      BY <1>1, <1>5, <2>1, <2>2, <2>3, <2>5 DEF ListsOurs, Lists!SliceOf
    <3>2. net'.lists[wanted.kind] = got
      BY <1>1, <1>4, <2>5 DEF ListsOurs
    <3>3. ListsAsked => ListsAsked'
      BY <1>2, <1>4, <2>5 DEF ListsAsked, ListsOurs
    <3>4. ListsThere => ListsThere'
      BY <1>2, <1>4, <2>4, <3>1, <3>2 DEF ListsThere, ListsOurs
    <3>5. ListsPaging'
      <4>1. CASE wanted.kind = "mobile"
        BY <1>2, <1>4, <2>2, <2>5, <3>1, <4>1 DEF ListsPaging, ListsOurs, Lists!SliceOf
      <4>2. CASE wanted.kind # "mobile"
        <5>1. c.kind = "mobile"
          BY <2>5, <4>2 DEF ListsOurs, Lists!SliceOf
        <5> QED
          BY <2>1, <5>1 DEF ListsPaging
      <4> QED
        BY <4>1, <4>2
    <3>6. \A d \in net'.calls : ListsOurs(d)' =>
            /\ Lists!SliceOf(wanted.kind) \in net'.pending
            /\ \A e \in net'.calls : ListsOurs(e)' => d = e
      BY <1>4, <2>2, <2>4, <2>5 DEF ListsOurs
    <3> QED
      BY <1>2, <2>1, <2>2, <3>3, <3>4, <3>5, <3>6 DEF ListsFollow
  <2>6. CASE ListsOurs(c)
    <3>1. \A d \in net'.calls : ~ListsOurs(d)'
      BY <2>2, <2>4, <2>6
    <3>2. ListsPaging'
      <4>1. CASE c.more \/ c.kind = "mobile"
        BY <2>1, <4>1 DEF ListsPaging
      <4>2. CASE ~c.more /\ c.kind # "mobile" /\ url.offset # 0
        <5>1. PICK e \in net.calls : /\ e.more /\ Lists!SliceOf(e.kind) \in net.pending
                                     /\ wanted.kind = "mobile" => e.kind = "mobile"
          BY <2>2, <4>2 DEF ListsPaging
        <5>2. wanted.kind # "mobile" /\ e # c
          BY <2>6, <4>2, <5>1 DEF ListsOurs, Lists!SliceOf
        <5>3. Lists!SliceOf(e.kind) # Lists!SliceOf(c.kind)
          BY <2>2, <2>6, <5>1, <5>2 DEF ListsOurs
        <5> QED
          BY <1>2, <1>4, <5>1, <5>2, <5>3 DEF ListsPaging
      <4> QED
        BY <1>5, <4>1, <4>2 DEF ListsPaging
    <3>3. CASE ListsAsked
      <4>1. /\ ~c.more /\ c.offset = 0
            /\ c.kind = wanted.kind /\ c.query = wanted.query /\ c.limit = wanted.size
        BY <2>2, <2>6, <3>3 DEF ListsAsked, ListsOurs
      <4>2. net'.lists[wanted.kind] = s
        BY <1>4, <4>1
      <4>3. /\ total \in Nat /\ Len(s) \in Nat /\ Len(s) <= c.limit /\ Len(s) <= total
            /\ Len(s) >= wanted.size \/ Len(s) = total
            /\ \A i \in 1..Len(s) : s[i] = <<wanted.kind, wanted.query, i>>
        <5>1. /\ total \in Nat /\ Len(s) \in Nat
              /\ Len(s) <= c.limit /\ (c.offset <= total => c.offset + Len(s) <= total)
              /\ c.offset + Len(s) >= total \/ Len(s) = c.limit
              /\ \A i \in 1..Len(s) : s[i] = <<c.kind, c.query, c.offset + i>>
          BY <1>1, <1>3, <4>1, ListsServed DEF s
        <5> HIDE DEF total
        <5> QED
          BY <1>1, <4>1, <5>1
      <4>4. wanted.kind = "mobile" => url'.fetched >= Len(s)
        BY <1>1, <1>5, <4>1, <4>3
      <4>5. ListsThere'
        BY <1>2, <3>1, <4>2, <4>3, <4>4 DEF ListsThere
      <4> QED
        BY <1>2, <2>1, <2>2, <3>1, <3>2, <4>5 DEF ListsFollow
    <3>4. CASE ListsThere
      <4>1. /\ c.more /\ c.kind = wanted.kind /\ c.offset = Len(got) /\ c.length = Len(got)
            /\ c.query = wanted.query
            /\ \A i \in 1..Len(got) : got[i] = <<wanted.kind, wanted.query, i>>
            /\ Len(got) <= total /\ (Len(got) >= wanted.size \/ Len(got) = total)
        BY <2>1, <2>3, <2>6, <3>4 DEF ListsThere
      <4>2. net'.lists[wanted.kind] = got \o s
        BY <1>4, <4>1
      <4>3. /\ total \in Nat /\ Len(s) \in Nat
            /\ c.offset <= total => c.offset + Len(s) <= total
            /\ \A i \in 1..Len(s) : s[i] = <<c.kind, c.query, c.offset + i>>
        <5>1. /\ TotalOf[c.kind][c.query] \in Nat
              /\ c.offset <= TotalOf[c.kind][c.query] =>
                   c.offset + Len(s) <= TotalOf[c.kind][c.query]
              /\ \A i \in 1..Len(s) : s[i] = <<c.kind, c.query, c.offset + i>>
          BY <1>1, ListsServed DEF s
        <5>2. Len(s) \in Nat
          BY <1>3
        <5> QED
          BY <4>1, <5>1, <5>2
      <4> HIDE DEF got, total
      <4>4. /\ got \o s \in Seq(Kinds \X Queries \X Nat) /\ Len(got \o s) = Len(got) + Len(s)
            /\ \A i \in 1..Len(got \o s) : got \o s # <<>> =>
                 (got \o s)[i] = IF i <= Len(got) THEN got[i] ELSE s[i - Len(got)]
        BY <1>1, <1>3
      <4>5. Len(got) \in Nat
        BY <1>1
      <4>6. \A i \in 1..Len(got \o s) : (got \o s)[i] = <<wanted.kind, wanted.query, i>>
        <5> TAKE i \in 1..Len(got \o s)
        <5>1. CASE i <= Len(got)
          BY <1>1, <1>3, <4>1, <4>4, <4>5, <5>1
        <5>2. CASE i > Len(got)
          <6>1. i - Len(got) \in 1..Len(s) /\ Len(got) + (i - Len(got)) = i
            BY <4>3, <4>4, <4>5, <5>2
          <6>2. (got \o s)[i] = s[i - Len(got)]
            BY <1>1, <1>3, <4>4, <4>5, <5>2
          <6> QED
            BY <4>1, <4>3, <6>1, <6>2
        <5> QED
          BY <4>4, <4>5, <5>1, <5>2
      <4>7. /\ Len(got \o s) <= total
            /\ Len(got \o s) >= wanted.size \/ Len(got \o s) = total
        <5>1. wanted.size \in Nat
          BY <1>1 DEF ListsGoals
        <5> QED
          BY <4>1, <4>3, <4>4, <4>5, <5>1
      <4>8. url'.fetched >= Len(got \o s)
        BY <1>5, <4>1, <4>3, <4>4, <4>5
      <4>9. ListsThere'
        BY <1>2, <3>1, <4>2, <4>6, <4>7, <4>8 DEF ListsThere, total
      <4> QED
        BY <1>2, <2>1, <2>2, <3>1, <3>2, <4>9 DEF ListsFollow
    <3> QED
      BY <2>2, <3>3, <3>4
  <2> QED
    BY <2>5, <2>6
<1> QED
  BY <1>6, <1>8, <1>9 DEF ListsIInv

-----------------------------------------------------------------------------
(* The invariant holds, and what follows. *)

LEMMA ListsInitHolds == Lists!ListsAssumption /\ Lists!Init => ListsIInv
<1> SUFFICES ASSUME Lists!ListsAssumption, Lists!Init PROVE ListsIInv
  OBVIOUS
<1>1. net \in ListsNets /\ net.calls = {}
  BY DEF Lists!Init, Lists!Blank, ListsNets
<1>2. url \in ListsUrls /\ wanted \in ListsGoals
  BY DEF Lists!Init, Lists!Unset, Lists!ListsAssumption, ListsUrls, ListsGoals
<1>3. ListsOneMobile(net) /\ ListsCallsFit(net)
  BY <1>1 DEF ListsOneMobile, ListsCallsFit
<1> QED
  BY <1>1, <1>2, <1>3 DEF Lists!Init, ListsIInv, ListsTypeInv, ListsFlagged, ListsFollow

LEMMA ListsNextKeeps ==
  Lists!ListsAssumption /\ ListsIInv /\ [Lists!Next]_(Lists!vars) => ListsIInv'
<1> SUFFICES ASSUME Lists!ListsAssumption, ListsIInv, [Lists!Next]_(Lists!vars) PROVE ListsIInv'
  OBVIOUS
<1>1. CASE UNCHANGED Lists!vars
  <2>1. UNCHANGED <<url, fetchingData, isFirstRender, net, due, wanted, excused>>
    BY <1>1 DEF Lists!vars, Lists!history
  <2>2. ListsFollow'
    BY <2>1, ListsFollowStays DEF ListsIInv, ListsTypeInv
  <2> QED
    BY <2>1, <2>2 DEF ListsIInv, ListsTypeInv, ListsFlagged
<1>2. CASE Lists!Render
  BY <1>2, ListsRenderKeeps
<1>3. CASE due = {} /\ Lists!User
  BY <1>3, ListsFilterKeeps, ListsMoveKeeps, ListsRefreshKeeps, ListsRealtimeKeeps,
    ListsScrollKeeps, ListsReloadKeeps DEF Lists!User
<1>4. CASE due = {} /\ \E c \in net.calls : Lists!Answer(c) \/ Lists!Fails(c)
  BY <1>4, ListsAnswerKeeps, ListsFailKeeps
<1> QED
  BY <1>1, <1>2, <1>3, <1>4 DEF Lists!Next

LEMMA ListsInvImplies ==
  Lists!ListsAssumption /\ ListsIInv => Lists!ListIsWhatWasAskedFor
<1> SUFFICES ASSUME Lists!ListsAssumption, ListsIInv, Lists!Quiet, excused = {}
             PROVE  LET got == Lists!listSessions
                        total == TotalOf[wanted.kind][wanted.query]
                    IN  /\ got = [i \in 1..Len(got) |-> <<wanted.kind, wanted.query, i>>]
                        /\ Len(got) \in Lists!Least(wanted.size, total)..total
                        /\ url.kind = "mobile" => url.fetched >= Len(got)
  BY DEF Lists!ListIsWhatWasAskedFor
<1> DEFINE got == Lists!listSessions
           total == TotalOf[wanted.kind][wanted.query]
<1>1. ListsFollow /\ ~fetchingData /\ ~isFirstRender /\ net.calls = {}
  BY DEF Lists!Quiet, ListsIInv, ListsFlagged, ListsTypeInv
<1>2. url.kind = wanted.kind /\ ListsThere
  BY <1>1 DEF ListsFollow, ListsAsked
<1>3. got = net.lists[wanted.kind]
  BY <1>2 DEF Lists!listSessions
<1>4. /\ got \in Seq(Kinds \X Queries \X Nat) /\ total \in Nat /\ wanted.size \in Nat
  <2>1. net \in ListsNets /\ wanted \in ListsGoals
    BY DEF ListsIInv, ListsTypeInv
  <2>2. wanted.kind \in Kinds /\ wanted.query \in Queries /\ wanted.size \in Nat
    BY <2>1 DEF ListsGoals
  <2>3. net.lists[wanted.kind] \in Seq(Kinds \X Queries \X Nat)
    BY <2>1, <2>2 DEF ListsNets
  <2> QED
    BY <1>3, <2>2, <2>3 DEF Lists!ListsAssumption
<1>5. /\ \A i \in 1..Len(got) : got[i] = <<wanted.kind, wanted.query, i>>
      /\ Len(got) <= total /\ (Len(got) >= wanted.size \/ Len(got) = total)
      /\ wanted.kind = "mobile" => url.fetched >= Len(got)
  BY <1>2, <1>3 DEF ListsThere
<1> HIDE DEF got, total
<1>6. got = [i \in 1..Len(got) |-> got[i]]
  BY <1>4
<1>7. got = [i \in 1..Len(got) |-> <<wanted.kind, wanted.query, i>>]
  BY <1>5, <1>6
<1>8. Len(got) \in Lists!Least(wanted.size, total)..total
  BY <1>4, <1>5 DEF Lists!Least
<1> QED
  BY <1>2, <1>5, <1>7, <1>8 DEF got, total

-----------------------------------------------------------------------------
(* The filters. *)

FilterNamed == {"Government-PM2.5", "AirBeam-PM2.5", "Government-Ozone", "Phone Microphone"}
FilterLoadable == UNION {SensorsOf[type] : type \in Filter!Types}
FilterParameters == Filter!ParameterTypes \cup {Measures[s] : s \in FilterLoadable}
FilterSensorNames == FilterNamed \cup FilterLoadable \cup {Filter!UnknownSensor}
FilterUrls == [type : Filter!Types, parameter : FilterParameters, sensor : FilterSensorNames,
               names : BOOLEAN, tags : BOOLEAN, indoor : BOOLEAN, active : BOOLEAN,
               thisYear : BOOLEAN]

FilterTypeInv ==
  /\ url \in FilterUrls /\ seen \in FilterUrls /\ late \in FilterUrls \cup {Nothing}
  /\ sensors \in SUBSET FilterLoadable /\ asked \in SUBSET Filter!Types
  /\ fetchingData \in BOOLEAN /\ dormantShown \in BOOLEAN /\ early \in BOOLEAN
  /\ missed \in BOOLEAN /\ overtaken \in BOOLEAN

\* What holds of filters whatever was written late.
FilterSound(u) ==
  /\ u.indoor => u.type = "fixed" /\ ~Filter!Government(u.sensor) /\ ~u.names
  /\ ~u.active => u.type = "fixed"
  /\ u.active /\ u.type = "fixed" => u.thisYear

\* The sensor is one of the type and measures the parameter.
FilterFitting(u) ==
  \/ u.sensor = Filter!UnknownSensor
  \/ /\ u.sensor \in SensorsOf[u.type] \cup Filter!getBasicSensors(u.parameter, u.type)
     /\ Measures[u.sensor] = u.parameter

\* The URL and the one to be put back.
FilterAllSound == FilterSound(url) /\ (late # Nothing => FilterSound(late)) /\ (early \/ FilterFitting(url))

\* The toggle of the panel, and the tags.
FilterShows == (Filter!Rendered => (dormantShown <=> ~url.active)) /\ (offered = "older" => overtaken)

\* A change that was not fetched with will be: by the timer of a custom list, or by that
\* of an input the next render starts.
FilterWillFetch ==
  seen # url /\ ~fetchingData /\ ~missed =>
    \/ "custom" \in timer
    \/ /\ Filter!Inputs(url, panel, open) /\ Filter!Inputs(seen, panel, open)
       /\ seen["names"] # url["names"] \/ seen["tags"] # url["tags"]

\* The inductive invariant.
FilterIInv == FilterTypeInv /\ FilterAllSound /\ FilterShows /\ FilterWillFetch /\ Filter!SessionsAreOfTheFilters

-----------------------------------------------------------------------------
(* The sensors. *)

LEMMA FilterBasicSensors ==
  ASSUME Filter!FiltersAssumption, NEW type \in Filter!Types, NEW parameter \in FilterParameters
  PROVE  \A s \in Filter!getBasicSensors(parameter, type) : s \in FilterNamed /\ Measures[s] = parameter
<1>1. CASE parameter \in Filter!ParameterTypes
  <2>1. Filter!getBasicSensors(parameter, type) \subseteq FilterNamed
    BY <1>1 DEF Filter!ParameterTypes, Filter!getBasicSensors, Filter!DefaultSensor, FilterNamed
  <2> QED
    BY <1>1, <2>1 DEF Filter!FiltersAssumption
<1>2. CASE parameter \notin Filter!ParameterTypes
  BY <1>2 DEF Filter!ParameterTypes, Filter!getBasicSensors
<1> QED
  BY <1>1, <1>2

\* Which of the basic sensors are Government's.
LEMMA FilterGovernmentSensors ==
  ASSUME Filter!FiltersAssumption
  PROVE  /\ Measures["Government-PM2.5"] = "Particulate Matter"
         /\ Measures["Government-Ozone"] = "Ozone"
<1>1. "Government-PM2.5" \in Filter!getBasicSensors("Particulate Matter", "fixed")
  BY DEF Filter!getBasicSensors
<1>2. "Government-Ozone" \in Filter!getBasicSensors("Ozone", "fixed")
  BY DEF Filter!getBasicSensors, Filter!DefaultSensor, Filter!ParameterTypes
<1> QED
  BY <1>1, <1>2 DEF Filter!FiltersAssumption, Filter!Types, Filter!ParameterTypes

\* The sensors that come with a parameter.
LEMMA FilterSetSensorIs ==
  ASSUME FilterTypeInv, NEW parameter \in FilterParameters, NEW s \in Filter!setSensor(parameter)
  PROVE  /\ s \in FilterSensorNames
         /\ s = Filter!UnknownSensor \/ (s \in sensors /\ Measures[s] = parameter)
BY DEF Filter!setSensor, Filter!MeasuredBy, FilterSensorNames, FilterTypeInv

LEMMA FilterToggledIs ==
  ASSUME Filter!FiltersAssumption, NEW type \in Filter!Types
  PROVE  Filter!updateSessionType(type) \in FilterUrls /\ FilterSound(Filter!updateSessionType(type))
         /\ FilterFitting(Filter!updateSessionType(type))
<1> DEFINE s == Filter!DefaultSensor("Particulate Matter", type)
           u == Filter!updateSessionType(type)
<1>1. s \in {"Government-PM2.5", "AirBeam-PM2.5"}
      /\ s \in Filter!getBasicSensors("Particulate Matter", type)
  BY DEF Filter!DefaultSensor, Filter!getBasicSensors, Filter!Types
<1>2. "Particulate Matter" \in FilterParameters
  BY DEF FilterParameters, Filter!ParameterTypes
<1>3. Measures[s] = "Particulate Matter" /\ s \in FilterSensorNames
  BY <1>1, <1>2, FilterBasicSensors DEF FilterSensorNames, FilterNamed
<1>4. u = [type |-> type, parameter |-> "Particulate Matter", sensor |-> s,
           names |-> FALSE, tags |-> FALSE, indoor |-> FALSE, active |-> TRUE, thisYear |-> TRUE]
  BY DEF Filter!updateSessionType
<1> HIDE DEF s, u
<1>5. u \in FilterUrls
  BY <1>2, <1>3, <1>4 DEF FilterUrls
<1>6. u.type = type /\ u.parameter = "Particulate Matter" /\ u.sensor = s
      /\ u.indoor = FALSE /\ u.active = TRUE /\ u.thisYear = TRUE
  BY <1>4
<1>7. FilterSound(u) /\ FilterFitting(u)
  BY <1>1, <1>3, <1>6 DEF FilterSound, FilterFitting
<1> QED
  BY <1>5, <1>7 DEF u

-----------------------------------------------------------------------------
(* Changes of the filters. *)

\* Those that fetch at once.
LEMMA FilterWriteKeeps ==
  ASSUME FilterIInv, NEW u \in FilterUrls, FilterSound(u), Filter!Write(u),
         early' \in BOOLEAN, early' \/ FilterFitting(u), dormantShown' \in BOOLEAN
  PROVE  FilterIInv'
<1>1. /\ url' = u /\ fetchingData' = TRUE /\ seen' = seen /\ late' = late /\ sensors' = sensors
      /\ asked' = asked /\ missed' = missed
      /\ offered' = offered /\ overtaken' = overtaken
  BY DEF Filter!Write, Filter!suggestions
<1>2. FilterUrls' = FilterUrls
  BY DEF FilterUrls, FilterParameters, FilterSensorNames, FilterLoadable
<1>3. FilterTypeInv'
  BY <1>1, <1>2 DEF FilterIInv, FilterTypeInv
<1>4. FilterAllSound'
  BY <1>1 DEF FilterIInv, FilterAllSound, FilterSound, FilterFitting
<1>5. FilterShows'
  BY <1>1 DEF FilterIInv, FilterShows, Filter!Rendered
<1>6. FilterWillFetch' /\ Filter!SessionsAreOfTheFilters'
  BY <1>1 DEF FilterWillFetch, Filter!SessionsAreOfTheFilters, Filter!Rendered
<1> QED
  BY <1>3, <1>4, <1>5, <1>6 DEF FilterIInv

\* Those that fetch a little later.
LEMMA FilterCustomKeeps ==
  ASSUME FilterIInv, Filter!Rendered, NEW u \in FilterUrls, FilterSound(u), u.active = url.active,
         ~Filter!OfTheType \/ FilterFitting(u), Filter!ChooseCustom(u)
  PROVE  FilterIInv'
<1>1. /\ url' = u /\ fetchingData' = fetchingData /\ seen' = seen /\ late' = late
      /\ sensors' = sensors /\ asked' = asked /\ missed' = missed
      /\ offered' = offered /\ overtaken' = overtaken /\ dormantShown' = dormantShown
      /\ timer' = timer \cup {"custom"} /\ early' = (early \/ ~Filter!OfTheType)
  BY DEF Filter!ChooseCustom, Filter!suggestions
<1>2. FilterUrls' = FilterUrls
  BY DEF FilterUrls, FilterParameters, FilterSensorNames, FilterLoadable
<1>3. FilterTypeInv'
  BY <1>1, <1>2 DEF FilterIInv, FilterTypeInv, Filter!OfTheType
<1>4. FilterAllSound'
  BY <1>1 DEF FilterIInv, FilterAllSound, FilterSound, FilterFitting
<1>5. FilterShows'
  BY <1>1 DEF FilterIInv, FilterShows, Filter!Rendered
<1>6. FilterWillFetch' /\ Filter!SessionsAreOfTheFilters'
  BY <1>1 DEF FilterWillFetch, Filter!SessionsAreOfTheFilters, Filter!Rendered
<1> QED
  BY <1>3, <1>4, <1>5, <1>6 DEF FilterIInv

\* An input's.
LEMMA FilterInputKeeps ==
  ASSUME FilterIInv, Filter!Rendered, NEW x \in {"names", "tags"}, x = "names" => ~url.indoor,
    Filter!setFilter(x)
  PROVE  FilterIInv'
<1> DEFINE u == [url EXCEPT ![x] = ~url[x]]
<1>1. /\ url' = u /\ fetchingData' = fetchingData /\ seen' = seen /\ late' = late
      /\ sensors' = sensors /\ asked' = asked /\ missed' = missed
      /\ offered' = offered /\ overtaken' = overtaken /\ dormantShown' = dormantShown
      /\ timer' = timer /\ early' = early /\ panel' = panel /\ open' = open
      /\ isMobile' = isMobile /\ fetchedWith' = fetchedWith
      /\ Filter!Inputs(url, panel, open)
  BY DEF Filter!setFilter, Filter!suggestions
<1>2. FilterUrls' = FilterUrls
  BY DEF FilterUrls, FilterParameters, FilterSensorNames, FilterLoadable
<1>3. url \in FilterUrls /\ FilterSound(url) /\ (early \/ FilterFitting(url)) /\ seen = url
  BY DEF FilterIInv, FilterTypeInv, FilterAllSound, Filter!Rendered
<1>4. /\ u \in FilterUrls /\ u.type = url.type /\ u.parameter = url.parameter /\ u.sensor = url.sensor
      /\ u.indoor = url.indoor /\ u.active = url.active /\ u.thisYear = url.thisYear
      /\ u[x] # url[x] /\ (x = "tags" => u.names = url.names)
  <2>1. CASE x = "names"
    BY <1>3, <2>1 DEF FilterUrls
  <2>2. CASE x = "tags"
    BY <1>3, <2>2 DEF FilterUrls
  <2> QED
    BY <2>1, <2>2
<1> HIDE DEF u
<1>5. FilterTypeInv'
  BY <1>1, <1>2, <1>4 DEF FilterIInv, FilterTypeInv
<1>6. FilterSound(u) /\ (early \/ FilterFitting(u))
  BY <1>3, <1>4 DEF FilterSound, FilterFitting
<1>7. FilterAllSound'
  BY <1>1, <1>6 DEF FilterIInv, FilterAllSound, FilterSound, FilterFitting
<1>8. FilterShows'
  BY <1>1, <1>3, <1>4 DEF FilterIInv, FilterShows, Filter!Rendered
<1>9. FilterWillFetch'
  <2>1. Filter!Inputs(u, panel, open) /\ (seen["names"] # u["names"] \/ seen["tags"] # u["tags"])
    BY <1>1, <1>3, <1>4 DEF Filter!Inputs
  <2> QED
    BY <1>1, <1>3, <2>1 DEF FilterWillFetch, Filter!Inputs
<1>10. Filter!SessionsAreOfTheFilters'
  BY <1>1, <1>3, <1>4 DEF Filter!SessionsAreOfTheFilters, Filter!Rendered
<1> QED
  BY <1>5, <1>7, <1>8, <1>9, <1>10 DEF FilterIInv

\* What leaves the filters as they are.
LEMMA FilterSameFilters ==
  ASSUME FilterIInv, Filter!Rendered,
         UNCHANGED <<url, seen, dormantShown, fetchedWith, early>>,
         late' \in {late, url, Nothing}, sensors' \in SUBSET FilterLoadable,
           asked' \in SUBSET Filter!Types,
         fetchingData' \in BOOLEAN, missed' \in BOOLEAN, overtaken' \in BOOLEAN,
         fetchingData' \/ missed' \/ (timer' = timer /\ missed' = missed),
         offered' = "older" => overtaken'
  PROVE  FilterIInv'
<1>1. FilterUrls' = FilterUrls /\ FilterLoadable' = FilterLoadable
  BY DEF FilterUrls, FilterParameters, FilterSensorNames, FilterLoadable
<1>2. FilterTypeInv'
  BY <1>1 DEF FilterIInv, FilterTypeInv
<1>3. FilterAllSound'
  BY DEF FilterIInv, FilterAllSound, FilterSound, FilterFitting
<1>4. FilterShows'
  BY DEF FilterIInv, FilterShows, Filter!Rendered
<1>5. FilterWillFetch' /\ Filter!SessionsAreOfTheFilters'
  BY DEF FilterIInv, FilterWillFetch, Filter!SessionsAreOfTheFilters, Filter!Rendered
<1> QED
  BY <1>2, <1>3, <1>4, <1>5 DEF FilterIInv

LEMMA FilterShowKeeps ==
  ASSUME FilterIInv, Filter!Rendered, NEW visible, NEW lists, Filter!Show(visible, lists)
  PROVE  FilterIInv'
<1>1. /\ UNCHANGED <<url, seen, dormantShown, fetchedWith, early, late, sensors, asked,
                     fetchingData, offered, overtaken>>
      /\ missed' = (missed \/ timer' # timer)
  BY DEF Filter!Show, Filter!suggestions
<1>2. /\ sensors \in SUBSET FilterLoadable /\ asked \in SUBSET Filter!Types /\ fetchingData \in BOOLEAN
      /\ missed \in BOOLEAN /\ overtaken \in BOOLEAN /\ (offered = "older" => overtaken)
  BY DEF FilterIInv, FilterTypeInv, FilterShows
<1> QED
  BY <1>1, <1>2, FilterSameFilters

LEMMA FilterRenderKeeps ==
  ASSUME FilterIInv, Filter!Render
  PROVE  FilterIInv'
<1>1. /\ seen' = url /\ url' = url /\ fetchingData' = FALSE /\ dormantShown' = ~url.active
      /\ sensors' = sensors /\ late' = late /\ early' = early /\ panel' = panel /\ open' = open
      /\ asked' = IF seen.type = url.type THEN asked ELSE asked \cup {url.type}
      /\ isMobile' = isMobile
  BY DEF Filter!Render
<1>2. FilterUrls' = FilterUrls
  BY DEF FilterUrls, FilterParameters, FilterSensorNames, FilterLoadable
<1>3. IF fetchingData THEN fetchedWith' = url /\ missed' = FALSE
      ELSE fetchedWith' = fetchedWith /\ missed' = missed
  BY DEF Filter!Render
<1>4. \/ offered' = offered /\ overtaken' = overtaken
      \/ offered' = "none" /\ overtaken' = FALSE
  BY DEF Filter!Render, Filter!suggestions
<1>5. url \in FilterUrls /\ url.active \in BOOLEAN /\ url.type \in Filter!Types
  BY DEF FilterIInv, FilterTypeInv, FilterUrls
<1>6. FilterTypeInv'
  BY <1>1, <1>2, <1>3, <1>4, <1>5 DEF FilterIInv, FilterTypeInv
<1>7. FilterAllSound'
  BY <1>1 DEF FilterIInv, FilterAllSound, FilterSound, FilterFitting
<1>8. FilterShows'
  BY <1>1, <1>4 DEF FilterIInv, FilterShows, Filter!Rendered
<1>9. FilterWillFetch'
  BY <1>1 DEF FilterWillFetch
<1>10. Filter!SessionsAreOfTheFilters'
  <2>1. CASE fetchingData
    BY <1>1, <1>3, <2>1 DEF Filter!SessionsAreOfTheFilters
  <2>2. CASE ~fetchingData
    <3>1. seen # url /\ fetchedWith' = fetchedWith /\ missed' = missed
      BY <1>3, <2>2 DEF Filter!Render
    <3>2. CASE missed
      BY <3>1, <3>2 DEF Filter!SessionsAreOfTheFilters
    <3>3. CASE "custom" \in timer
      <4>1. "custom" \in timer'
        BY <3>3 DEF Filter!Render
      <4> QED
        BY <4>1 DEF Filter!SessionsAreOfTheFilters
    <3>4. ASSUME NEW x \in {"names", "tags"}, seen[x] # url[x],
                 Filter!Inputs(url, panel, open), Filter!Inputs(seen, panel, open)
          PROVE  Filter!SessionsAreOfTheFilters'
      <4>1. x \in timer'
        BY <3>4 DEF Filter!Render
      <4> QED
        BY <4>1 DEF Filter!SessionsAreOfTheFilters
    <3> QED
      BY <2>2, <3>1, <3>2, <3>3, <3>4 DEF FilterIInv, FilterWillFetch
  <2> QED
    BY <2>1, <2>2 DEF FilterIInv, FilterTypeInv
<1> QED
  BY <1>6, <1>7, <1>8, <1>9, <1>10 DEF FilterIInv

-----------------------------------------------------------------------------
(* The user. *)

LEMMA FilterOutdoorIs ==
  ASSUME NEW u \in FilterUrls
  PROVE  LET o == Filter!OutdoorFor(u)
         IN  /\ o \in FilterUrls
             /\ o.type = u.type /\ o.parameter = u.parameter /\ o.sensor = u.sensor
             /\ o.names = u.names /\ o.active = u.active /\ o.thisYear = u.thisYear
             /\ o.indoor => u.indoor /\ ~Filter!Government(u.sensor)
             /\ FilterFitting(u) => FilterFitting(o)
<1>1. CASE Filter!Government(u.sensor)
  <2> DEFINE o == [u EXCEPT !.indoor = FALSE]
  <2>1. /\ o \in FilterUrls
        /\ o.type = u.type /\ o.parameter = u.parameter /\ o.sensor = u.sensor
        /\ o.names = u.names /\ o.active = u.active /\ o.thisYear = u.thisYear
        /\ ~o.indoor
    BY DEF FilterUrls
  <2>2. Filter!OutdoorFor(u) = o
    BY <1>1 DEF Filter!OutdoorFor
  <2> HIDE DEF o
  <2> QED
    BY <2>1, <2>2 DEF FilterFitting
<1>2. CASE ~Filter!Government(u.sensor)
  BY <1>2 DEF Filter!OutdoorFor
<1> QED
  BY <1>1, <1>2

LEMMA FilterSetParameterKeeps ==
  ASSUME FilterIInv, NEW parameter \in Filter!ParameterTypes, Filter!setParameterParams(parameter)
  PROVE  FilterIInv'
<1>1. PICK s \in Filter!setSensor(parameter) :
        Filter!Choose(Filter!OutdoorFor([url EXCEPT !.parameter = parameter, !.sensor = s]))
  BY DEF Filter!setParameterParams
<1>2. /\ FilterTypeInv /\ url \in FilterUrls /\ FilterSound(url) /\ sensors \in SUBSET FilterLoadable
      /\ parameter \in FilterParameters /\ early' = ~Filter!OfTheType /\ dormantShown' = dormantShown
      /\ dormantShown \in BOOLEAN
  BY <1>1 DEF FilterIInv, FilterTypeInv, FilterAllSound, FilterParameters,
      Filter!setParameterParams, Filter!Choose
<1>3. s \in FilterSensorNames /\ (s = Filter!UnknownSensor \/ (s \in sensors /\ Measures[s] = parameter))
  BY <1>2, FilterSetSensorIs
<1> DEFINE u == [url EXCEPT !.parameter = parameter, !.sensor = s]
           o == Filter!OutdoorFor(u)
<1>4. /\ u \in FilterUrls /\ u.type = url.type /\ u.parameter = parameter /\ u.sensor = s
      /\ u.names = url.names /\ u.indoor = url.indoor /\ u.active = url.active
      /\ u.thisYear = url.thisYear
  BY <1>2, <1>3 DEF FilterUrls
<1>5. Filter!Write(o)
  BY <1>1 DEF Filter!Choose
<1> HIDE DEF u
<1>6. Filter!OfTheType => FilterFitting(u)
  BY <1>3, <1>4 DEF Filter!OfTheType, FilterFitting
<1>7. /\ o \in FilterUrls
      /\ o.type = u.type /\ o.parameter = u.parameter /\ o.sensor = u.sensor
      /\ o.names = u.names /\ o.active = u.active /\ o.thisYear = u.thisYear
      /\ o.indoor => u.indoor /\ ~Filter!Government(u.sensor)
      /\ FilterFitting(u) => FilterFitting(o)
  BY <1>4, FilterOutdoorIs
<1> HIDE DEF o
<1>8. FilterSound(o)
  BY <1>2, <1>4, <1>7 DEF FilterSound
<1>9. early' \in BOOLEAN /\ (early' \/ FilterFitting(o))
  BY <1>2, <1>6, <1>7
<1> QED
  BY <1>2, <1>5, <1>7, <1>8, <1>9, FilterWriteKeeps

LEMMA FilterSetSensorKeeps ==
  ASSUME Filter!FiltersAssumption, FilterIInv, NEW s, Filter!setSensorParams(s)
  PROVE  FilterIInv'
<1>1. /\ FilterTypeInv /\ url \in FilterUrls /\ FilterSound(url) /\ url.type \in Filter!Types /\ url.parameter \in FilterParameters
      /\ s \in Filter!getBasicSensors(url.parameter, url.type) /\ early' = early
      /\ dormantShown' = dormantShown /\ dormantShown \in BOOLEAN /\ early \in BOOLEAN
  BY DEF FilterIInv, FilterTypeInv, FilterAllSound, FilterUrls, Filter!setSensorParams,
      Filter!Choose
<1>2. s \in FilterNamed /\ Measures[s] = url.parameter
  BY <1>1, FilterBasicSensors
<1> DEFINE u == [url EXCEPT !.sensor = s]
           o == Filter!OutdoorFor(u)
<1>3. /\ u \in FilterUrls /\ u.type = url.type /\ u.parameter = url.parameter /\ u.sensor = s
      /\ u.names = url.names /\ u.indoor = url.indoor /\ u.active = url.active
      /\ u.thisYear = url.thisYear
  BY <1>1, <1>2 DEF FilterUrls, FilterSensorNames
<1>4. Filter!Write(o)
  BY DEF Filter!setSensorParams, Filter!Choose
<1> HIDE DEF u
<1>5. FilterFitting(u)
  BY <1>1, <1>2, <1>3 DEF FilterFitting
<1>6. /\ o \in FilterUrls
      /\ o.type = u.type /\ o.parameter = u.parameter /\ o.sensor = u.sensor
      /\ o.names = u.names /\ o.active = u.active /\ o.thisYear = u.thisYear
      /\ o.indoor => u.indoor /\ ~Filter!Government(u.sensor)
      /\ FilterFitting(u) => FilterFitting(o)
  BY <1>3, FilterOutdoorIs
<1> HIDE DEF o
<1>7. FilterSound(o) /\ FilterFitting(o)
  BY <1>1, <1>3, <1>5, <1>6 DEF FilterSound
<1> QED
  BY <1>1, <1>4, <1>6, <1>7, FilterWriteKeeps

\* Nothing custom of fixed sessions is Government's.
LEMMA FilterCustomIsNotGovernments ==
  ASSUME Filter!FiltersAssumption, NEW s, Filter!Government(s), NEW parameter, Measures[s] = parameter
 
PROVE  parameter \in Filter!getBasicMeasurementTypes("fixed") /\ s \in Filter!getBasicSensors(parameter, "fixed")
<1>1. CASE s = "Government-PM2.5"
  <2>1. parameter = "Particulate Matter"
    BY <1>1, FilterGovernmentSensors
  <2> QED
    BY <1>1, <2>1 DEF Filter!getBasicMeasurementTypes, Filter!getBasicSensors
<1>2. CASE s = "Government-Ozone"
  <2>1. parameter = "Ozone"
    BY <1>2, FilterGovernmentSensors
  <2> QED
    BY <1>2, <2>1 DEF Filter!getBasicMeasurementTypes, Filter!getBasicSensors,
        Filter!DefaultSensor, Filter!ParameterTypes
<1> QED
  BY <1>1, <1>2 DEF Filter!Government

LEMMA FilterCustomParameterKeeps ==
  ASSUME Filter!FiltersAssumption, FilterIInv, Filter!Rendered, NEW parameter,
    Filter!CustomParameterFilter(parameter)
  PROVE  FilterIInv'
<1>1. PICK s \in Filter!setSensor(parameter) :
        Filter!ChooseCustom([url EXCEPT !.parameter = parameter, !.sensor = s])
  BY DEF Filter!CustomParameterFilter
<1>2. /\ FilterTypeInv /\ url \in FilterUrls /\ FilterSound(url) /\ sensors \in SUBSET FilterLoadable
      /\ parameter \in FilterParameters /\ parameter \notin Filter!getBasicMeasurementTypes(url.type)
  BY DEF FilterIInv, FilterTypeInv, FilterAllSound, FilterParameters, Filter!CustomParameterFilter,
      Filter!filterCustomParameters
<1>3. s \in FilterSensorNames /\ (s = Filter!UnknownSensor \/ (s \in sensors /\ Measures[s] = parameter))
  BY <1>2, FilterSetSensorIs
<1> DEFINE u == [url EXCEPT !.parameter = parameter, !.sensor = s]
<1>4. /\ u \in FilterUrls /\ u.type = url.type /\ u.parameter = parameter /\ u.sensor = s
      /\ u.names = url.names /\ u.indoor = url.indoor /\ u.active = url.active
      /\ u.thisYear = url.thisYear
  BY <1>2, <1>3 DEF FilterUrls
<1>5. Filter!ChooseCustom(u)
  BY <1>1
<1> HIDE DEF u
<1>6. Filter!OfTheType => FilterFitting(u)
  BY <1>3, <1>4 DEF Filter!OfTheType, FilterFitting
<1>7. url.type = "fixed" => ~Filter!Government(s)
  <2>1. CASE s = Filter!UnknownSensor
    BY <2>1 DEF Filter!Government, Filter!UnknownSensor
  <2>2. CASE Measures[s] = parameter
    BY <1>2, <2>2, FilterCustomIsNotGovernments
  <2> QED
    BY <1>3, <2>1, <2>2
<1>8. FilterSound(u)
  BY <1>2, <1>4, <1>7 DEF FilterSound
<1> QED
  BY <1>4, <1>5, <1>6, <1>8, FilterCustomKeeps

LEMMA FilterCustomSensorKeeps ==
  ASSUME Filter!FiltersAssumption, FilterIInv, Filter!Rendered, NEW s, Filter!CustomSensorFilter(s)
  PROVE  FilterIInv'
<1>1. /\ FilterTypeInv /\ url \in FilterUrls /\ FilterSound(url) /\ sensors \in SUBSET FilterLoadable
      /\ s \in sensors /\ Measures[s] = url.parameter
      /\ s \notin Filter!getBasicSensors(url.parameter, url.type)
  BY DEF FilterIInv, FilterTypeInv, FilterAllSound, Filter!CustomSensorFilter,
      Filter!filterCustomSensors, Filter!MeasuredBy
<1> DEFINE u == [url EXCEPT !.sensor = s]
<1>2. /\ u \in FilterUrls /\ u.type = url.type /\ u.parameter = url.parameter /\ u.sensor = s
      /\ u.names = url.names /\ u.indoor = url.indoor /\ u.active = url.active
      /\ u.thisYear = url.thisYear
  BY <1>1 DEF FilterUrls, FilterSensorNames
<1>3. Filter!ChooseCustom(u)
  BY DEF Filter!CustomSensorFilter
<1> HIDE DEF u
<1>4. Filter!OfTheType => FilterFitting(u)
  BY <1>1, <1>2 DEF Filter!OfTheType, FilterFitting
<1>5. url.type = "fixed" => ~Filter!Government(s)
  BY <1>1, FilterCustomIsNotGovernments
<1>6. FilterSound(u)
  BY <1>1, <1>2, <1>5 DEF FilterSound
<1> QED
  BY <1>2, <1>3, <1>4, <1>6, FilterCustomKeeps

\* The switches: the type, the parameter and the sensor stay.
LEMMA FilterSwitchKeeps ==
  ASSUME FilterIInv, NEW u \in FilterUrls, FilterSound(u), Filter!Write(u), early' = early,
    dormantShown' \in BOOLEAN,
         u.type = url.type, u.parameter = url.parameter, u.sensor = url.sensor
  PROVE  FilterIInv'
<1>1. early \in BOOLEAN /\ (early \/ FilterFitting(u))
  BY DEF FilterIInv, FilterTypeInv, FilterAllSound, FilterFitting
<1> QED
  BY <1>1, FilterWriteKeeps

LEMMA FilterIndoorKeeps ==
  ASSUME FilterIInv, NEW indoor \in BOOLEAN, Filter!IndoorOutdoorSwitch(indoor)
  PROVE  FilterIInv'
<1> DEFINE u == IF indoor THEN [url EXCEPT !.indoor = TRUE, !.names = FALSE]
                ELSE [url EXCEPT !.indoor = FALSE]
<1>1. /\ url \in FilterUrls /\ FilterSound(url) /\ url.type = "fixed" /\ url.sensor = "AirBeam-PM2.5"
      /\ Filter!Write(u) /\ early' = early /\ dormantShown' = dormantShown /\ dormantShown \in BOOLEAN
  BY DEF FilterIInv, FilterTypeInv, FilterAllSound, Filter!IndoorOutdoorSwitch, Filter!Change,
      Filter!AirBeam
<1>2. /\ u \in FilterUrls /\ u.type = url.type /\ u.parameter = url.parameter /\ u.sensor = url.sensor
      /\ u.active = url.active /\ u.thisYear = url.thisYear
      /\ u.indoor => ~u.names
  BY <1>1 DEF FilterUrls
<1> HIDE DEF u
<1>3. FilterSound(u)
  BY <1>1, <1>2 DEF FilterSound, Filter!Government
<1> QED
  BY <1>1, <1>2, <1>3, FilterSwitchKeeps

LEMMA FilterDormantKeeps ==
  ASSUME FilterIInv, Filter!DormantToggle
  PROVE  FilterIInv'
<1> DEFINE u == [url EXCEPT !.active = ~url.active, !.thisYear = TRUE]
<1>1. /\ url \in FilterUrls /\ FilterSound(url) /\ url.type = "fixed" /\ url.active \in BOOLEAN
      /\ Filter!Write(u) /\ early' = early /\ dormantShown' = url.active
  BY DEF FilterIInv, FilterTypeInv, FilterAllSound, Filter!DormantToggle, FilterUrls
<1>2. /\ u \in FilterUrls /\ u.type = url.type /\ u.parameter = url.parameter /\ u.sensor = url.sensor
      /\ u.names = url.names /\ u.indoor = url.indoor /\ u.thisYear = TRUE
  BY <1>1 DEF FilterUrls
<1> HIDE DEF u
<1>3. FilterSound(u)
  BY <1>1, <1>2 DEF FilterSound
<1> QED
  BY <1>1, <1>2, <1>3, FilterSwitchKeeps

LEMMA FilterTimeKeeps ==
  ASSUME FilterIInv, Filter!Rendered, NEW thisYear \in BOOLEAN, Filter!updateTime(thisYear)
  PROVE  FilterIInv'
<1> DEFINE u == [url EXCEPT !.thisYear = thisYear]
<1>1. /\ url \in FilterUrls /\ FilterSound(url) /\ (url.type = "fixed" => ~url.active)
      /\ Filter!Write(u) /\ early' = early /\ dormantShown' = dormantShown /\ dormantShown \in BOOLEAN
  BY DEF FilterIInv, FilterTypeInv, FilterAllSound, FilterShows, Filter!updateTime, Filter!Change
<1>2. /\ u \in FilterUrls /\ u.type = url.type /\ u.parameter = url.parameter /\ u.sensor = url.sensor
      /\ u.names = url.names /\ u.indoor = url.indoor /\ u.active = url.active
  BY <1>1 DEF FilterUrls
<1> HIDE DEF u
<1>3. FilterSound(u)
  BY <1>1, <1>2 DEF FilterSound
<1> QED
  BY <1>1, <1>2, <1>3, FilterSwitchKeeps

LEMMA FilterToggleKeeps ==
  ASSUME Filter!FiltersAssumption, FilterIInv, NEW type \in Filter!Types, Filter!SessionTypeToggle(type)
  PROVE  FilterIInv'
<1>1. /\ Filter!Write(Filter!updateSessionType(type)) /\ early' = FALSE /\ dormantShown' = FALSE
  BY DEF Filter!SessionTypeToggle
<1> QED
  BY <1>1, FilterToggledIs, FilterWriteKeeps

LEMMA FilterUserKeeps ==
  ASSUME Filter!FiltersAssumption, FilterIInv, Filter!Rendered, Filter!User
  PROVE  FilterIInv'
<1>1. ASSUME Filter!ProfileNamesInput PROVE FilterIInv'
  BY <1>1, FilterInputKeeps DEF Filter!ProfileNamesInput
<1>2. ASSUME Filter!TagsInput PROVE FilterIInv'
  BY <1>2, FilterInputKeeps DEF Filter!TagsInput
<1>3. ASSUME NEW entry \in {"basicParameters", "basicSensors"},
             Filter!handleShowClick(entry) \/ Filter!handleShowMoreClick(entry) \/ Filter!goBack(entry)
      PROVE  FilterIInv'
  <2>1. CASE Filter!handleShowClick(entry)
    BY <2>1, FilterShowKeeps DEF Filter!handleShowClick
  <2>2. CASE Filter!handleShowMoreClick(entry)
    BY <2>2, FilterShowKeeps DEF Filter!handleShowMoreClick
  <2>3. CASE Filter!goBack(entry)
    BY <2>3, FilterShowKeeps DEF Filter!goBack
  <2> QED
    BY <1>3, <2>1, <2>2, <2>3
<1>4. ASSUME Filter!TogglePanel PROVE FilterIInv'
  BY <1>4, FilterShowKeeps DEF Filter!TogglePanel
<1>5. ASSUME Filter!fetchTags PROVE FilterIInv'
  <2>1. UNCHANGED <<url, seen, dormantShown, fetchedWith, early, late, sensors, asked,
                    fetchingData, offered, overtaken, missed, timer>>
    BY <1>5 DEF Filter!fetchTags
  <2>2. /\ sensors \in SUBSET FilterLoadable /\ asked \in SUBSET Filter!Types /\ fetchingData \in BOOLEAN
        /\ missed \in BOOLEAN /\ overtaken \in BOOLEAN /\ (offered = "older" => overtaken)
    BY DEF FilterIInv, FilterTypeInv, FilterShows
  <2> QED
    BY <2>1, <2>2, FilterSameFilters
<1>6. ASSUME NEW b \in BOOLEAN, Filter!IndoorOutdoorSwitch(b) \/ Filter!updateTime(b) PROVE FilterIInv'
  BY <1>6, FilterIndoorKeeps, FilterTimeKeeps
<1> QED
  BY <1>1, <1>2, <1>3, <1>4, <1>5, <1>6, FilterToggleKeeps, FilterSetParameterKeeps,
      FilterSetSensorKeeps,
     FilterCustomParameterKeeps, FilterCustomSensorKeeps, FilterDormantKeeps DEF Filter!User

-----------------------------------------------------------------------------

LEMMA FilterNextKeeps == Filter!FiltersAssumption /\ FilterIInv /\ [Filter!Next]_(Filter!vars) => FilterIInv'
<1> SUFFICES ASSUME Filter!FiltersAssumption, FilterIInv, [Filter!Next]_(Filter!vars) PROVE FilterIInv'
  OBVIOUS
<1>1. /\ sensors \in SUBSET FilterLoadable /\ asked \in SUBSET Filter!Types /\ fetchingData \in BOOLEAN
      /\ missed \in BOOLEAN /\ overtaken \in BOOLEAN /\ (offered = "older" => overtaken)
  BY DEF FilterIInv, FilterTypeInv, FilterShows
<1>2. ASSUME Filter!Rendered, Filter!TimerFires PROVE FilterIInv'
  BY <1>1, <1>2, FilterSameFilters DEF Filter!TimerFires, Filter!suggestions
<1>3. ASSUME Filter!Rendered, Filter!debouncedUpdateURL PROVE FilterIInv'
  BY <1>1, <1>3, FilterSameFilters DEF Filter!debouncedUpdateURL, Filter!suggestions
<1>4. ASSUME Filter!Rendered, NEW type \in Filter!Types, Filter!SensorsArrive(type) PROVE FilterIInv'
  <2>1. SensorsOf[type] \in SUBSET FilterLoadable
    BY DEF FilterLoadable
  <2> QED
    BY <1>1, <1>4, <2>1, FilterSameFilters DEF Filter!SensorsArrive, Filter!suggestions
<1>5. ASSUME Filter!Rendered, NEW of, Filter!TagsArrive(of) PROVE FilterIInv'
  BY <1>1, <1>5, FilterSameFilters DEF Filter!TagsArrive
<1>6. ASSUME Filter!Rendered, Filter!ThresholdsWritten PROVE FilterIInv'
  <2>1. /\ url' = late /\ late' = Nothing /\ late # Nothing
        /\ missed' = (missed \/ url' # url) /\ early' = (early \/ url' # url)
        /\ UNCHANGED <<seen, dormantShown, fetchedWith, sensors, asked, fetchingData, offered,
                       overtaken, timer>>
    BY <1>6 DEF Filter!ThresholdsWritten, Filter!suggestions
  <2>2. CASE late = url
    <3>1. url' = url /\ early' = early /\ missed' = missed
      BY <2>1, <2>2 DEF FilterIInv, FilterTypeInv
    <3> QED
      BY <1>1, <1>6, <2>1, <3>1, FilterSameFilters
  <2>3. CASE late # url
    <3>1. FilterUrls' = FilterUrls
      BY DEF FilterUrls, FilterParameters, FilterSensorNames, FilterLoadable
    <3>2. FilterTypeInv'
      BY <2>1, <3>1 DEF FilterIInv, FilterTypeInv, FilterLoadable
    <3>3. FilterAllSound'
      BY <2>1, <2>3 DEF FilterIInv, FilterAllSound, FilterSound
    <3>4. FilterShows' /\ FilterWillFetch' /\ Filter!SessionsAreOfTheFilters'
      BY <1>6, <2>1, <2>3 DEF FilterIInv, FilterShows, FilterWillFetch,
          Filter!SessionsAreOfTheFilters, Filter!Rendered
    <3> QED
      BY <3>2, <3>3, <3>4 DEF FilterIInv
  <2> QED
    BY <2>2, <2>3
<1>7. CASE UNCHANGED Filter!vars
  BY <1>7 DEF Filter!vars, Filter!suggestions, FilterIInv, FilterTypeInv, FilterAllSound,
      FilterSound, FilterFitting, FilterShows, FilterWillFetch, Filter!Inputs,
              Filter!SessionsAreOfTheFilters, Filter!Rendered, FilterUrls, FilterParameters,
      FilterSensorNames, FilterLoadable
<1> QED
  BY <1>2, <1>3, <1>4, <1>5, <1>6, <1>7, FilterRenderKeeps, FilterUserKeeps DEF Filter!Next

LEMMA FilterInitHolds == Filter!FiltersAssumption /\ Filter!Init => FilterIInv
<1> SUFFICES ASSUME Filter!FiltersAssumption, Filter!Init PROVE FilterIInv
  OBVIOUS
<1>1. url \in FilterUrls /\ FilterSound(url) /\ FilterFitting(url) /\ (dormantShown => ~url.active)
  <2>1. ASSUME NEW type \in Filter!Types, url = Filter!updateSessionType(type)
        PROVE  url \in FilterUrls /\ FilterSound(url) /\ FilterFitting(url)
    BY <2>1, FilterToggledIs
  <2>2. CASE url = [Filter!updateSessionType("fixed") EXCEPT !.sensor = "AirBeam-PM2.5",
           !.indoor = TRUE,
                                                            !.active = FALSE, !.tags = TRUE]
    <3> DEFINE f == Filter!updateSessionType("fixed")
    <3>1. f \in FilterUrls /\ f.type = "fixed" /\ f.parameter = "Particulate Matter" /\ f.names = FALSE
      BY FilterToggledIs DEF Filter!Types, Filter!updateSessionType
    <3>2. "AirBeam-PM2.5" \in Filter!getBasicSensors("Particulate Matter", "fixed")
      BY DEF Filter!getBasicSensors
    <3>3. "AirBeam-PM2.5" \in FilterSensorNames /\ Measures["AirBeam-PM2.5"] = "Particulate Matter"
      BY <3>1, <3>2, FilterBasicSensors DEF FilterSensorNames, FilterUrls
    <3>4. url = [f EXCEPT !.sensor = "AirBeam-PM2.5", !.indoor = TRUE, !.active = FALSE, !.tags = TRUE]
      BY <2>2
    <3> HIDE DEF f
    <3>5. /\ url \in FilterUrls /\ url.type = "fixed" /\ url.sensor = "AirBeam-PM2.5" /\ ~url.active
          /\ url.parameter = "Particulate Matter" /\ ~url.names
      BY <3>1, <3>3, <3>4 DEF FilterUrls
    <3> QED
      BY <3>2, <3>3, <3>5 DEF FilterSound, FilterFitting, Filter!Government
  <2> QED
    BY <2>1, <2>2 DEF Filter!Init, Filter!Links
<1>2. FilterTypeInv
  BY <1>1 DEF Filter!Init, FilterTypeInv, FilterUrls
<1> QED
  BY <1>1, <1>2 DEF Filter!Init, FilterIInv, FilterAllSound, FilterShows, FilterWillFetch,
      Filter!SessionsAreOfTheFilters, Filter!Rendered

LEMMA FilterInvImplies == FilterIInv => Filter!FiltersAgree /\ Filter!SessionsAreOfTheFilters
BY DEF FilterIInv, FilterAllSound, FilterSound, FilterFitting, FilterShows, Filter!FiltersAgree

-----------------------------------------------------------------------------
(* What follows for the page. *)

\* Each screen keeps its invariant while it is shown.
MapScreensInv ==
  /\ screen = "markers" => MarkersIInv
  /\ screen = "dormant" => DormantIInv
  /\ screen = "lists" => ListsIInv
  /\ screen = "filters" => FilterIInv
  /\ screen = "views" => ViewsIInv
  /\ screen = "search" => SearchIInv
  /\ screen = "overlays" => OverlayIInv
  /\ screen = "crowd" => CrowdIInv
  /\ screen = "consent" => CookieIInv
  /\ screen \in {"panel", "link"} => PopupIInv

LEMMA MapScreensInit == WebInit => MapScreensInv
<1> SUFFICES ASSUME WebInit PROVE MapScreensInv
  OBVIOUS
<1>1. /\ screen = "markers" => Markers!Init
      /\ screen = "dormant" => Dormant!Init
      /\ screen = "lists" => Lists!Init
      /\ screen = "filters" => Filter!Init
      /\ screen = "views" => Views!Init
      /\ screen = "search" => Search!Init
      /\ screen = "overlays" => Overlay!Init
      /\ screen = "crowd" => Crowd!Init
      /\ screen = "consent" => Cookies!Init
      /\ screen \in {"panel", "link"} => Popup!Init
  BY DEF WebInit, ScreenInit
<1> QED
  BY <1>1, WebConstants, MarkersInitHolds, DormantInitHolds, OverlayInitHolds, CrowdInitHolds,
    CookieInitHolds, PopupInitHolds, ViewsInitHolds, SearchInitHolds,
    ListsInitHolds, FilterInitHolds
  DEF MapScreensInv

LEMMA MapScreensNext == MapScreensInv /\ [WebNext]_all => MapScreensInv'
<1> SUFFICES ASSUME MapScreensInv, [WebNext]_all PROVE MapScreensInv'
  OBVIOUS
<1>1. screen' = screen
  BY MapSteps
<1>2. screen = "overlays" => OverlayIInv'
  BY MapSteps, OverlayNextKeeps DEF MapScreensInv
<1>3. screen = "crowd" => CrowdIInv'
  BY MapSteps, WebConstants, CrowdNextKeeps DEF MapScreensInv
<1>4. screen = "consent" => CookieIInv'
  BY MapSteps, WebConstants, CookieNextKeeps DEF MapScreensInv
<1>5. screen \in {"panel", "link"} => PopupIInv'
  BY MapSteps, WebConstants, PopupNextKeeps DEF MapScreensInv
<1>6. screen = "markers" => MarkersIInv'
  BY MapSteps, WebConstants, MarkersNextKeeps DEF MapScreensInv
<1>7. screen = "dormant" => DormantIInv'
  BY MapSteps, DormantNextKeeps DEF MapScreensInv
<1>8. screen = "views" => ViewsIInv'
  BY MapSteps, ViewsNextKeeps DEF MapScreensInv
<1>9. screen = "search" => SearchIInv'
  BY MapSteps, WebConstants, SearchNextKeeps DEF MapScreensInv
<1>10. screen = "lists" => ListsIInv'
  BY MapSteps, WebConstants, ListsNextKeeps DEF MapScreensInv
<1>11. screen = "filters" => FilterIInv'
  BY MapSteps, WebConstants, FilterNextKeeps DEF MapScreensInv
<1> QED
  BY <1>1, <1>2, <1>3, <1>4, <1>5, <1>6, <1>7, <1>8, <1>9, <1>10, <1>11 DEF MapScreensInv

\* Whatever screen is shown, its invariant holds throughout.
THEOREM MapScreensHold == WebSpec => []MapScreensInv
BY MapScreensInit, MapScreensNext, PTL DEF WebSpec

\* Whatever is shown, chosen, moved, opened, answered and refused on these screens, their
\* stores, URLs, markers, calls and timers hold what their types say.
THEOREM MapTypesHold ==
  WebSpec => [](/\ screen = "markers" => MarkersTypeInv
                /\ screen = "dormant" => DormantTypeInv
                /\ screen = "lists" => ListsTypeInv
                /\ screen = "filters" => FilterTypeInv
                /\ screen = "views" => ViewsTypeInv
                /\ screen = "overlays" => OverlayTypeInv
                /\ screen = "crowd" => CrowdTypeInv
                /\ screen = "consent" => CookieTypeInv
                /\ screen \in {"panel", "link"} => PopupTypeInv)
<1>1. MapScreensInv => /\ screen = "markers" => MarkersTypeInv
                       /\ screen = "dormant" => DormantTypeInv
                       /\ screen = "lists" => ListsTypeInv
                       /\ screen = "filters" => FilterTypeInv
                       /\ screen = "views" => ViewsTypeInv
                       /\ screen = "overlays" => OverlayTypeInv
                       /\ screen = "crowd" => CrowdTypeInv
                       /\ screen = "consent" => CookieTypeInv
                       /\ screen \in {"panel", "link"} => PopupTypeInv
  BY DEF MapScreensInv, MarkersIInv, DormantIInv, ListsIInv, FilterIInv, ViewsIInv, OverlayIInv,
    CrowdIInv, CookieIInv, PopupIInv
<1> QED
  BY <1>1, MapScreensHold, PTL

\* However renders, the two listeners of the clusterer and the selection interleave:
\* with the map at rest each session in view has one marker or is in one cluster, and
\* with a stream open its session alone is shown.
THEOREM EachSessionIsShownOnce == WebSpec => []EachSessionShownOnce
<1>1. MapScreensInv => EachSessionShownOnce
  BY MarkersInvImplies, DormantInvImplies DEF MapScreensInv, EachSessionShownOnce
<1> QED
  BY <1>1, MapScreensHold, PTL

\* Whatever filters, moves of the map, pages, updates in real time and reloads the
\* answers race with: with nothing under way the list is the one asked for last, in order,
\* without a gap or a copy, as long as was asked for, and the URL counts it for a reload;
\* what the code leaves open is named in excused.
THEOREM ListsAreAsAsked == WebSpec => []ListIsWhatWasAskedFor
<1>1. MapScreensInv => ListIsWhatWasAskedFor
  BY WebConstants, ListsInvImplies DEF MapScreensInv, ListIsWhatWasAskedFor
<1> QED
  BY <1>1, MapScreensHold, PTL

\* However types, parameters, sensors, profiles, tags and switches are chosen, answered
\* and written late: the filters make sense together, and with no timer running the
\* sessions shown were fetched with them.
THEOREM FiltersMakeSense == WebSpec => []FiltersAgree
<1>1. MapScreensInv => FiltersAgree
  BY FilterInvImplies DEF MapScreensInv, FiltersAgree
<1> QED
  BY <1>1, MapScreensHold, PTL

\* However markers, panels, links and the way back are used and renders fall between: at
\* rest on the map it is where it was left, and a session is open exactly in the view of
\* it, on a wide screen always and on a phone until it goes through another panel.
THEOREM MapIsWhereItWasLeft == WebSpec => []MapGoesBack
<1>1. MapScreensInv => MapGoesBack
  BY ViewsInvImplies DEF MapScreensInv, MapGoesBack
<1> QED
  BY <1>1, MapScreensHold, PTL

\* Whatever is typed, picked, cleared, looked for and answered late: suggestions are those
\* for the text, the city in the URL is where the map is, and a recent search is there
\* once, but for the exceptions SearchIsSettled names.
THEOREM SearchSettles == WebSpec => []SearchIsSettled
<1>1. MapScreensInv => SearchIsSettled
  BY SearchInvImplies DEF MapScreensInv, SearchIsSettled
<1> QED
  BY <1>1, MapScreensHold, PTL

\* Whatever the order of setters, onAdd, draw and onRemove: an overlay that is drawn
\* looks as its object says, and one that was taken off is not on the page.
THEOREM OverlaysAreDrawnAsAsked == WebSpec => []DrawnAsAsked
<1>1. MapScreensInv => DrawnAsAsked
  BY OverlayInvImplies DEF MapScreensInv, DrawnAsAsked
<1> QED
  BY <1>1, MapScreensHold, PTL

\* Whatever order the requests of the crowd map are answered in: with nothing under way
\* its rectangles are those of the filters, and what is shown of one is about it.
THEOREM CrowdMapFollows == WebSpec => []CrowdMapIsOfTheFilters
<1>1. MapScreensInv => CrowdMapIsOfTheFilters
  BY CrowdInvImplies DEF MapScreensInv, CrowdMapIsOfTheFilters
<1> QED
  BY <1>1, MapScreensHold, PTL

\* In any number of tabs, whatever timers were started before: what was refused in the
\* cookie settings is neither kept nor tracked.
THEOREM RefusalsAreObeyed == WebSpec => []RefusalIsObeyed
<1>1. MapScreensInv => RefusalIsObeyed
  BY CookieInvImplies DEF MapScreensInv, RefusalIsObeyed
<1> QED
  BY <1>1, MapScreensHold, PTL

\* However lists and addresses change while a popup is open: an export is of sessions
\* the list shows, within its limit, and a copied link is of an address the page had.
THEOREM PopupsSendWhatIsShown == WebSpec => []PopupsSendWhatTheyShow
<1>1. MapScreensInv => PopupsSendWhatTheyShow
  BY PopupInvImplies DEF MapScreensInv, PopupsSendWhatTheyShow
<1> QED
  BY <1>1, MapScreensHold, PTL
=============================================================================
