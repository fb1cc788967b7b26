---------------------------- MODULE MapOverlays -----------------------------
(***************************************************************************)
(* An overlay the site draws on the map by hand.                           *)
(*                                                                         *)
(* Code: the four subclasses of google.maps.OverlayView.  An overlay keeps *)
(* fields, and a div while it is drawn; React components hold overlays in  *)
(* refs and call their setters whenever an effect runs.  setMap only asks: *)
(* Google Maps calls onAdd, and draw, some time later, so a setter meets   *)
(* an overlay before its div is there, while it is, and after it is gone.  *)
(* Each setter has to patch the div by itself, and onAdd has to make of    *)
(* the fields what the setters would have made.                            *)
(*                                                                         *)
(* A colour stands for all of an overlay's look that is simply stored and  *)
(* assigned: colour, title, size, value and unit.                          *)
(***************************************************************************)
EXTENDS Integers

CONSTANTS
  Colors,
  Places         \* where a marker may be

VARIABLES
  class,
  fields,        \* of the object
  onMap,         \* what setMap was last called with is not null
  div,           \* of the object: what the page shows
  registered     \* it is in the map's __customMarkers

vars == <<class, fields, onMap, div, registered>>

Marker == "CustomMarker"             \* a dot, with notes perhaps
Glow == "CustomMarkerOverlay"        \* around the dot of a session
Label == "LabelOverlay"              \* beside it
Cluster == "ClusterOverlay"

NoDiv == [pane |-> "none"]

\* The constructors.  That of a cluster calls setMap at once.
Init ==
  /\ class \in {Marker, Glow, Label, Cluster}
  /\ fields \in [at : Places, color : Colors, pulses : BOOLEAN, selected : BOOLEAN,
                 level : {0}, notes : BOOLEAN, invisible : BOOLEAN]
  /\ fields.pulses => class \in {Glow, Cluster}
  /\ fields.selected => class \in {Glow, Label}
  /\ fields.notes \/ fields.invisible => class = Marker
  /\ onMap = (class = Cluster)
  /\ div = NoDiv
  /\ registered = FALSE

-----------------------------------------------------------------------------
(* What the div shows. *)

\* Of a glow, and of a label.
applyStyles(d, f) ==
  [d EXCEPT !.color = f.color, !.pulses = f.pulses, !.selected = f.selected, !.level = f.level]

\* Of a cluster: one that pulsates is raised, and one that does no longer is not lowered.
applyClusterStyles(d, f) ==
  [d EXCEPT !.color = f.color, !.pulses = f.pulses, !.level = IF f.pulses THEN 2 ELSE @]

draw(d, f) == IF d = NoDiv THEN d ELSE [d EXCEPT !.at = f.at]

\* Without a div there is nothing to style.
update(d, f) == IF d = NoDiv THEN d ELSE applyStyles(d, f)

Bare(pane) ==
  [pane |-> pane, at |-> 0, color |-> 0, pulses |-> FALSE, selected |-> FALSE,
   level |-> 0, notes |-> FALSE]

\* A marker's level is not among what its onAdd makes.
AddedMarker(f) ==
  [Bare("overlayMouseTarget") EXCEPT !.color = f.color,
                                     !.pulses = f.pulses /\ ~f.invisible,
                                     !.notes = f.notes]

AddedGlow(f) == applyStyles(Bare("overlayLayer"), f)

AddedLabel(f) == applyStyles(Bare("overlayMouseTarget"), f)

AddedCluster(f) ==
  LET bare == Bare(IF f.pulses THEN "floatPane" ELSE "overlayMouseTarget")
  IN  applyClusterStyles([bare EXCEPT !.level = 1], f)

Added(f) ==
  CASE class = Marker -> AddedMarker(f)
    [] class = Glow -> AddedGlow(f)
    [] class = Label -> AddedLabel(f)
    [] class = Cluster -> AddedCluster(f)

\* A marker with notes is registered with its map.
createNoteContainer(f) == registered' = (registered \/ (onMap /\ f.notes))

-----------------------------------------------------------------------------
(* Google Maps. *)

\* setMap(map) of an overlay that is on the map changes nothing.
setMap ==
  /\ onMap' = TRUE
  /\ UNCHANGED <<class, fields, div, registered>>

\* setMap(null): onRemove runs at once if onAdd did.  There is no map any more then
\* for it to deregister a marker from.
onRemove ==
  /\ onMap' = FALSE
  /\ div' = NoDiv
  /\ UNCHANGED <<class, fields, registered>>

\* The panes are ready: onAdd, and draw.
onAdd ==
  /\ onMap /\ div = NoDiv
  /\ div' = draw(Added(fields), fields)
  /\ IF class = Marker THEN createNoteContainer(fields) ELSE UNCHANGED registered
  /\ UNCHANGED <<class, fields, onMap>>

-----------------------------------------------------------------------------
(* The setters of a marker. *)

Sets(f) == fields' = f /\ UNCHANGED <<class, onMap>>

Patch(f, d) == Sets(f) /\ div' = d /\ UNCHANGED registered

setPosition(p) ==
  LET f == [fields EXCEPT !.at = p] IN class = Marker /\ Patch(f, draw(div, f))

\* The dot is the first child of the div; an invisible marker has none.
setColor(c) ==
  /\ class = Marker
  /\ Patch([fields EXCEPT !.color = c],
           IF div = NoDiv \/ fields.invisible THEN div ELSE [div EXCEPT !.color = c])

setZIndex(z) ==
  /\ class = Marker
  /\ Patch([fields EXCEPT !.level = z],
           IF div = NoDiv THEN div ELSE [div EXCEPT !.level = z])

\* Only visible markers are ever told to pulsate.
setPulsating(b) ==
  /\ class = Marker /\ ~fields.invisible
  /\ Patch([fields EXCEPT !.pulses = b],
           IF div = NoDiv THEN div ELSE [div EXCEPT !.pulses = b])

\* The notes that were there go, from the page too, before the new ones come.
setNotes(b) ==
  LET f == [fields EXCEPT !.notes = b]
      emptied == IF div = NoDiv THEN div ELSE [div EXCEPT !.notes = FALSE]
  IN  /\ class = Marker
      /\ Sets(f)
      /\ IF b /\ div # NoDiv
         THEN div' = draw([emptied EXCEPT !.notes = TRUE], f) /\ createNoteContainer(f)
         ELSE div' = draw(emptied, f) /\ UNCHANGED registered

-----------------------------------------------------------------------------
(* The setters of the other overlays. *)

\* setColor, setIsSelected and setShouldPulse of a glow.
SetGlow(c, s, p) ==
  LET f == [fields EXCEPT !.color = c, !.selected = s, !.pulses = p]
  IN  class = Glow /\ Patch(f, update(div, f))

\* update and setZIndex of a label.
SetLabel(c, s, z) ==
  LET f == [fields EXCEPT !.color = c, !.selected = s, !.level = z]
  IN  class = Label /\ Patch(f, update(div, f))

\* A cluster that pulsates is above everything, one that does no longer goes to the
\* layer below the markers, where onAdd would not have put it.
updatePane(d, p) ==
  IF d = NoDiv THEN d ELSE [d EXCEPT !.pane = IF p THEN "floatPane" ELSE "overlayLayer"]

\* Mutant of setShouldPulse: the pane changes, the style does not.
PaneOnly(p) ==
  LET f == [fields EXCEPT !.pulses = p]
  IN  class = Cluster /\ p # fields.pulses /\ Patch(f, updatePane(div, p))

setShouldPulse(p) ==
  LET f == [fields EXCEPT !.pulses = p]
  IN  /\ class = Cluster
      /\ p # fields.pulses
      /\ Patch(f, IF div = NoDiv THEN div ELSE applyClusterStyles(updatePane(div, p), f))

Next ==
  \/ setMap \/ onRemove \/ onAdd
  \/ \E p \in Places : setPosition(p)
  \/ \E c \in Colors : setColor(c)
  \/ \E z \in {0, 1} : setZIndex(z)
  \/ \E b \in BOOLEAN : setPulsating(b) \/ setNotes(b) \/ setShouldPulse(b)
  \/ \E c \in Colors, s, p \in BOOLEAN : SetGlow(c, s, p)
  \/ \E c \in Colors, s \in BOOLEAN, z \in {0, 1} : SetLabel(c, s, z)

Spec == Init /\ [][Next]_vars

-----------------------------------------------------------------------------
(* Whenever the setters were called, before Google Maps added the overlay, *)
(* while it is drawn, or while it was hidden: what is drawn is what the    *)
(* object holds, a cluster is raised above the markers while it pulsates   *)
(* and then only, and nothing of an overlay that was taken off the map is  *)
(* left on the page.                                                       *)
(* Excused are the level of a marker, which is lost when it was set before *)
(* onAdd; the colour of a marker that has no dot; and a cluster that       *)
(* pulsated: it is not put back where onAdd had it, but ends below the     *)
(* markers with the level it had above them.                               *)
(***************************************************************************)
DrawnAsAsked ==
  /\ ~onMap => div = NoDiv
  /\ div # NoDiv =>
       /\ <<div.at, div.pulses, div.selected, div.notes>>
            = <<fields.at, fields.pulses, fields.selected, fields.notes>>
       /\ fields.invisible \/ div.color = fields.color
       /\ class \in {Glow, Label} => div.level = fields.level
       /\ class = Cluster =>
            IF fields.pulses THEN <<div.pane, div.level>> = <<"floatPane", 2>>
            ELSE <<div.pane, div.level>> \in {<<"overlayMouseTarget", 1>>, <<"overlayLayer", 2>>}
=============================================================================
