------------------------------ MODULE Consent -------------------------------
(***************************************************************************)
(* What the visitor allows the site to keep, and what it keeps.            *)
(*                                                                         *)
(* Code: CookieManager, the cookie banner and settings, the loader of      *)
(* Google Tag Manager in the page, and the places that remember something  *)
(* of a visit.  The choice is in localStorage, which all tabs of the site  *)
(* share; it is applied in the tab where it was made: what is kept is      *)
(* removed, and the tags of this page are told.  Nobody tells other tabs,  *)
(* which read the choice when they next ask for it, or are loaded again.   *)
(*                                                                         *)
(* A choice is the set of what it grants.  Outside: the tags, that keep    *)
(* cookies of their own unless they are denied.                            *)
(***************************************************************************)
EXTENDS Naturals

CONSTANTS
  Tabs,
  Tracking,      \* the analytics and the marketing tags
  Nothing,       \* no choice was made, no tab, no settings are open
  MaxChoices     \* BOUND: choices made

Grantable == Tracking \cup {"preferences"}

\* What the site itself keeps: the place in the list of sessions, the chosen ranges of
\* time, the bounds of the last search, where the map was, and the places searched for.
Remembered == {"scroll", "range", "bounds", "camera", "recents"}

\* What is asked of the constants.
ConsentAssumption ==
  /\ Nothing \notin Tabs /\ \A S \in SUBSET Grantable : S # Nothing
  /\ "preferences" \notin Tracking /\ Tracking \cap Remembered = {}

VARIABLES
  stored,        \* cookiePreferences in localStorage
  kept,          \* cookies and other items: of Remembered, and of the tags
  page,          \* per tab, the page in it
  choices,       \* made so far
  by,            \* history: the tab that applied the stored choice, if one did
  strayed        \* history: a tag of that tab kept something against the choice

vars == <<stored, kept, page, choices, by, strayed>>

\* gtm: the script is absent, arriving or running.  denied: what its tags were told
\* not to keep.  hasty: history, they should have been while it was arriving.
NewPage(choice) ==
  [gtm |-> IF choice # Nothing /\ Tracking \subseteq choice THEN "arriving" ELSE "absent",
   denied |-> {},
   hasty |-> {},
   banner |-> choice = Nothing,
   settings |-> Nothing]    \* the preferences the open settings show

Init ==
  /\ stored = Nothing
  /\ kept = {}
  /\ page = [t \in Tabs |-> NewPage(Nothing)]
  /\ choices = 0
  /\ by = Nothing
  /\ strayed = FALSE

loadPreferences == IF stored = Nothing THEN {} ELSE stored

arePreferenceCookiesAllowed == "preferences" \in loadPreferences

-----------------------------------------------------------------------------
(* A choice is made. *)

\* Mutant of Removed: the items in localStorage are forgotten about.
RemovedCookies(choice) ==
  (Tracking \ choice) \cup (IF "preferences" \in choice THEN {} ELSE {"bounds"})

\* Where the map was stays, and so do the places searched for.
Removed(choice) ==
  (Tracking \ choice)
    \cup (IF "preferences" \in choice THEN {} ELSE {"scroll", "range", "bounds"})

\* The tags can be told only once their script is there.  Every change of consent loads
\* the script when both kinds of tags are granted.
applyPreferences(p, choice) ==
  LET refused == Tracking \ choice
  IN  [p EXCEPT !.denied = IF p.gtm = "running" THEN refused ELSE @,
                !.hasty = IF p.gtm = "arriving" THEN refused
                          ELSE IF p.gtm = "running" THEN {} ELSE @,
                !.gtm = IF refused = {} /\ @ = "absent" THEN "arriving" ELSE @]

\* savePreferences and applyPreferences, on a page that is p otherwise.
Choose(t, p, choice) ==
  /\ choices < MaxChoices
  /\ choices' = choices + 1
  /\ stored' = choice
  /\ kept' = kept \ Removed(choice)
  /\ page' = [page EXCEPT ![t] = applyPreferences(p, choice)]
  /\ by' = t
  /\ strayed' = FALSE

Banner(t) == page[t].banner

NoBanner(t) == [page[t] EXCEPT !.banner = FALSE]

handleAllowAll(t) == Banner(t) /\ Choose(t, NoBanner(t), Grantable)

handleDenyAll(t) == Banner(t) /\ Choose(t, NoBanner(t), {})

\* The settings open on what is stored.
handleSettingsClick(t) ==
  /\ Banner(t)
  /\ page' = [page EXCEPT ![t] = [NoBanner(t) EXCEPT !.settings = loadPreferences]]
  /\ UNCHANGED <<stored, kept, choices, by, strayed>>

Settings(t) == page[t].settings # Nothing

Dismissed(t) == [page[t] EXCEPT !.settings = Nothing]

Toggled(choice, key) == IF key \in choice THEN choice \ {key} ELSE choice \cup {key}

\* A toggle turns what it shows, in the settings and in what is stored by now, and
\* applies that at once.
handlePreferenceChange(t, key) ==
  LET now == Toggled(page[t].settings, key)
      choice == IF key \in now THEN loadPreferences \cup {key} ELSE loadPreferences \ {key}
  IN  Settings(t) /\ Choose(t, [page[t] EXCEPT !.settings = now], choice)

handleAcceptAll(t) == Settings(t) /\ Choose(t, Dismissed(t), Grantable)

handleRejectAll(t) == Settings(t) /\ Choose(t, Dismissed(t), {})

\* Save stores what the settings show and applies nothing.
handleSave(t) ==
  /\ Settings(t)
  /\ choices < MaxChoices
  /\ choices' = choices + 1
  /\ stored' = page[t].settings
  /\ page' = [page EXCEPT ![t] = Dismissed(t)]
  /\ by' = IF page[t].settings = loadPreferences THEN by ELSE Nothing
  /\ UNCHANGED <<kept, strayed>>

onClose(t) ==
  /\ Settings(t)
  /\ page' = [page EXCEPT ![t] = Dismissed(t)]
  /\ UNCHANGED <<stored, kept, choices, by, strayed>>

-----------------------------------------------------------------------------
(* Things are remembered. *)

Keep(items) ==
  /\ kept' = IF arePreferenceCookiesAllowed THEN kept \cup items ELSE kept
  /\ UNCHANGED <<stored, choices, by, strayed>>

\* The timer that a scroll started: whether to is asked only now.
saveScrollPosition == Keep({"scroll"}) /\ UNCHANGED page

\* The list is collapsed.
forgetScrollPosition ==
  /\ kept' = IF arePreferenceCookiesAllowed THEN kept \ {"scroll"} ELSE kept
  /\ UNCHANGED <<stored, page, choices, by, strayed>>

setLastSelectedTimeRange == Keep({"range"}) /\ UNCHANGED page

\* Sessions are fetched.
saveMapBounds == Keep({"bounds"}) /\ UNCHANGED page

handleMapIdle == Keep({"camera"}) /\ UNCHANGED page

\* The list of places searched for is written whenever it changes: nothing is asked.
WriteRecents(items) ==
  /\ kept' = (kept \ {"recents"}) \cup items
  /\ UNCHANGED <<stored, page, choices, by, strayed>>

addRecent == WriteRecents({"recents"})

clearRecents == "recents" \in kept /\ WriteRecents({})

-----------------------------------------------------------------------------
(* Pages and tags. *)

\* The tab is loaded anew, or closed and another one is opened.
Load(t) ==
  /\ page' = [page EXCEPT ![t] = NewPage(stored)]
  /\ by' = IF by = t THEN Nothing ELSE by
  /\ UNCHANGED <<stored, kept, choices, strayed>>

loadGoogleTagManager(t) ==
  /\ page[t].gtm = "arriving"
  /\ page' = [page EXCEPT ![t].gtm = "running"]
  /\ UNCHANGED <<stored, kept, choices, by, strayed>>

\* A tag keeps something.
Track(t, kind) ==
  /\ page[t].gtm = "running"
  /\ kind \notin page[t].denied
  /\ kept' = kept \cup {kind}
  /\ strayed' = (strayed \/ (t = by /\ kind \notin loadPreferences \cup page[t].hasty))
  /\ UNCHANGED <<stored, page, choices, by>>

Next ==
  \/ \E t \in Tabs :
       \/ handleAllowAll(t) \/ handleDenyAll(t) \/ handleSettingsClick(t)
       \/ \E key \in Grantable : handlePreferenceChange(t, key)
       \/ handleAcceptAll(t) \/ handleRejectAll(t) \/ handleSave(t) \/ onClose(t)
       \/ Load(t) \/ loadGoogleTagManager(t)
       \/ \E kind \in Tracking : Track(t, kind)
  \/ saveScrollPosition \/ forgetScrollPosition
  \/ setLastSelectedTimeRange \/ saveMapBounds \/ handleMapIdle
  \/ addRecent \/ clearRecents

Spec == Init /\ [][Next]_vars

-----------------------------------------------------------------------------
(* As long as the stored choice is one that some tab applied, and whatever *)
(* the other tabs do: where preferences are refused neither the place in   *)
(* the list nor the ranges of time nor the bounds of the search are        *)
(* remembered, and the tags of that tab keep nothing they were refused.    *)
(* Exceptions: where the map was, which no refusal removes; the places     *)
(* searched for, which are remembered without asking and which no refusal  *)
(* removes; a tab whose tag manager was still arriving when it was         *)
(* refused; and the settings of one tab saved over the choice another tab  *)
(* made meanwhile.                                                         *)
(***************************************************************************)
RefusalIsObeyed ==
  by # Nothing =>
    /\ ~arePreferenceCookiesAllowed => kept \cap Remembered \subseteq {"camera", "recents"}
    /\ ~strayed
=============================================================================
