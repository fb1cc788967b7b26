------------------------------- MODULE Popups -------------------------------
(***************************************************************************)
(* The popups that send something on: sessions to be exported, and a link. *)
(*                                                                         *)
(* Code: the panel with the list of sessions and its export button,        *)
(* ExportDataComponent and its thunk, CopyLinkComponent with its modal and *)
(* the hook that has the address shortened.  What a popup sends is what    *)
(* its component holds when it is submitted.  The list of sessions, the    *)
(* chosen sensor and the address of the page go on changing while a popup  *)
(* is open, and a form goes with what it held when the list gets too long  *)
(* or empty.                                                               *)
(*                                                                         *)
(* An address is the number of changes before it.  Outside: the server     *)
(* that shortens it, and the clipboard.                                    *)
(***************************************************************************)
EXTENDS Integers

CONSTANTS
  Sensors,       \* of which "Government" and "AirBeam" are told apart
  Nothing,
  Most,          \* BOUND: sessions in the list
  MaxChanges     \* BOUND: changes of the address

\* The limits of the code are 100 and 20.
LimitStandard == 2
LimitFixedAir == 1

\* What is asked of the constants.
PopupsAssumption == Most \in Nat

VARIABLES
  fixed,         \* sessionType
  sensor,        \* in the address
  list,          \* the sessions: how many, and of which sensor
  alert,         \* what is shown below the button: nothing, or why there is no export
  form,          \* the state of ExportDataComponent in the panel
  sent,          \* the last request to export, and history: the list it was about
  status,        \* of the export slice
  address,       \* of the page
  copy,          \* CopyLinkModal, while its popup is open
  copied         \* the last copied link, and history: the address then and at first

panel == <<fixed, sensor, list, alert, form, sent, status>>
link == <<address, copy, copied>>
vars == <<panel, link>>

\* The e-mail is a valid one, or another text, also none.
NewForm == [open |-> FALSE, email |-> "other", error |-> FALSE, confirmed |-> FALSE]

Init ==
  /\ fixed \in BOOLEAN
  /\ sensor \in Sensors
  /\ list = [size |-> 0, of |-> sensor]
  /\ alert = Nothing
  /\ form = NewForm
  /\ sent = Nothing
  /\ status = "Idle"
  /\ address = 0
  /\ copy = Nothing
  /\ copied = Nothing

-----------------------------------------------------------------------------
(* The panel. *)

getSessionListExportLimit(isFixed, name) ==
  IF isFixed /\ name = "AirBeam" THEN LimitFixedAir ELSE LimitStandard

\* Mutant of ExportButtonComponent: only an empty list has no form.
AlwaysForm(l, isFixed, name) == l.size > 0

\* Without sessions, or with too many, there is but a button, and no form.
ExportButtonComponent(l, isFixed, name) ==
  l.size \in 1..getSessionListExportLimit(isFixed, name)

HasForm == ExportButtonComponent(list, fixed, sensor)

\* The panel is rendered with another list, type or sensor.
Shows(l, isFixed, name) ==
  /\ list' = l /\ fixed' = isFixed /\ sensor' = name
  /\ form' = IF ExportButtonComponent(l, isFixed, name) THEN form ELSE NewForm
  /\ UNCHANGED <<alert, sent, status, link>>

\* The button says why there is no export, for four seconds.
handleExportClick ==
  /\ ~HasForm
  /\ alert' = IF list.size = 0 THEN "noResults" ELSE "sessionLimit"
  /\ UNCHANGED <<fixed, sensor, list, form, sent, status, link>>

useAutoDismissAlert ==
  /\ alert # Nothing \/ form.confirmed
  /\ \/ alert' = Nothing /\ UNCHANGED form
     \/ form' = [form EXCEPT !.confirmed = FALSE] /\ UNCHANGED alert
  /\ UNCHANGED <<fixed, sensor, list, sent, status, link>>

\* Another sensor or type is chosen: the list of before stays until the answer.
ChooseSensor(isFixed, name) == Shows(list, isFixed, name)

SessionsArrive(n) == Shows([size |-> n, of |-> sensor], fixed, sensor)

\* The list is scrolled to its end.
MoreSessionsArrive ==
  /\ list.of = sensor
  /\ list.size < Most
  /\ Shows([list EXCEPT !.size = @ + 1], fixed, sensor)

-----------------------------------------------------------------------------
(* Exports. *)

Form(f) ==
  /\ form' = f
  /\ UNCHANGED <<fixed, sensor, list, alert, link>>

OpenOrClose ==
  HasForm /\ Form([form EXCEPT !.open = ~@]) /\ UNCHANGED <<sent, status>>

handleInputChange(email) ==
  form.open /\ Form([form EXCEPT !.email = email]) /\ UNCHANGED <<sent, status>>

\* The endpoint is that of the sensor in the address.
exportSession(sessions, name, limit) ==
  sent' = [size |-> sessions.size, of |-> sessions.of, limit |-> limit,
           endpoint |-> IF name = "Government" THEN "station_streams" ELSE "sessions",
           current |-> sessions.of = name]

\* An error message stays until the form goes.
handleSubmit ==
  /\ HasForm /\ form.open
  /\ \/ /\ form.email # "valid"
        /\ Form([form EXCEPT !.error = TRUE])
        /\ UNCHANGED sent
     \/ /\ form.email = "valid"
        /\ Form([NewForm EXCEPT !.error = form.error, !.confirmed = TRUE])
        /\ exportSession(list, sensor, getSessionListExportLimit(fixed, sensor))
  /\ UNCHANGED status

\* The page of a session exports that session; sensor and session come together.
ExportOne(name) ==
  /\ exportSession([size |-> 1, of |-> name], name, 1)
  /\ UNCHANGED <<fixed, sensor, list, alert, form, status, link>>

exportSessionDone ==
  /\ sent # Nothing
  /\ status' \in {"Fulfilled", "Rejected"}
  /\ UNCHANGED <<fixed, sensor, list, alert, form, sent, link>>

-----------------------------------------------------------------------------
(* Links. *)

\* The hook asks for every address it is rendered with.
useShortenedLink(c, a) == [c EXCEPT !.asked = @ \cup {a}]

\* The popup opens: the form holds the address of the page until there is another one.
CopyLinkModal ==
  /\ copy = Nothing
  /\ copy' = useShortenedLink([link |-> address, asked |-> {}, failed |-> FALSE, from |-> address],
                            address)
  /\ UNCHANGED <<panel, address, copied>>

\* Something else, an answer perhaps, changes the address of the page.
Navigate ==
  /\ address < MaxChanges
  /\ address' = address + 1
  /\ copy' = IF copy = Nothing THEN copy ELSE useShortenedLink(copy, address + 1)
  /\ UNCHANGED <<panel, copied>>

\* After an error no answer reaches the form.
ShortLinkArrives(a) ==
  /\ copy # Nothing /\ a \in copy.asked
  /\ copy' = [copy EXCEPT !.asked = @ \ {a}, !.link = IF copy.failed THEN @ ELSE a]
  /\ UNCHANGED <<panel, address, copied>>

handleCopyError(a) ==
  /\ copy # Nothing /\ a \in copy.asked
  /\ copy' = [copy EXCEPT !.asked = @ \ {a}, !.failed = TRUE]
  /\ UNCHANGED <<panel, address, copied>>

handleCopySubmit ==
  /\ copy # Nothing
  /\ copied' = [link |-> copy.link, from |-> copy.from, at |-> address]
  /\ copy' = Nothing
  /\ UNCHANGED <<panel, address>>

CloseLink == copy # Nothing /\ copy' = Nothing /\ UNCHANGED <<panel, address, copied>>

Panel ==
  \/ handleExportClick \/ useAutoDismissAlert
  \/ \E isFixed \in BOOLEAN, name \in Sensors : ChooseSensor(isFixed, name)
  \/ \E n \in 0..Most : SessionsArrive(n)
  \/ MoreSessionsArrive
  \/ OpenOrClose \/ handleSubmit \/ exportSessionDone
  \/ \E email \in {"other", "valid"} : handleInputChange(email)
  \/ \E name \in Sensors : ExportOne(name)

Link ==
  \/ CopyLinkModal \/ Navigate \/ handleCopySubmit \/ CloseLink
  \/ \E a \in 0..MaxChanges : ShortLinkArrives(a) \/ handleCopyError(a)

Next == Panel \/ Link

Spec == Init /\ [][Next]_vars

-----------------------------------------------------------------------------
(* However the list grows, shrinks or is replaced while the form is open,  *)
(* an export asks for at least one and no more sessions than its limit,    *)
(* and asks the server for the kind of sessions they are; and in whatever  *)
(* order the short links arrive, the copied one is of an address the page  *)
(* had while the popup was open.                                           *)
(* Excused is an export from a list that is not yet of the chosen sensor.  *)
(***************************************************************************)
PopupsSendWhatTheyShow ==
  /\ sent # Nothing =>
       /\ sent.size \in 1..sent.limit
       /\ sent.current => (sent.endpoint = "station_streams") = (sent.of = "Government")
  /\ copied # Nothing => copied.link \in copied.from..copied.at
=============================================================================
