--------------------------- MODULE MCSessionSync ---------------------------
(***************************************************************************)
(* Instances of SessionSync for TLC: every combination of edits that meet  *)
(* on one session with one note.                                           *)
(***************************************************************************)
EXTENDS SessionSync, Sequences, TLC

CONSTANTS e1, e2

Change(kind, to, note, text) == [kind |-> kind, title |-> to, note |-> note, text |-> text]

Kinds ==
  << Change("add", None, "note", "first"),
     Change("title", "renamed", None, None),
     Change("retext", None, "note", "second"),
     Change("remove", None, "note", None),
     Change("finish", None, None, None),
     Change("legacy", "renamed", None, None) >>

\* Every two edits, in one order each; a note is added once.
AnyTwo ==
  {e1 :> Kinds[i] @@ e2 :> Kinds[j] : <<i, j>> \in {t \in (1..6) \X (2..6) : t[1] <= t[2]}}

\* A title edit, and a note added to the same session.
TitleAndNote == {e1 :> Kinds[1] @@ e2 :> Kinds[2]}
=============================================================================
