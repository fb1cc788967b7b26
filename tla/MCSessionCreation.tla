------------------------ MODULE MCSessionCreation ------------------------
(***************************************************************************)
(* Instances of SessionCreation for TLC: every combination of requests out *)
(* of the kinds of creation that meet on one uuid or on one device.        *)
(***************************************************************************)
EXTENDS SessionCreation, Sequences, TLC

CONSTANTS r1, r2, r3

V3Create(endpoint, user, uuid, mac, label) ==
  [endpoint |-> endpoint, user |-> user, uuid |-> uuid, mac |-> mac, label |-> label,
   recording |-> None]

LegacyUpload(endpoint, recording) ==
  [endpoint |-> endpoint, user |-> "owner", uuid |-> "wanted", mac |-> None,
   label |-> None, recording |-> recording]

Kinds ==
  << V3Create("mobile", "owner", "wanted", "A", "AirBeam"),
     V3Create("mobile", "owner", "wanted", "B", "AirBeam"),
     V3Create("mobile", "owner", "other", "A", "renamed"),
     V3Create("mobile", "stranger", "wanted", "A", "AirBeam"),
     V3Create("fixed", "owner", "wanted", "A", "AirBeam"),
     LegacyUpload("legacy_mobile", "walk"),
     LegacyUpload("legacy_mobile", "ride"),
     LegacyUpload("legacy_fixed", "walk") >>

\* Every three kinds, in one order each: the requests differ only in their names.
AnyThree ==
  {r1 :> Kinds[i] @@ r2 :> Kinds[j] @@ r3 :> Kinds[k] :
     <<i, j, k>> \in {t \in (1..8) \X (1..8) \X (1..8) :
                        t[1] <= t[2] /\ t[2] <= t[3]}}

\* No device yet, or every device with its usual label.
NoneOrAll == {[d \in Devices |-> label] : label \in {None, "AirBeam"}}

\* One v3 create, sent twice at once.
TheSameTwice == {r1 :> Kinds[i] @@ r2 :> Kinds[i] : i \in {1, 5}}
=============================================================================
