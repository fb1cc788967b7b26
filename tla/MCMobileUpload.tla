--------------------------- MODULE MCMobileUpload ---------------------------
(***************************************************************************)
(* Instances of MobileUpload for TLC: a session with two streams (sensor   *)
(* types 2 and 3), and a sensor type 9 it has no stream for.               *)
(***************************************************************************)
EXTENDS MobileUpload, TLC

CONSTANTS u1, u2, d1, d2, n1, n2

MCStreams == {2, 3}
MCSensorTypes == {2, 3, 9}

\* Instants 1..3; the phone drives out and comes back past where it started.
MCEpochs == 1..3
MCPosition == <<5, 9, 2>>
MCSeed == 7

\* A zone without a transition.
SteadyWall == <<1, 2, 3>>

\* Payloads: two overlapping ones over both streams, one of a single stream.
CrossPayloads ==
  {{<<2, 1>>, <<3, 2>>}, {<<2, 1>>, <<2, 3>>, <<3, 1>>}, {<<3, 3>>}}

\* Overlapping chunks of one stream; the second is refused for the sensor type 9,
\* unless the cutoff drops that frame.
ChunkPayloads == {{<<2, 1>>, <<2, 2>>}, {<<2, 2>>, <<9, 3>>}}

UploadSymmetry == Permutations(Uploads)
=============================================================================
