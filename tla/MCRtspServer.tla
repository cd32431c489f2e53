---------------------------- MODULE MCRtspServer ----------------------------
(* Small instances of RtspServer.  With MaxPacket = 5 and RtpHeader = 1 a   *)
(* NAL unit of length 3 is the longest that is sent whole, one of length 4  *)
(* needs fragments of 2 and 1 bytes, one of length 5 two full ones.         *)
EXTENDS RtspServer

CONSTANTS a, b

OneClient == {a}
TwoClients == {a, b}

Idr(n) == [idr |-> TRUE, length |-> n]
Slice(n) == [idr |-> FALSE, length |-> n]

\* A frame with an IDR slice to be fragmented, and one without.
KeyAndDelta == {<<Slice(1), Idr(4), Slice(3)>>, <<Slice(5)>>}
KeyOnly == {<<Idr(4)>>}

=============================================================================
