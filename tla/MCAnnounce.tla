----------------------------- MODULE MCAnnounce -----------------------------
(* Small instances of a discovery: the UDP tracker knows a peer that the    *)
(* HTTP tracker does not.                                                   *)
EXTENDS Announce

CONSTANTS p, q, udp, http

MCLists == [k \in {udp, http} |-> IF k = udp THEN {p} ELSE {q}]
=============================================================================
