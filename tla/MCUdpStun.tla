----------------------------- MODULE MCUdpStun -----------------------------
(* Small instances of UdpStun. *)
EXTENDS UdpStun
=============================================================================
