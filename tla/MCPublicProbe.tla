--------------------------- MODULE MCPublicProbe ---------------------------
(* Small instances of PublicProbe.  SettledAddressIsShown is a liveness     *)
(* property, so that no symmetry is used.                                   *)
EXTENDS PublicProbe
=============================================================================
