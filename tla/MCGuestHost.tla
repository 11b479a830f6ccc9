---------------------------- MODULE MCGuestHost ----------------------------
(***************************************************************************)
(* Instances of GuestHost for TLC.                                         *)
(***************************************************************************)
EXTENDS GuestHost

MCUses == {<<"encrypt", TRUE>>, <<"decrypt", FALSE>>, <<"check", FALSE>>}
=============================================================================
