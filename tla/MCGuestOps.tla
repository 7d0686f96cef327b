----------------------------- MODULE MCGuestOps -----------------------------
(***************************************************************************)
(* Two calls on one guest.                                                 *)
(***************************************************************************)
EXTENDS GuestOps, TLC
=============================================================================
