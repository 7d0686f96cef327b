---------------------------- MODULE MCGuestFiles ----------------------------
(***************************************************************************)
(* A call on a file in a guest, and whatever else may happen to the file.  *)
(***************************************************************************)
EXTENDS GuestFiles, TLC
=============================================================================
