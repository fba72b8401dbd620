---------------------------- MODULE MCRoomClient ----------------------------
(***************************************************************************)
(* RoomClient for model checking; senders differ in nothing but the name.  *)
(***************************************************************************)
EXTENDS RoomClient

CONSTANTS p1, p2
=============================================================================
