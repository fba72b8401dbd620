--------------------------- MODULE MCMeetingRooms ---------------------------
(***************************************************************************)
(* MeetingRooms for model checking; the cfg files give the bounds.         *)
(***************************************************************************)
EXTENDS MeetingRooms
=============================================================================
