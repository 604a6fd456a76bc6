---------------------------- MODULE MCPollLogin ----------------------------
(* PollLogin for TLC: the loop and one delivered ping. *)
EXTENDS PollLogin
=============================================================================
