---------------------------- MODULE MCParkProxy ----------------------------
(***************************************************************************)
(* Three uploads at a time, a pool of two handlers and a table of four     *)
(* numbers, one of which may be left open for good.                        *)
(***************************************************************************)
EXTENDS ParkProxy
=============================================================================
