---------------------------- MODULE MCEventLink ----------------------------
(* An instance of EventLink for TLC.                                       *)
EXTENDS EventLink
=============================================================================
