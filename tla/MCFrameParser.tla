--------------------------- MODULE MCFrameParser ---------------------------
(* An instance of FrameParser for TLC.                                     *)
EXTENDS FrameParser
=============================================================================
