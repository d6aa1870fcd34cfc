--------------------------- MODULE MCChannelAlloc ---------------------------
(* Instances of ChannelAlloc for TLC.                                      *)
EXTENDS ChannelAlloc

(* Two channels on the first host, one on each of the others.              *)
MCLoaded ==
  [w \in Worker |-> IF w = 1 THEN {1, 4} \cap Channel ELSE {w} \cap Channel]

(* The first host restarts channel 1 at some time of the day.              *)
MCDaily == {<<1, 1>>} \cap (Worker \X Channel)
=============================================================================
