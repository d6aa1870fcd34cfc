------------------------- MODULE MCChannelRegistry -------------------------
(* An instance of ChannelRegistry for TLC: two devices, two descriptors.   *)
EXTENDS ChannelRegistry, TLC

CONSTANTS east, west, u1, fd1, fd2

MCOwner == [s \in {u1} |-> east]
MCFds   == Permutations({fd1, fd2})
=============================================================================
