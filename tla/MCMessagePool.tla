--------------------------- MODULE MCMessagePool ---------------------------
(* An instance of MessagePool for TLC: the reactor and the thread that     *)
(* reads the serial server.                                                *)
EXTENDS MessagePool

CONSTANTS reactor, link

MCProducer == {reactor, link}
=============================================================================
