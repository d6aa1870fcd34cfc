-------------------------- MODULE MCHostInfoSync --------------------------
(* An instance of HostInfoSync for TLC: host h is configured with channel h. *)
EXTENDS HostInfoSync

MCConf0 == [h \in Hosts |-> {h} \cap Channels]
=============================================================================
