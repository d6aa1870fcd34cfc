-------------------------- MODULE ChannelOwnership --------------------------
(***************************************************************************)
(* What the cluster promises about a customs channel: it is driven by at   *)
(* most one host at a time, and passes from one host to another only       *)
(* through a moment where nobody drives it.                                *)
(***************************************************************************)
CONSTANTS Worker, Channel, Config

VARIABLE held   \* for each channel, the hosts that run it

Init == held = [c \in Channel |-> {w \in Worker : c \in Config[w]}]

(* Host w starts the channels of S, none of which runs anywhere.           *)
Start(w, S) ==
  /\ \A c \in S : held[c] = {}
  /\ held' = [c \in Channel |-> IF c \in S THEN {w} ELSE held[c]]

(* Every channel of host w stops.                                          *)
StopAll(w) == held' = [c \in Channel |-> held[c] \ {w}]

Next == \E w \in Worker : StopAll(w) \/ \E S \in SUBSET Channel : Start(w, S)

Spec == Init /\ [][Next]_held
=============================================================================
