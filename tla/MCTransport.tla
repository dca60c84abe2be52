---------------------------- MODULE MCTransport ----------------------------
(* Instances of Transport for TLC: a Cardputer c and a gateway g; Trio...   *)
(* adds a second Cardputer d that shares the channel.                       *)
EXTENDS Transport, TLC

CONSTANTS c, d, g

PairPeer == (c :> g) @@ (g :> c)
TrioPeer == (c :> g) @@ (d :> g) @@ (g :> c)

(* The loop; on the gateway also the task of the web server. *)
PairTasks == (c :> 1) @@ (g :> 2)
TrioTasks == (c :> 1) @@ (d :> 1) @@ (g :> 2)

(* How many sequence numbers each device draws. *)
OneEach     == (c :> 1) @@ (g :> 1)
CardputerTwo == (c :> 2) @@ (g :> 0)
TrioOneC    == (c :> 1) @@ (d :> 0) @@ (g :> 0)
CardputerOneGatewayTwo == (c :> 1) @@ (g :> 2)
TrioOneD    == (c :> 1) @@ (d :> 1) @@ (g :> 0)

=============================================================================
