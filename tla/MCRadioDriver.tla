--------------------------- MODULE MCRadioDriver ----------------------------
(* Instances of RadioDriver for TLC: the gateway's serial loop and web      *)
(* server beside the protocol task; a payload of at most three bytes, so    *)
(* that a frame of 24 bytes is the longest, one byte too long for the E220  *)
(* as are the 201 bytes of the code; a PONG of 23 bytes is not.             *)
EXTENDS RadioDriver

MCTexts == {<<72>>, <<72, 105, 33, 33>>}

From(number, type, flags, payload) ==
  [Packet(type, flags, number, payload) EXCEPT !.source_id = Peer, !.dest_id = Self,
                                          !.timestamp = 70000]

MCIncoming == <<From(7, Message, AckReq, <<79, 107>>), From(1, Ping, 0, <<>>)>>

=============================================================================
