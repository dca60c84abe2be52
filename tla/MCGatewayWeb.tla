---------------------------- MODULE MCGatewayWeb ----------------------------
(* GatewayWeb for TLC: the phones are interchangeable.                      *)
EXTENDS GatewayWeb, TLC

CONSTANTS protocol, tcp, phone1, phone2

ClientSymmetry == Permutations(Client)
=============================================================================
