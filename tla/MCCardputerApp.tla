--------------------------- MODULE MCCardputerApp ---------------------------
(* CardputerApp for TLC.                                                   *)
EXTENDS CardputerApp
=============================================================================
