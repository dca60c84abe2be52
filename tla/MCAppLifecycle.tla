--------------------------- MODULE MCAppLifecycle ---------------------------
(* The instances of AppLifecycle for TLC are in AppLifecycle.cfg. *)
EXTENDS AppLifecycle

=============================================================================
