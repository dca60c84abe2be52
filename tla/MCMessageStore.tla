--------------------------- MODULE MCMessageStore ---------------------------
(* MessageStore for TLC.  Texts are numbered by sent, so Record is bounded  *)
(* by MaxMessages.                                                          *)
EXTENDS MessageStore
=============================================================================
