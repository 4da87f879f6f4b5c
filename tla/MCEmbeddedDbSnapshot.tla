------------------------- MODULE MCEmbeddedDbSnapshot -------------------------
(* Small instances of EmbeddedDbSnapshot for TLC.                          *)
EXTENDS EmbeddedDbSnapshot
=============================================================================
