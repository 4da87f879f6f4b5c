-------------------------- MODULE MCEmbeddedDbTables --------------------------
(* Small instances of EmbeddedDbTables for TLC.                            *)
EXTENDS EmbeddedDbTables
=============================================================================
