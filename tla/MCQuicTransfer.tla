--------------------------- MODULE MCQuicTransfer ---------------------------
(* Small instances of QuicTransfer for TLC.                                *)
EXTENDS QuicTransfer
=============================================================================
