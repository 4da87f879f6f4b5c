-------------------------- MODULE MCEmbeddedDbWrite --------------------------
(* Small instances of EmbeddedDbWrite for TLC.                             *)
EXTENDS EmbeddedDbWrite, TLC

CONSTANTS k1, k2

\* A put of one key, an erase of it, a put of the other key, and a batch over both keys.
PutOne  == k1 :> FALSE
EraseOne == k1 :> TRUE
PutOther == k2 :> FALSE
PutTwo  == (k1 :> FALSE) @@ (k2 :> FALSE)

OneKey   == {k1}
TwoKeys  == {k1, k2}
PutBatches   == {PutOne}
SplitBatches == {PutOne, PutOther}
MixedBatches == {EraseOne, PutTwo}
=============================================================================
