------------------------------- MODULE KvStore -------------------------------
(***************************************************************************)
(* What a reader of SwEmbeddedDb is promised: a map from keys to the write *)
(* that stored their value (0: no value), changed by writes only.  Memory, *)
(* journals, tables, compactions and blob files do not exist here.         *)
(***************************************************************************)
EXTENDS Naturals

CONSTANT Keys
VARIABLES
    store,      \* key -> sequence of the write whose value it has, or 0
    last        \* sequence of the last write

Init == /\ store = [k \in Keys |-> 0]
        /\ last = 0

\* A write with a higher sequence stores a value under k, or erases k.
Write(k, seq, value) ==
    /\ seq > last
    /\ value \in {0, seq}
    /\ last' = seq
    /\ store' = [store EXCEPT ![k] = value]

Next == \E k \in Keys : Write(k, last', store'[k])

Spec == Init /\ [][Next]_<<store, last>>
=============================================================================
