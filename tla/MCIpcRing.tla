------------------------------ MODULE MCIpcRing ------------------------------
(* IpcRing on small instances; readers of one kind are interchangeable. *)
EXTENDS IpcRing, TLC

Symmetric == Permutations(Consumers) \cup Permutations(Observers)
==============================================================================
