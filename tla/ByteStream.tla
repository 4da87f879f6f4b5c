----------------------------- MODULE ByteStream -----------------------------
(***************************************************************************)
(* What a QUIC stream promises its two applications: the reader reads what *)
(* the writer wrote, in order and without gaps, and is told that the       *)
(* stream has ended only once it has everything the writer ever wrote.     *)
(* Packets, loss, acknowledgements and windows do not exist here.          *)
(***************************************************************************)
EXTENDS Naturals

CONSTANT Streams
VARIABLES
    written,    \* stream -> number of chunks written
    closed,     \* stream -> the writer wrote its last chunk
    read,       \* stream -> number of chunks read
    ended       \* stream -> the reader was told of the end

Init ==
    /\ written = [s \in Streams |-> 0]
    /\ closed = [s \in Streams |-> FALSE]
    /\ read = [s \in Streams |-> 0]
    /\ ended = [s \in Streams |-> FALSE]

Write(s) ==
    /\ ~closed[s]
    /\ written'[s] >= written[s]
    /\ UNCHANGED <<read, ended>>

Read(s) ==
    /\ read'[s] \in read[s] .. written[s]
    /\ ended[s] => ended'[s]
    /\ ended'[s] => closed[s] /\ read'[s] = written[s]
    /\ UNCHANGED <<written, closed>>

Others(s) == \A t \in Streams \ {s} :
    <<written[t], closed[t], read[t], ended[t]>>' = <<written[t], closed[t], read[t], ended[t]>>

Next == \E s \in Streams : (Write(s) \/ Read(s)) /\ Others(s)

Spec == Init /\ [][Next]_<<written, closed, read, ended>>
=============================================================================
