---------------------------- MODULE QuicTransfer ----------------------------
(***************************************************************************)
(* The 1-RTT data plane of SwQuicConnection as its driver (SwQuicEndpoint) *)
(* runs it: a client that sends on its unidirectional streams and a server *)
(* that reads them, over a network that loses, duplicates and reorders     *)
(* datagrams.  Both ends run the same packet number space: ACK tracker,    *)
(* loss recovery, probe timeout, congestion window and the queue of frames *)
(* to send; the client adds the send streams, the server reassembly and    *)
(* flow control credit.  A driver has one thread: each step is an event    *)
(* (a datagram, a timer, a call) handled to its end, flush_() included.    *)
(*                                                                         *)
(* Handshake and keys are done and the connection stays open.  A chunk of  *)
(* stream data is one unit long and stands for kStreamChunkBytes() bytes:  *)
(* one of them fits in a packet, with any number of control frames.  Every *)
(* ack-eliciting packet counts as one full datagram.                       *)
(***************************************************************************)
EXTENDS Integers, Sequences, FiniteSets, FiniteSetsExt, SequencesExt

CONSTANTS
    Streams,        \* unidirectional streams of the client
    Chunks,         \* bound: chunks the application writes on a stream
    Writes,         \* sizes of the data it hands to one sendStreamData()
    StreamWindow,   \* initialMaxStreamDataUni of the server, in chunks
    ConnWindow,     \* initialMaxData of the server, in chunks
    MaxTracked,     \* kMaxTrackedPackets()
    InitialWindow,  \* the first congestion window, in datagrams
    Datagram,       \* units of the congestion window that a datagram takes
    MaxLosses,      \* bound: datagrams the network drops
    MaxCopies,      \* bound: datagrams the network delivers again
    MaxSlow,        \* bound: times an answer comes after a timer gave up on it
    MaxResets,      \* bound: streams aborted
    MaxFaults       \* bound: all of these together

ASSUME ConstantsAssumption ==
    /\ IsFiniteSet(Streams)
    /\ {Chunks, StreamWindow, ConnWindow, MaxTracked, Datagram} \subseteq Nat \ {0}
    /\ InitialWindow \in Nat /\ InitialWindow >= 2
    /\ Writes \subseteq Nat
    /\ {MaxLosses, MaxCopies, MaxSlow, MaxResets, MaxFaults} \subseteq Nat

VARIABLES
    ep,         \* "client" and "server" -> the state of their SwQuicConnection
    net,        \* datagrams on their way
    wrote,      \* stream -> what the application handed to sendStreamData()
    got,        \* end -> packet numbers it processed since the start
    faults      \* the bounds used up

vars == <<ep, net, wrote, got, faults>>

\* Whether one more fault of a kind that is bounded by max may happen.
May(kind, max) ==
    /\ faults[kind] < max
    /\ faults.losses + faults.copies + faults.slow + faults.resets < MaxFaults

Ends == {"client", "server"}
Peer(e) == IF e = "client" THEN "server" ELSE "client"
None == -1

\* m_bytesInFlight, m_congestionWindow and ssthresh are in units of the window.
kPacketThreshold == 3
MinWindow == 2 * Datagram

SendStream ==
    [buffer |-> 0, next |-> 0, finQueued |-> FALSE, finSent |-> FALSE,
     finAcked |-> FALSE, acked |-> {}, reset |-> FALSE, resetAcked |-> FALSE,
     limit |-> StreamWindow]

ReceiveStream ==
    [limit |-> StreamWindow, highest |-> 0, consumed |-> 0, read |-> 0,
     fragments |-> {}, finalOffset |-> None, finalSize |-> None, reset |-> FALSE]

Space ==
    [nextTxPn |-> 0, sent |-> <<>>, pending |-> <<>>,
     ranges |-> <<>>, largest |-> None, ackPending |-> FALSE, sinceAck |-> 0,
     ackDeadline |-> "none", probes |-> 0,
     inFlight |-> 0, cwnd |-> InitialWindow * Datagram, ssthresh |-> None,
     recovery |-> None,
     out |-> [s \in Streams |-> SendStream],
     totalSent |-> 0, peerMaxData |-> ConnWindow,
     in |-> [s \in Streams |-> ReceiveStream],
     maxData |-> ConnWindow, received |-> 0, consumed |-> 0,
     failed |-> FALSE]

Init ==
    /\ ep = [e \in Ends |-> Space]
    /\ net = {}
    /\ wrote = [s \in Streams |-> [length |-> 0, fin |-> FALSE]]
    /\ got = [e \in Ends |-> {}]
    /\ faults = [losses |-> 0, copies |-> 0, slow |-> 0, resets |-> 0]

-----------------------------------------------------------------------------
(* Frames. *)

StreamFrame(s, off, len, fin) ==
    [type |-> "stream", id |-> s, offset |-> off, length |-> len, fin |-> fin]
ResetFrame(s, size) == [type |-> "reset", id |-> s, finalSize |-> size]
StopFrame(s) == [type |-> "stop", id |-> s]
MaxStreamDataFrame(s, n) == [type |-> "maxStreamData", id |-> s, maximum |-> n]
MaxDataFrame(n) == [type |-> "maxData", maximum |-> n]
PingFrame == [type |-> "ping"]

IsAckEliciting(f) == f.type # "ack"
IsRetransmittable(f) == f.type \notin {"ack", "ping"}

\* Op(x), with x evaluated once.
Apply(Op(_), x) == CHOOSE y \in {Op(v) : v \in {x}} : TRUE

Queue(st, f) == [st EXCEPT !.pending = Append(@, f)]

-----------------------------------------------------------------------------
(* SwQuicAckTracker: inclusive ranges of packet numbers, highest first. *)

Covered(ranges) == UNION {r.low .. r.high : r \in ToSet(ranges)}

TrimWindow(ranges) ==
    LET largest == ranges[1].high
        floor == IF largest >= MaxTracked THEN largest - (MaxTracked - 1) ELSE 0
        kept == SelectSeq(ranges, LAMBDA r : r.high >= floor)
    IN  [i \in 1 .. Len(kept) |->
            [kept[i] EXCEPT !.low = IF @ < floor THEN floor ELSE @]]

\* recordReceivedPacket(): the first range that holds pn, lies below it or
\* starts just above it decides.
RecordReceivedPacket(ranges, pn) ==
    LET i == SelectInSeq(ranges, LAMBDA r : pn + 1 >= r.low)
        new == [high |-> pn, low |-> pn]
    IN  IF i = 0
        THEN IF ranges = <<>> THEN <<new>> ELSE TrimWindow(Append(ranges, new))
        ELSE LET r == ranges[i]
                 joins == i < Len(ranges) /\ ranges[i + 1].high + 1 = pn
             IN  CASE pn \in r.low .. r.high -> ranges
                   [] pn > r.high + 1 -> TrimWindow(InsertAt(ranges, i, new))
                   [] pn = r.high + 1 -> TrimWindow([ranges EXCEPT ![i].high = pn])
                   [] pn + 1 = r.low /\ ~joins ->
                        TrimWindow([ranges EXCEPT ![i].low = pn])
                   [] pn + 1 = r.low /\ joins ->
                        TrimWindow(RemoveAt([ranges EXCEPT
                            ![i].low = ranges[i + 1].low], i + 1))

\* packetNumberAlreadyConsumed_().
AlreadyConsumed(st, pn) ==
    \/ pn \in Covered(st.ranges)
    \/ st.largest # None /\ st.largest - pn >= MaxTracked

\* buildAckFrame(): lengths and gaps, as they go on the wire.
AckFrameGapOffByOne(ranges) ==
    [type |-> "ack",
     largest |-> ranges[1].high,
     first |-> ranges[1].high - ranges[1].low,
     more |-> [i \in 1 .. Len(ranges) - 1 |->
                [gap |-> ranges[i].low - ranges[i + 1].high - 1,
                 length |-> ranges[i + 1].high - ranges[i + 1].low]]]
AckFrame(ranges) ==
    [type |-> "ack",
     largest |-> ranges[1].high,
     first |-> ranges[1].high - ranges[1].low,
     more |-> [i \in 1 .. Len(ranges) - 1 |->
                [gap |-> ranges[i].low - ranges[i + 1].high - 2,
                 length |-> ranges[i + 1].high - ranges[i + 1].low]]]

\* processAckFrame_(), first part: the packet numbers a frame acknowledges.
AckedNumbers(f) ==
    LET first == [low |-> f.largest - f.first, all |-> (f.largest - f.first) .. f.largest]
        Step(acc, r) ==
            LET high == acc.low - r.gap - 2
            IN  [low |-> high - r.length,
                 all |-> acc.all \cup ((high - r.length) .. high)]
    IN  FoldLeft(Step, first, f.more).all

-----------------------------------------------------------------------------
(* SwQuicCongestionControl. *)

AfterRecovery(st, pn) == st.recovery = None \/ pn >= st.recovery

OnPacketAcked(st, pn) ==
    LET landed == [st EXCEPT !.inFlight = IF @ >= Datagram THEN @ - Datagram ELSE 0]
    IN  IF ~AfterRecovery(st, pn) THEN landed
        ELSE [landed EXCEPT !.cwnd =
                IF st.ssthresh = None \/ @ < st.ssthresh THEN @ + Datagram
                ELSE @ + (Datagram * Datagram) \div @]

OnPacketLostWithoutFloor(st, pn) ==
    LET half == st.cwnd \div 2
    IN  IF ~AfterRecovery(st, pn) THEN [st EXCEPT !.inFlight = @ - Datagram]
        ELSE [st EXCEPT !.inFlight = @ - Datagram, !.recovery = st.nextTxPn,
                        !.ssthresh = half, !.cwnd = half]
OnPacketLostInFlight(st, pn) ==
    LET half == Max({st.cwnd \div 2, MinWindow})
    IN  IF ~AfterRecovery(st, pn) THEN st
        ELSE [st EXCEPT !.recovery = st.nextTxPn, !.ssthresh = half, !.cwnd = half]
OnPacketLost(st, pn) ==
    LET gone == [st EXCEPT !.inFlight = IF @ >= Datagram THEN @ - Datagram ELSE 0]
        half == Max({st.cwnd \div 2, MinWindow})
    IN  IF ~AfterRecovery(st, pn) THEN gone
        ELSE [gone EXCEPT !.recovery = st.nextTxPn, !.ssthresh = half, !.cwnd = half]

CanSend(st) == st.inFlight + Datagram <= st.cwnd

-----------------------------------------------------------------------------
(* The send side of a stream. *)

RangeAcked(stream, f) == f.offset .. f.offset + f.length - 1 \subseteq stream.acked

ShouldRetransmitDataOnly(st, f) ==
    CASE f.type = "reset" -> ~st.out[f.id].resetAcked
      [] f.type = "stream" -> ~st.out[f.id].reset /\ ~RangeAcked(st.out[f.id], f)
      [] OTHER -> TRUE
ShouldRetransmit(st, f) ==
    CASE f.type = "reset" -> ~st.out[f.id].resetAcked
      [] f.type = "stream" ->
            /\ ~st.out[f.id].reset
            /\ \/ ~RangeAcked(st.out[f.id], f)
               \/ f.fin /\ ~st.out[f.id].finAcked
      [] OTHER -> TRUE

\* stageOneStreamFrame_(): one chunk within both limits, or the FIN alone.
MayStageChunk(st, s) ==
    /\ st.out[s].buffer > 0
    /\ st.out[s].limit > st.out[s].next
    /\ st.peerMaxData > st.totalSent
MayStageFinEarly(st, s) == st.out[s].finQueued /\ ~st.out[s].finSent
MayStageFin(st, s) ==
    st.out[s].buffer = 0 /\ st.out[s].finQueued /\ ~st.out[s].finSent

StageOne(st, s) ==
    LET o == st.out[s]
        fin == o.finQueued /\ o.buffer = 1
    IN  IF MayStageChunk(st, s)
        THEN [Queue(st, StreamFrame(s, o.next, 1, fin)) EXCEPT
                !.out[s].buffer = @ - 1, !.out[s].next = @ + 1,
                !.out[s].finSent = @ \/ fin, !.totalSent = @ + 1]
        ELSE IF MayStageFin(st, s)
        THEN [Queue(st, StreamFrame(s, o.next, 0, TRUE)) EXCEPT !.out[s].finSent = TRUE]
        ELSE st

\* stageStreamFrames_(): every stream in turn until none makes progress.
StageRound(st) ==
    FoldSet(LAMBDA s, acc : Apply(LAMBDA v : StageOne(v, s), acc), st, Streams)
Stage(st) ==
    IF \A s \in Streams : ~MayStageChunk(st, s) /\ ~MayStageFin(st, s) THEN st
    ELSE FoldLeft(LAMBDA acc, i : Apply(StageRound, acc), st, [i \in 1 .. Chunks + 1 |-> i])

\* resetStream().
ResetSend(st, s) ==
    IF st.out[s].reset THEN st
    ELSE [st EXCEPT
            !.out[s].buffer = 0, !.out[s].reset = TRUE, !.out[s].resetAcked = FALSE,
            !.pending = Append(
                SelectSeq(@, LAMBDA f : ~(f.type = "stream" /\ f.id = s)),
                ResetFrame(s, st.out[s].next))]

\* requeueOldestUnacked_(): the oldest packet that still has something to say.
Worth(st, pn) == SelectSeq(st.sent[pn], LAMBDA f : ShouldRetransmit(st, f))
RequeueOldest(st) ==
    LET useful == {pn \in DOMAIN st.sent : Worth(st, pn) # <<>>}
    IN  IF useful = {} THEN Queue(st, PingFrame)
        ELSE [st EXCEPT !.pending = @ \o Worth(st, Min(useful))]

-----------------------------------------------------------------------------
(* The receive side of a stream. *)

\* creditFlowControl_(): the limits move once more than half a window is used.
CreditStreamOnly(st, s, n) ==
    LET used == [st EXCEPT !.in[s].consumed = @ + n, !.consumed = @ + n]
        in == used.in[s]
    IN  IF in.consumed > (in.limit - StreamWindow) + StreamWindow \div 2
        THEN [Queue(used, MaxStreamDataFrame(s, in.consumed + StreamWindow))
                EXCEPT !.in[s].limit = in.consumed + StreamWindow]
        ELSE used
Credit(st, s, n) ==
    LET used == [st EXCEPT !.in[s].consumed = @ + n, !.consumed = @ + n]
        in == used.in[s]
        one == IF in.consumed > (in.limit - StreamWindow) + StreamWindow \div 2
               THEN [Queue(used, MaxStreamDataFrame(s, in.consumed + StreamWindow))
                        EXCEPT !.in[s].limit = in.consumed + StreamWindow]
               ELSE used
    IN  IF used.consumed > (used.maxData - ConnWindow) + ConnWindow \div 2
        THEN [Queue(one, MaxDataFrame(used.consumed + ConnWindow))
                EXCEPT !.maxData = used.consumed + ConnWindow]
        ELSE one

\* onDataReceived() of both flow controllers: the stream's highest offset
\* moves to end, and the connection counts the increase.
AccountRaw(st, s, end) ==
    IF end > st.in[s].limit \/ st.received + 1 > st.maxData
    THEN [st EXCEPT !.failed = TRUE]
    ELSE [st EXCEPT !.in[s].highest = Max({@, end}), !.received = @ + 1]
Account(st, s, end) ==
    LET in == st.in[s]
        more == end - in.highest
    IN  IF more <= 0 THEN st
        ELSE IF end > in.limit \/ st.received + more > st.maxData
        THEN [st EXCEPT !.failed = TRUE]
        ELSE [st EXCEPT !.in[s].highest = end, !.received = @ + more]

ProcessStreamFrame(st, f) ==
    LET end == f.offset + f.length
        in == st.in[f.id]
        counted == Account([st EXCEPT !.in[f.id].finalSize = IF f.fin THEN end ELSE @],
                           f.id, end)
        conflict == /\ in.finalSize # None
                    /\ end > in.finalSize \/ (f.fin /\ end # in.finalSize)
        short == f.fin /\ (end < in.read \/ \E o \in in.fragments : o >= end)
        fresh == {o \in f.offset .. end - 1 : o >= in.read}
    IN  IF conflict THEN [st EXCEPT !.failed = TRUE]
        ELSE IF counted.failed THEN counted
        ELSE IF short \/ Cardinality(in.fragments \cup fresh) > StreamWindow
        THEN [counted EXCEPT !.failed = TRUE]
        ELSE [counted EXCEPT !.in[f.id].fragments = @ \cup fresh,
                             !.in[f.id].finalOffset = IF f.fin THEN end ELSE @]

ProcessResetFrame(st, f) ==
    LET in == st.in[f.id]
        counted == Account([st EXCEPT !.in[f.id].reset = TRUE,
                                      !.in[f.id].finalSize = f.finalSize],
                           f.id, f.finalSize)
    IN  IF f.finalSize < in.highest \/ in.finalSize \notin {None, f.finalSize}
        THEN [st EXCEPT !.failed = TRUE]
        ELSE IF counted.failed \/ f.finalSize <= in.consumed THEN counted
        ELSE Credit(counted, f.id, f.finalSize - in.consumed)

\* readContiguous(): what can be read without a gap.
Contiguous(in) ==
    {o \in in.fragments : in.read .. o \subseteq in.fragments}

-----------------------------------------------------------------------------
(* Receiving.  luck.late: packets sent before it have passed the time      *)
(* threshold of loss detection; luck.long: the lost ones span a persistent *)
(* congestion.                                                             *)

\* acknowledgeSendStreamRange_(): what an acknowledged stream frame settles.
AckedRangeFromStart(f) == 0 .. f.offset + f.length - 1
AckedRange(f) == f.offset .. f.offset + f.length - 1

Acknowledge(st, pn) ==
    LET Frame(acc, f) ==
            CASE f.type = "stream" ->
                    [acc EXCEPT !.out[f.id].acked = @ \cup AckedRange(f),
                                !.out[f.id].finAcked = @ \/ f.fin]
              [] f.type = "reset" -> [acc EXCEPT !.out[f.id].resetAcked = TRUE]
              [] OTHER -> acc
        noted == FoldLeft(LAMBDA acc, f : Apply(LAMBDA v : Frame(v, f), acc),
                          OnPacketAcked(st, pn), st.sent[pn])
    IN  [noted EXCEPT !.sent = [q \in DOMAIN @ \ {pn} |-> @[q]]]

Requeue(st, pn) ==
    LET lost == OnPacketLost(st, pn)
    IN  [lost EXCEPT !.pending = @ \o Worth(st, pn),
                     !.sent = [q \in DOMAIN @ \ {pn} |-> @[q]]]

Ascending(pns) == SetToSortSeq(pns, LAMBDA a, b : a < b)

ProcessAckFrame(st, f, luck) ==
    LET newly == DOMAIN st.sent \cap AckedNumbers(f)
        lost == {pn \in DOMAIN st.sent \ newly :
                    /\ pn < f.largest
                    /\ f.largest - pn >= kPacketThreshold \/ pn < luck.late}
        answered == [st EXCEPT !.probes = 0]
        settled == FoldLeft(LAMBDA acc, pn : Apply(LAMBDA v : Acknowledge(v, pn), acc),
                            answered, Ascending(newly))
        requeued == FoldLeft(LAMBDA acc, pn : Apply(LAMBDA v : Requeue(v, pn), acc),
                             settled, Ascending(lost))
    IN  IF luck.long /\ Cardinality(lost) >= 2
        THEN [requeued EXCEPT !.cwnd = MinWindow]
        ELSE requeued

ProcessFrame(st, f, luck) ==
    IF st.failed THEN st
    ELSE CASE f.type = "ack" -> ProcessAckFrame(st, f, luck)
           [] f.type = "stream" -> ProcessStreamFrame(st, f)
           [] f.type = "reset" -> ProcessResetFrame(st, f)
           [] f.type = "stop" -> ResetSend(st, f.id)
           [] f.type = "maxData" -> [st EXCEPT !.peerMaxData = Max({@, f.maximum})]
           [] f.type = "maxStreamData" ->
                [st EXCEPT !.out[f.id].limit = Max({@, f.maximum})]
           [] f.type = "ping" -> st

\* processDecodedPacket_().
NoteArrival(st, p) ==
    LET eliciting == \E i \in DOMAIN p.frames : IsAckEliciting(p.frames[i])
        outOfOrder == st.largest # None /\ p.pn # st.largest + 1
        immediate == st.sinceAck + 1 >= 2 \/ outOfOrder
        noted == [st EXCEPT !.ranges = RecordReceivedPacket(@, p.pn),
                            !.largest = Max({@, p.pn})]
    IN  IF ~eliciting THEN noted
        ELSE [noted EXCEPT
                !.ackPending = TRUE,
                !.sinceAck = IF @ < 2 THEN @ + 1 ELSE @,
                !.ackDeadline = IF immediate THEN "now"
                                ELSE IF @ = "none" THEN "later" ELSE @]

\* The choices time leaves open, none for a packet without an ACK.
Lucks(st, p) ==
    LET acks == {f \in ToSet(p.frames) : f.type = "ack"}
        below == {pn \in DOMAIN st.sent : \E f \in acks : pn < f.largest}
    IN  IF AlreadyConsumed(st, p.pn) THEN {[late |-> 0, long |-> FALSE]}
        ELSE [late : {0} \cup IF May("slow", MaxSlow) THEN {pn + 1 : pn \in below} ELSE {},
              long : IF Cardinality(below) >= 2 THEN BOOLEAN ELSE {FALSE}]

-----------------------------------------------------------------------------
(* Sending. *)

AckWanted(st) ==
    /\ st.ranges # <<>>
    /\ st.ackPending
    /\ st.ackDeadline = "now" \/ st.pending # <<>>

\* How many queued frames the next packet takes: up to the second chunk of
\* data, and past the congestion window only the probes that are owed.
Taken(st) ==
    LET Data(k) == Cardinality({i \in 1 .. k : st.pending[i].type = "stream"
                                               /\ st.pending[i].length > 0})
        room == Max({k \in 0 .. Len(st.pending) : Data(k) <= 1})
    IN  IF CanSend(st) THEN room ELSE Min({room, st.probes})

Packet(st) ==
    (IF AckWanted(st) THEN <<AckFrame(st.ranges)>> ELSE <<>>)
        \o SubSeq(st.pending, 1, Taken(st))

\* encodePacket_() commits the packet, then the ACK state is settled.
Committed(st) ==
    LET n == Taken(st)
        frames == Packet(st)
        taken == [st EXCEPT !.pending = SubSeq(@, n + 1, Len(@)),
                            !.probes = IF CanSend(st) THEN @ ELSE @ - n,
                            !.nextTxPn = @ + 1]
        tracked == IF n = 0 THEN taken
                   ELSE [taken EXCEPT
                            !.inFlight = @ + Datagram,
                            !.sent = [pn \in DOMAIN @ \cup {st.nextTxPn} |->
                                        IF pn = st.nextTxPn
                                        THEN SelectSeq(frames, IsRetransmittable)
                                        ELSE @[pn]]]
    IN  IF AckWanted(st)
        THEN [tracked EXCEPT !.ackPending = FALSE, !.ackDeadline = "none", !.sinceAck = 0]
        ELSE tracked

\* buildDatagrams(): packets as long as one can be made.
BuildDatagrams(e, st) ==
    LET SendOne(acc) ==
            IF Packet(acc.st) = <<>> THEN acc
            ELSE [st |-> Committed(acc.st),
                  out |-> acc.out \cup {[from |-> e, pn |-> acc.st.nextTxPn,
                                        frames |-> Packet(acc.st)]}]
    IN  FoldLeft(LAMBDA acc, i : Apply(SendOne, acc), [st |-> st, out |-> {}],
                 [i \in 1 .. Len(st.pending) + 1 |-> i])

\* flush_(): e goes on from st; rest are the datagrams of others.  An end that
\* met a protocol error is dead.
Flush(e, st, rest) ==
    IF st.failed
    THEN ep' = [ep EXCEPT ![e] = st] /\ net' = rest
    ELSE \E staged \in {Stage(st)} : \E built \in {BuildDatagrams(e, staged)} :
            /\ ep' = [ep EXCEPT ![e] = built.st]
            /\ net' = rest \cup built.out

-----------------------------------------------------------------------------
(* deliverEstablished_(): the packet, the reads, the flush. *)

ReadStream(st, s) ==
    LET run == Contiguous(st.in[s])
        n == Cardinality(run)
    IN  IF n = 0 THEN st
        ELSE Credit([st EXCEPT !.in[s].fragments = @ \ run, !.in[s].read = @ + n], s, n)

Touched(p) == {f.id : f \in {g \in ToSet(p.frames) : g.type \in {"stream", "reset"}}}

Deliver(st, p, luck) ==
    LET processed == FoldLeft(LAMBDA acc, f : Apply(LAMBDA v : ProcessFrame(v, f, luck), acc),
                              NoteArrival(st, p), p.frames)
    IN  IF processed.failed THEN processed
        ELSE FoldSet(LAMBDA s, acc : Apply(LAMBDA v : ReadStream(v, s), acc),
                     processed, Touched(p))

Receive(e) ==
    \E p \in net, again \in 0 .. (IF May("copies", MaxCopies) THEN 1 ELSE 0) :
        /\ p.from = Peer(e)
        /\ ~ep[e].failed
        /\ LET rest == IF again = 1 THEN net ELSE net \ {p}
           IN  IF AlreadyConsumed(ep[e], p.pn)
               THEN /\ net' = rest
                    /\ faults' = [faults EXCEPT !.copies = @ + again]
                    /\ UNCHANGED <<ep, got>>
               ELSE \E luck \in Lucks(ep[e], p) : \E st \in {Deliver(ep[e], p, luck)} :
                    /\ Flush(e, st, rest)
                    /\ faults' = [faults EXCEPT !.copies = @ + again,
                                    !.slow = @ + (IF luck.late > 0 THEN 1 ELSE 0)]
                    /\ got' = [got EXCEPT ![e] = @ \cup {p.pn}]
        /\ UNCHANGED wrote

Lose ==
    /\ May("losses", MaxLosses)
    /\ \E p \in net : net' = net \ {p}
    /\ faults' = [faults EXCEPT !.losses = @ + 1]
    /\ UNCHANGED <<ep, wrote, got>>

-----------------------------------------------------------------------------
(* onTick(): timers. *)

AckTimer(e) ==
    /\ ep[e].ackDeadline = "later" /\ ~ep[e].failed
    /\ Flush(e, [ep[e] EXCEPT !.ackDeadline = "now"], net)
    /\ UNCHANGED <<wrote, got, faults>>

\* The probe timeout is longer than a round trip and the peer's ACK delay
\* together: it fires when no answer is under way, or early when one is slow.
Quiet == net = {} /\ \A e \in Ends : ep[e].ackDeadline = "none" \/ ep[e].failed

OnTimeout(st) == [RequeueOldest(st) EXCEPT !.probes = IF @ < 2 THEN @ + 1 ELSE @]

ProbeTimeout(e) ==
    /\ DOMAIN ep[e].sent # {} /\ ~ep[e].failed
    /\ \/ Quiet /\ UNCHANGED faults
       \/ /\ May("slow", MaxSlow) /\ ~Quiet
          /\ faults' = [faults EXCEPT !.slow = @ + 1]
    /\ Flush(e, OnTimeout(ep[e]), net)
    /\ UNCHANGED <<wrote, got>>

-----------------------------------------------------------------------------
(* Calls of the applications. *)

SendStreamData(s, n, fin) ==
    /\ ~ep["client"].out[s].finQueued /\ ~ep["client"].out[s].reset
    /\ ~ep["client"].failed
    /\ n > 0 \/ fin
    /\ wrote[s].length + n <= Chunks
    /\ Flush("client", [ep["client"] EXCEPT !.out[s].buffer = @ + n,
                                            !.out[s].finQueued = fin], net)
    /\ wrote' = [wrote EXCEPT ![s] = [length |-> @.length + n, fin |-> fin]]
    /\ UNCHANGED <<got, faults>>

Opened(s) == ep["client"].out[s] # SendStream

\* SwQuicConnection::resetStream(), the way SwHttp3Server aborts a stream.
ResetStream(s) ==
    /\ May("resets", MaxResets)
    /\ Opened(s) /\ ~ep["client"].out[s].reset /\ ~ep["client"].failed
    /\ Flush("client", ResetSend(ep["client"], s), net)
    /\ faults' = [faults EXCEPT !.resets = @ + 1]
    /\ UNCHANGED <<wrote, got>>

\* stopReceivingStream(), of a stream the client has opened.
StopReceivingStream(s) ==
    /\ May("resets", MaxResets)
    /\ ep["server"].in[s].highest > 0 \/ ep["server"].in[s].finalSize # None
    /\ ~ep["server"].failed
    /\ Flush("server", Queue(ep["server"], StopFrame(s)), net)
    /\ faults' = [faults EXCEPT !.resets = @ + 1]
    /\ UNCHANGED <<wrote, got>>

-----------------------------------------------------------------------------
Next ==
    \/ \E e \in Ends : Receive(e) \/ AckTimer(e) \/ ProbeTimeout(e)
    \/ Lose
    \/ \E s \in Streams :
        \/ \E n \in Writes, fin \in BOOLEAN : SendStreamData(s, n, fin)
        \/ ResetStream(s)
        \/ StopReceivingStream(s)

Spec == Init /\ [][Next]_vars

\* The network delivers what it does not lose, and the driver serves the
\* timers nextTimeoutMs() announces.
Fairness ==
    \A e \in Ends : /\ WF_vars(Receive(e))
                    /\ WF_vars(AckTimer(e))
                    /\ WF_vars(ProbeTimeout(e))

FairSpec == Spec /\ Fairness

-----------------------------------------------------------------------------
(* Properties. *)

FrameTypes == {"ack", "stream", "reset", "stop", "maxData", "maxStreamData", "ping"}

\* Counters are naturals, the window never falls under two datagrams, and
\* the queue and the packets in flight hold frames they are allowed to hold.
TypeOK ==
    /\ \A e \in Ends :
        /\ {ep[e].nextTxPn, ep[e].totalSent, ep[e].received, ep[e].consumed,
            ep[e].inFlight} \subseteq Nat
        /\ ep[e].probes \in 0 .. 2
        /\ ep[e].cwnd >= MinWindow
        /\ ep[e].ackDeadline \in {"none", "later", "now"}
        /\ \A f \in ToSet(ep[e].pending) : f.type \in FrameTypes \ {"ack"}
        /\ \A pn \in DOMAIN ep[e].sent :
            /\ pn < ep[e].nextTxPn
            /\ \A f \in ToSet(ep[e].sent[pn]) : f.type \in FrameTypes \ {"ack", "ping"}
    /\ \A p \in net : p.from \in Ends /\ p.pn < ep[p.from].nextTxPn /\ p.frames # <<>>

\* The merged, trimmed ranges of the ACK tracker say exactly which of the
\* last MaxTracked packet numbers were received, whatever order they came in
\* (recordReceivedPacket, trimWindow_), and every ACK frame on its way
\* decodes to packets its sender had received (buildAckFrame against
\* processAckFrame_).
AcksTruthful ==
    /\ \A e \in Ends :
        LET r == ep[e].ranges
        IN  /\ Covered(r) = {pn \in got[e] : ep[e].largest - pn < MaxTracked}
            /\ \A i \in 1 .. Len(r) - 1 : r[i].low > r[i + 1].high + 1
    /\ \A p \in net : \A f \in ToSet(p.frames) :
        f.type = "ack" => AckedNumbers(f) \subseteq got[p.from]

\* The sender treats a chunk, a FIN or a reset as delivered only when the
\* receiver has it: loss, duplication, reordering and PTO copies never make
\* it forget something the peer still misses.
AckedIsDelivered ==
    \A s \in Streams :
        LET o == ep["client"].out[s]
            in == ep["server"].in[s]
        IN  /\ o.acked \subseteq (0 .. in.read - 1) \cup in.fragments
            /\ o.finAcked => in.finalSize = o.next
            /\ o.resetAcked => in.reset

Carried(e) == ToSet(ep[e].pending) \cup UNION {ToSet(ep[e].sent[pn]) : pn \in DOMAIN ep[e].sent}

\* What the peer still has to learn is queued or in a packet that is tracked:
\* unacknowledged chunks and FINs, an unacknowledged reset, and flow control
\* limits the sender does not know yet.  Dropping one would stall the stream
\* for ever.
NothingForgotten ==
    LET client == ep["client"]
        server == ep["server"]
    IN  /\ \A s \in Streams :
            LET o == client.out[s]
                Carries(P(_)) == \E f \in Carried("client") :
                                    f.type = "stream" /\ f.id = s /\ P(f)
            IN  IF o.reset
                THEN o.resetAcked \/ ResetFrame(s, o.next) \in Carried("client")
                ELSE /\ \A c \in 0 .. o.next - 1 :
                        c \in o.acked \/ Carries(LAMBDA f : c \in f.offset .. f.offset + f.length - 1)
                     /\ (o.finSent /\ ~o.finAcked) => Carries(LAMBDA f : f.fin)
        /\ \A s \in Streams : client.out[s].limit < server.in[s].limit =>
            MaxStreamDataFrame(s, server.in[s].limit) \in Carried("server")
        /\ client.peerMaxData < server.maxData => MaxDataFrame(server.maxData) \in Carried("server")

\* The congestion controller counts exactly the packets that are neither
\* acknowledged nor declared lost; a leak would close the window for good.
InFlightExact ==
    \A e \in Ends : ep[e].inFlight = Datagram * Cardinality(DOMAIN ep[e].sent)

\* Two ends that run this code never accuse each other of a FLOW_CONTROL or
\* FINAL_SIZE error and never overflow a reassembly budget, late frames of a
\* reset stream and stale limits included.
NoProtocolError == \A e \in Ends : ~ep[e].failed

Ended(s) ==
    LET in == ep["server"].in[s]
    IN  in.finalOffset # None /\ in.read >= in.finalOffset /\ ~in.reset

Promised == INSTANCE ByteStream WITH
    written <- [s \in Streams |-> wrote[s].length],
    closed <- [s \in Streams |-> wrote[s].fin],
    read <- [s \in Streams |-> ep["server"].in[s].read],
    ended <- [s \in Streams |-> Ended(s)]

\* The data plane implements the reliable byte stream of ByteStream.
RefinesByteStream == Promised!Spec

\* A reader is told that a stream is complete (isReceiveComplete) only when
\* the application finished it and every chunk it wrote has been read.  (Unless the
\* sender aborted: resetStream() discards the send buffer but keeps the queued FIN,
\* SwQuicConnection.h:745, which may then overtake the RESET_STREAM.)
CompleteMeansAll ==
    \A s \in Streams :
        Ended(s) /\ ~ep["client"].out[s].reset =>
            wrote[s].fin /\ ep["server"].in[s].read = wrote[s].length

\* Everything written is eventually read and known to be: losses, a full
\* congestion window and exhausted credit only delay it.
EverythingArrives ==
    \A s \in Streams : \A n \in 1 .. Chunks :
        wrote[s].length = n ~>
            /\ ep["server"].in[s].read >= n
            /\ 0 .. n - 1 \subseteq ep["client"].out[s].acked
            /\ wrote[s].fin => ep["client"].out[s].finAcked
=============================================================================
