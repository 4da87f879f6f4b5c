---------------------------- MODULE IpcRing_proofs ----------------------------
(***************************************************************************)
(* Proofs about IpcRing, for every value of its constants.                  *)
(***************************************************************************)
EXTENDS IpcRing, FiniteSetTheorems, TLAPS

USE DEF header, bounds

----------------------------------------------------------------------------
(* Constants and helper operators.                                         *)

\* The constants as the provers use them.
LEMMA Sizes ==
    /\ MaxSeq \in Nat /\ MaxConsumers \in Nat /\ Capacity \in Nat
    /\ Capacity # 0 /\ MaxConsumers # 0
  BY RingAssumption, BoundsAssumption

\* Every sequence number has a slot (the modulo of slotIndex).
LEMMA SlotOfSlots ==
    ASSUME NEW n \in 0 .. MaxSeq
    PROVE  SlotOf(n) \in Slots
  BY Sizes DEF SlotOf, Slots

\* No write, no reader: the records of a process that does nothing.
LEMMA IdleTypes ==
    /\ NoWrite \in WriteInProgress
    /\ NoReader \in ReaderState
    /\ [NoReader EXCEPT !.at = "dead"] \in ReaderState
<1>1. NoWrite \in WriteInProgress
  BY Sizes DEF NoWrite, WriteInProgress, PubAt
<1>2. NoReader \in ReaderState
  BY Sizes DEF NoReader, ReaderState, ReadAt, NoEntry, Free
<1>3. [NoReader EXCEPT !.at = "dead"] \in ReaderState
  BY <1>2 DEF ReaderState, ReadAt
<1> QED BY <1>1, <1>2, <1>3

\* The fields of the publisher's, a reader's, a slot's and an entry's record.
LEMMA FieldTypes ==
    ASSUME TypeOK
    PROVE  /\ pub.at \in PubAt /\ pub.seq \in 0 .. MaxSeq /\ pub.old \in 0 .. MaxSeq
           /\ pub.min \in 0 .. MaxSeq + 1 /\ pub.next \in 0 .. MaxConsumers
           /\ \A r \in Readers : /\ rd[r].at \in ReadAt /\ rd[r].index \in 0 .. MaxConsumers
                                 /\ rd[r].id \in Nat /\ rd[r].want \in 0 .. MaxSeq
                                 /\ rd[r].start \in 0 .. MaxSeq + 1
                                 /\ rd[r].cont \in {"idle", "beat", "advance"}
           /\ \A i \in Slots : /\ slot[i].seq \in 0 .. MaxSeq /\ slot[i].ref \in Nat
                               /\ slot[i].data \in 0 .. MaxSeq
           /\ \A e \in Entries : /\ entry[e].id \in Nat /\ entry[e].cursor \in 0 .. MaxSeq + 1
                                 /\ entry[e].seen \in BOOLEAN
           /\ SlotOf(pub.seq) \in Slots
           /\ \A r \in Readers : SlotOf(rd[r].want) \in Slots
<1>1. /\ pub.at \in PubAt /\ pub.seq \in 0 .. MaxSeq /\ pub.old \in 0 .. MaxSeq
      /\ pub.min \in 0 .. MaxSeq + 1 /\ pub.next \in 0 .. MaxConsumers
  BY DEF TypeOK, WriteInProgress
<1>2. ASSUME NEW r \in Readers
      PROVE  /\ rd[r].at \in ReadAt /\ rd[r].index \in 0 .. MaxConsumers
             /\ rd[r].id \in Nat /\ rd[r].want \in 0 .. MaxSeq
             /\ rd[r].start \in 0 .. MaxSeq + 1
             /\ rd[r].cont \in {"idle", "beat", "advance"}
  <2>1. rd[r] \in ReaderState
    BY DEF TypeOK
  <2> QED BY <2>1 DEF ReaderState
<1>3. ASSUME NEW i \in Slots
      PROVE  /\ slot[i].seq \in 0 .. MaxSeq /\ slot[i].ref \in Nat
             /\ slot[i].data \in 0 .. MaxSeq
  BY DEF TypeOK, SlotMeta
<1>4. ASSUME NEW e \in Entries
      PROVE  /\ entry[e].id \in Nat /\ entry[e].cursor \in 0 .. MaxSeq + 1
             /\ entry[e].seen \in BOOLEAN
  BY DEF TypeOK, ConsumerEntry
<1>5. SlotOf(pub.seq) \in Slots /\ \A r \in Readers : SlotOf(rd[r].want) \in Slots
  BY <1>1, <1>2, SlotOfSlots
<1> QED BY <1>1, <1>2, <1>3, <1>4, <1>5

\* What the scan compares are naturals.
LEMMA NumberTypes ==
    ASSUME TypeOK
    PROVE  /\ lastSeq \in Nat /\ pub.old \in Nat /\ pub.min \in Nat /\ pub.next \in Nat
           /\ \A e \in Entries : /\ entry[e].cursor \in Nat /\ since[e] \in Nat
                                 /\ passed[e] \in Nat /\ e \in Nat
<1>1. lastSeq \in Nat /\ pub.old \in Nat /\ pub.min \in Nat /\ pub.next \in Nat
  BY FieldTypes, Sizes DEF TypeOK
<1>2. ASSUME NEW e \in Entries
      PROVE  entry[e].cursor \in Nat /\ since[e] \in Nat /\ passed[e] \in Nat /\ e \in Nat
  <2>1. entry[e].cursor \in 0 .. MaxSeq + 1
    BY FieldTypes
  <2>2. since[e] \in 0 .. MaxSeq /\ passed[e] \in 0 .. MaxSeq + 1
    BY DEF TypeOK
  <2> QED BY <2>1, <2>2, Sizes DEF Entries
<1> QED BY <1>1, <1>2

\* Goes moves one reader and changes nothing else of it.
LEMMA GoesEffect ==
    ASSUME TypeOK, NEW r \in Readers, NEW at \in ReadAt, Goes(r, at)
    PROVE  /\ rd' \in [Readers -> ReaderState]
           /\ rd'[r].at = at /\ rd'[r].want = rd[r].want /\ rd'[r].cont = rd[r].cont
           /\ rd'[r].index = rd[r].index /\ rd'[r].id = rd[r].id /\ rd'[r].start = rd[r].start
           /\ \A q \in Readers : q # r => rd'[q] = rd[q]
<1>1. rd \in [Readers -> ReaderState] /\ rd' = [rd EXCEPT ![r].at = at]
  BY DEF TypeOK, Goes
<1> QED BY <1>1 DEF ReaderState

\* Returns ends a reader's call.
LEMMA ReturnsEffect ==
    ASSUME TypeOK, NEW r \in Readers, Returns(r)
    PROVE  /\ rd' \in [Readers -> ReaderState]
           /\ rd'[r].at = "idle" /\ rd'[r].want = 0 /\ rd'[r].cont = "idle"
           /\ rd'[r].index = rd[r].index /\ rd'[r].id = rd[r].id /\ rd'[r].start = rd[r].start
           /\ \A q \in Readers : q # r => rd'[q] = rd[q]
<1>1. /\ rd \in [Readers -> ReaderState]
      /\ rd' = [rd EXCEPT ![r] = [rd[r] EXCEPT !.at = "idle", !.want = 0, !.cont = "idle"]]
  BY DEF TypeOK, Returns
<1>2. "idle" \in ReadAt /\ 0 \in 0 .. MaxSeq
  BY Sizes DEF ReadAt
<1>3. rd[r] \in ReaderState
  BY <1>1
<1>4. [rd[r] EXCEPT !.at = "idle", !.want = 0, !.cont = "idle"] \in ReaderState
  BY <1>2, <1>3 DEF ReaderState
<1> QED BY <1>1, <1>3, <1>4 DEF ReaderState

\* A publisher's step leaves the readers and the consumer table alone.
LEMMA PublisherFrame ==
    ASSUME Publisher
    PROVE  UNCHANGED <<entry, rd, ids, expiries, crashes, pinned, since, passed>>
  BY DEF Publisher, PubOnly, BeginWrite, HideSlot, MinStart, ScanEntry, ScanCursor,
         DropNeeded, CheckRef, Restore, Fill, CancelWrite, CommitSeq, CommitLast

\* A reader's step leaves the publisher and the sequence numbers alone.
LEMMA ReaderFrame ==
    ASSUME NEW r \in Readers, Reader(r) \/ CrashReader(r)
    PROVE  UNCHANGED <<nextSeq, lastSeq, pub>>
  BY DEF Reader, EntryOnly, ReadOnly, NewConsumer, LookAtEntry, Claim, ClaimLost, ClaimFails, LoadLast, InitEntry,
         PublishId, Unregister, Leave, Acquire, Beat, Load, Pin, Verify, Undo, Release,
         Keep, KeepUp, Advance, CrashReader

----------------------------------------------------------------------------
(***************************************************************************)
(* The inductive invariant.  TypeOK is not inductive by itself (a lost pin  *)
(* would take a reference count below zero), LeaseStable needs the order of *)
(* the reader's and the publisher's accesses to one slot, and NeededKept    *)
(* needs what the scan of the table has established so far.                 *)
(***************************************************************************)
Pinning == {"verify", "undo", "lease"}
PinnedTo(i) == {r \in Readers : pinned[r] = i}

\* A reader is counted into the slot it wants from its pin to its unpin; a dead one
\* may be counted in for ever.
PinInv ==
    \A r \in Readers :
        /\ rd[r].at \in Pinning => pinned[r] = SlotOf(rd[r].want)
        /\ rd[r].at \notin Pinning \cup {"dead"} => pinned[r] = NoSlot

\* A compare-and-swap is of the id of an entry.
IndexInv == \A r \in Readers : rd[r].at = "cas" => rd[r].index \in Entries

\* RefCountExact, with the finiteness that Cardinality needs.
CountInv == \A i \in Slots : IsFiniteSet(PinnedTo(i)) /\ slot[i].ref = Cardinality(PinnedTo(i))

\* Sequence numbers: the publisher's is the last one given out; no cursor and no wanted
\* publication is beyond lastSeq; a reader on its way to a lease wants a publication.
Wanting == {"beat", "load", "pin", "verify", "lease"}
Registering == {"claim", "cas", "last", "init", "id"}
SeqInv ==
    /\ lastSeq <= nextSeq
    /\ pub.at # "idle" => pub.seq = nextSeq /\ pub.seq # 0
    /\ \A r \in Readers :
          /\ rd[r].want <= lastSeq /\ rd[r].start <= lastSeq + 1
          /\ rd[r].at = "init" => rd[r].start # 0
          /\ rd[r].at \in Wanting => rd[r].want # 0
          /\ rd[r].at \in Registering /\ rd[r].cont = "beat" => rd[r].want # 0
    /\ \A e \in Entries : /\ entry[e].cursor <= passed[e] /\ passed[e] <= lastSeq + 1
                          /\ since[e] <= lastSeq

\* A slot that shows a sequence number holds that publication; the publisher's own
\* slot is hidden until it commits, and holds what it held until it is filled.
SlotInv ==
    /\ \A i \in Slots : slot[i].seq # 0 => slot[i].data = slot[i].seq
    /\ pub.at \in {"min", "scan", "cursor", "restore", "fill", "commit"}
          => slot[SlotOf(pub.seq)].seq = 0
    /\ pub.at \in {"min", "scan", "cursor", "restore"}
          => pub.old = 0 \/ slot[SlotOf(pub.seq)].data = pub.old
    /\ pub.at = "commit" => slot[SlotOf(pub.seq)].data = pub.seq

\* A leased slot holds what its reader wants, and is not the one being filled.
LeaseInv ==
    \A r \in Readers : rd[r].at = "lease" =>
        /\ slot[SlotOf(rd[r].want)].data = rd[r].want
        /\ pub.at \in {"fill", "commit"} => SlotOf(rd[r].want) # SlotOf(pub.seq)

\* The cursor of an entry is set before its id is published.
CursorInv ==
    /\ \A e \in Entries : entry[e].id \notin {Free, Claiming} => entry[e].cursor # 0
    /\ \A r \in Readers : rd[r].at = "id" /\ rd[r].index \in Entries
          => entry[rd[r].index].cursor # 0

\* The scan: an entry already looked at that counts holds the minimum down, or began
\* to count after the slot's content was published, or that content is not yet lastSeq
\* (its publisher died before the store to lastSeq) and will be kept for that reason.
Scanning == {"scan", "cursor"}
Holds(e) == \/ pub.old <= since[e]
            \/ pub.old > lastSeq
            \/ pub.min <= passed[e]
ScanInv ==
    /\ pub.at \in {"hide", "min"} => pub.next = 0
    /\ pub.at = "cursor" => pub.next \in Entries
    /\ pub.at \in Scanning => pub.min <= lastSeq + 1
    /\ pub.at \in Scanning => \A e \in Entries : e < pub.next /\ Counts(e) => Holds(e)
    /\ pub.at \in {"fill", "commit", "last"} => pub.old <= lastSeq

RingInv ==
    /\ TypeOK /\ IndexInv /\ PinInv /\ CountInv /\ SeqInv /\ SlotInv /\ LeaseInv
    /\ CursorInv /\ ScanInv /\ NeededKept

----------------------------------------------------------------------------
(* Type correctness.                                                       *)

\* The publisher's own record and the sequence numbers keep their types.
LEMMA PublisherType ==
    ASSUME TypeOK, ScanInv, Publisher
    PROVE  nextSeq' \in 0 .. MaxSeq /\ lastSeq' \in 0 .. MaxSeq /\ pub' \in WriteInProgress
<1> USE FieldTypes
<1>0. pub \in WriteInProgress /\ nextSeq \in 0 .. MaxSeq /\ lastSeq \in 0 .. MaxSeq
  BY DEF TypeOK
<1>begin. CASE BeginWrite
  <2>1. nextSeq + 1 \in 0 .. MaxSeq
    BY <1>begin, <1>0, Sizes DEF BeginWrite
  <2>2. [NoWrite EXCEPT !.at = "hide", !.seq = nextSeq + 1] \in WriteInProgress
    BY <2>1, IdleTypes DEF WriteInProgress, PubAt
  <2> QED BY <1>begin, <1>0, <2>1, <2>2 DEF BeginWrite
<1>hide. CASE HideSlot
  <2>1. slot[SlotOf(pub.seq)].seq \in 0 .. MaxSeq
    OBVIOUS
  <2>2. pub' \in WriteInProgress
    BY <1>hide, <1>0, <2>1 DEF HideSlot, WriteInProgress, PubAt
  <2> QED BY <1>hide, <1>0, <2>2 DEF HideSlot
<1>min. CASE MinStart
  <2>1. lastSeq + 1 \in 0 .. MaxSeq + 1
    BY <1>0, Sizes
  <2>2. pub' \in WriteInProgress
    BY <1>min, <1>0, <2>1 DEF MinStart, WriteInProgress, PubAt
  <2> QED BY <1>min, <1>0, <2>2 DEF MinStart
<1>scan. CASE ScanEntry
  <2>1. pub.next + 1 \in 0 .. MaxConsumers
    BY <1>scan, Sizes DEF ScanEntry, Entries
  <2>2. pub' \in WriteInProgress
    BY <1>scan, <1>0, <2>1 DEF ScanEntry, WriteInProgress, PubAt
  <2> QED BY <1>scan, <1>0, <2>2 DEF ScanEntry
<1>cursor. CASE ScanCursor
  <2> DEFINE cur == entry[pub.next].cursor
             min == IF cur # 0 /\ cur < pub.min THEN cur ELSE pub.min
  <2>1. pub.next \in Entries
    BY <1>cursor DEF ScanCursor, ScanInv
  <2>2. pub.next + 1 \in 0 .. MaxConsumers /\ min \in 0 .. MaxSeq + 1
    BY <2>1, Sizes DEF Entries
  <2>3. pub' = [pub EXCEPT !.at = "scan", !.next = pub.next + 1, !.min = min]
    BY <1>cursor DEF ScanCursor
  <2> HIDE DEF min
  <2>4. pub' \in WriteInProgress
    BY <2>2, <2>3, <1>0 DEF WriteInProgress, PubAt
  <2> QED BY <1>cursor, <1>0, <2>4 DEF ScanCursor
<1>drop. CASE DropNeeded
  <2>1. 0 \in 0 .. MaxSeq + 1 /\ 0 \in 0 .. MaxConsumers
    BY Sizes
  <2>2. pub' \in WriteInProgress
    BY <1>drop, <1>0, <2>1 DEF DropNeeded, WriteInProgress, PubAt
  <2> QED BY <1>drop, <1>0, <2>2 DEF DropNeeded
<1>check. CASE CheckRef
  <2>1. 0 \in 0 .. MaxSeq + 1 /\ 0 \in 0 .. MaxConsumers
    BY Sizes
  <2>2. pub' \in WriteInProgress
    BY <1>check, <1>0, <2>1 DEF CheckRef, WriteInProgress, PubAt
  <2> QED BY <1>check, <1>0, <2>2 DEF CheckRef
<1>fill. CASE Fill \/ CommitSeq
  <2>1. pub' \in WriteInProgress
    BY <1>fill, <1>0 DEF Fill, CommitSeq, WriteInProgress, PubAt
  <2> QED BY <1>fill, <1>0, <2>1 DEF Fill, CommitSeq
<1>end. CASE Restore \/ CancelWrite \/ CommitLast
  BY <1>end, <1>0, IdleTypes DEF Restore, CancelWrite, CommitLast
<1> QED BY <1>begin, <1>hide, <1>min, <1>scan, <1>cursor, <1>drop, <1>check, <1>fill,
           <1>end DEF Publisher

\* The slots keep their types under a publisher's step.
LEMMA PublisherSlots ==
    ASSUME TypeOK, Publisher
    PROVE  slot' \in [Slots -> SlotMeta]
<1>0. slot \in [Slots -> SlotMeta] /\ 0 \in 0 .. MaxSeq
  BY Sizes DEF TypeOK
<1>1. SlotOf(pub.seq) \in Slots /\ pub.seq \in 0 .. MaxSeq /\ pub.old \in 0 .. MaxSeq
  BY FieldTypes
<1>2. CASE UNCHANGED slot
  BY <1>0, <1>2
<1>3. CASE HideSlot \/ CheckRef \/ Restore \/ Fill \/ CommitSeq
  BY <1>0, <1>1, <1>3 DEF HideSlot, CheckRef, Restore, Fill, CommitSeq, SlotMeta
<1> QED BY <1>2, <1>3 DEF Publisher, BeginWrite, MinStart, ScanEntry, ScanCursor,
                          DropNeeded, CancelWrite, CommitLast

\* Whoever is pinning a slot finds itself in its reference count.
LEMMA PinCounted ==
    ASSUME TypeOK, PinInv, CountInv, NEW r \in Readers, rd[r].at \in Pinning
    PROVE  /\ SlotOf(rd[r].want) \in Slots /\ r \in PinnedTo(SlotOf(rd[r].want))
           /\ slot[SlotOf(rd[r].want)].ref # 0
<1> DEFINE i == SlotOf(rd[r].want)
<1>1. i \in Slots /\ r \in PinnedTo(i)
  BY FieldTypes DEF PinInv, PinnedTo
<1>2. IsFiniteSet(PinnedTo(i)) /\ slot[i].ref = Cardinality(PinnedTo(i))
  BY <1>1 DEF CountInv
<1>3. Cardinality(PinnedTo(i)) # 0
  BY <1>1, <1>2, FS_EmptySet
<1> QED BY <1>1, <1>2, <1>3

\* What the steps of a reader do to the slots and to the consumer table.
LEMMA ReaderSlots ==
    ASSUME TypeOK, PinInv, CountInv, NEW r \in Readers, Reader(r) \/ CrashReader(r)
    PROVE  slot' \in [Slots -> SlotMeta] /\ pinned' \in [Readers -> 0 .. Capacity]
<1>0. slot \in [Slots -> SlotMeta] /\ pinned \in [Readers -> 0 .. Capacity]
  BY DEF TypeOK
<1>1. SlotOf(rd[r].want) \in Slots /\ SlotOf(rd[r].want) \in 0 .. Capacity /\ NoSlot \in 0 .. Capacity
  BY FieldTypes, Sizes DEF Slots, NoSlot
<1>2. slot[SlotOf(rd[r].want)].ref \in Nat
  BY <1>1, FieldTypes
<1>3. CASE Pin(r)
  BY <1>0, <1>1, <1>3 DEF Pin, SlotMeta
<1>4. CASE Undo(r) \/ Release(r)
  <2>1. slot[SlotOf(rd[r].want)].ref - 1 \in Nat
    <3>1. rd[r].at \in Pinning
      BY <1>4 DEF Undo, Release, Pinning
    <3> QED BY <3>1, <1>2, PinCounted
  <2> QED BY <1>0, <1>1, <1>4, <2>1 DEF Undo, Release, Unpin, SlotMeta
<1>5. CASE UNCHANGED <<slot, pinned>>
  BY <1>0, <1>5
<1> QED BY <1>3, <1>4, <1>5 DEF Reader, EntryOnly, NewConsumer, LookAtEntry, Claim, ClaimLost, ClaimFails, LoadLast,
        InitEntry, PublishId, Unregister, Leave, Acquire, Beat, Load, Verify, Keep, KeepUp,
        Advance, CrashReader

\* A reader's step moves that reader only, and keeps the readers' types.
LEMMA ReaderMoves ==
    ASSUME TypeOK, IndexInv, NEW r \in Readers, Reader(r) \/ CrashReader(r)
    PROVE  rd' \in [Readers -> ReaderState] /\ \A q \in Readers : q # r => rd'[q] = rd[q]
<1>0. rd \in [Readers -> ReaderState] /\ rd[r] \in ReaderState
  BY DEF TypeOK
<1>1. CASE \E at \in ReadAt : Goes(r, at)
  BY <1>1, GoesEffect
<1>2. CASE Returns(r)
  BY <1>2, ReturnsEffect
<1>3. CASE \E s \in ReaderState : rd' = [rd EXCEPT ![r] = s]
  BY <1>0, <1>3
<1>4. CASE NewConsumer(r)
  <2>1. 0 \in 0 .. MaxConsumers
    BY Sizes
  <2> QED BY <1>0, <1>4, <2>1 DEF NewConsumer, ReaderState, ReadAt
<1>5. CASE LookAtEntry(r)
  <2>1. rd[r].index + 1 \in 0 .. MaxConsumers /\ entry[rd[r].index].id \in Nat
    BY <1>5, FieldTypes, Sizes DEF LookAtEntry, Entries
  <2>2. CASE Claimable(rd[r].index)
    BY <1>0, <1>5, <2>1, <2>2 DEF LookAtEntry, ReaderState, ReadAt
  <2>3. CASE ~Claimable(rd[r].index)
    BY <1>0, <1>5, <2>1, <2>3 DEF LookAtEntry, ReaderState, ReadAt
  <2> QED BY <2>2, <2>3
<1>15. CASE ClaimLost(r)
  <2>1. rd[r].index + 1 \in 0 .. MaxConsumers
    BY <1>15, Sizes DEF ClaimLost, IndexInv, Entries
  <2> QED BY <1>0, <1>15, <2>1 DEF ClaimLost, ReaderState, ReadAt
<1>12. CASE Claim(r)
  <2>1. ids + 1 \in Nat
    BY DEF TypeOK
  <2> QED BY <1>0, <1>12, <2>1 DEF Claim, ReaderState, ReadAt
<1>13. CASE LoadLast(r)
  <2>1. lastSeq + 1 \in 0 .. MaxSeq + 1
    BY Sizes DEF TypeOK
  <2> QED BY <1>0, <1>13, <2>1 DEF LoadLast, ReaderState, ReadAt
<1>14. CASE InitEntry(r)
  <2>1. 0 \in 0 .. MaxSeq + 1
    BY Sizes
  <2> QED BY <1>0, <1>14, <2>1 DEF InitEntry, ReaderState, ReadAt
<1>6. CASE ClaimFails(r) \/ Leave(r) \/ CrashReader(r)
  BY <1>3, <1>6, IdleTypes DEF ClaimFails, Leave, CrashReader
<1>7. CASE Unregister(r)
  <2>1. CASE Registered(r)
    BY <1>1, <1>7, <2>1 DEF Unregister, ReadAt
  <2>2. CASE ~Registered(r)
    BY <1>3, <1>7, <2>2, IdleTypes DEF Unregister
  <2> QED BY <2>1, <2>2
<1>8. CASE Acquire(r)
  <2>1. PICK seq \in 1 .. lastSeq :
          \/ \E at \in {"load", "beat"} : rd' = [rd EXCEPT ![r].want = seq, ![r].at = at]
          \/ rd' = [rd EXCEPT ![r].want = seq, ![r].at = "claim", ![r].index = 0,
                             ![r].cont = "beat"]
    BY <1>8 DEF Acquire
  <2>2. seq \in 0 .. MaxSeq /\ 0 \in 0 .. MaxConsumers
    BY Sizes DEF TypeOK
  <2> QED BY <1>0, <2>1, <2>2 DEF ReaderState, ReadAt
<1>9. CASE KeepUp(r)
  <2>1. PICK next \in 1 .. lastSeq + 1 :
          \/ rd' = [rd EXCEPT ![r].want = next - 1, ![r].at = "advance"]
          \/ rd' = [rd EXCEPT ![r].want = next - 1, ![r].at = "claim", ![r].index = 0,
                             ![r].cont = "advance"]
    BY <1>9 DEF KeepUp
  <2>2. next - 1 \in 0 .. MaxSeq /\ 0 \in 0 .. MaxConsumers
    BY Sizes DEF TypeOK
  <2> QED BY <1>0, <2>1, <2>2 DEF ReaderState, ReadAt
<1>10. CASE PublishId(r)
  BY <1>1, <1>10, FieldTypes DEF PublishId, ReadAt
<1>11. CASE Beat(r) \/ Load(r) \/ Pin(r) \/ Verify(r) \/ Undo(r)
            \/ Release(r) \/ Keep(r) \/ Advance(r)
  BY <1>1, <1>2, <1>11 DEF Beat, Load, Pin, Verify, Undo, Release, Keep,
                           Advance, ReadAt
<1> QED BY <1>4, <1>5, <1>6, <1>7, <1>8, <1>9, <1>10, <1>11, <1>12, <1>13, <1>14,
           <1>15 DEF Reader

\* Where the steps that are no Goes and no Returns take their reader.
LEMMA CallEffect ==
    ASSUME TypeOK, NEW r \in Readers
    PROVE  /\ NewConsumer(r) => /\ rd'[r].at = "claim" /\ rd'[r].cont = "idle"
                                /\ rd'[r].want = rd[r].want
                                /\ rd'[r].start = rd[r].start
           /\ LookAtEntry(r) \/ ClaimLost(r) =>
                 /\ rd'[r].at = "claim" \/ (rd'[r].at = "cas" /\ rd'[r].index \in Entries)
                 /\ rd'[r].cont = rd[r].cont /\ rd'[r].want = rd[r].want
                 /\ rd'[r].start = rd[r].start
           /\ Claim(r) => /\ rd'[r].at = "last" /\ rd'[r].cont = rd[r].cont
                          /\ rd'[r].want = rd[r].want /\ rd'[r].start = rd[r].start
           /\ LoadLast(r) => /\ rd'[r].at = "init" /\ rd'[r].cont = rd[r].cont
                             /\ rd'[r].want = rd[r].want /\ rd'[r].start = lastSeq + 1
           /\ InitEntry(r) => /\ rd'[r].at = "id" /\ rd'[r].cont = rd[r].cont
                              /\ rd'[r].want = rd[r].want /\ rd'[r].start = 0
                              /\ rd'[r].index = rd[r].index
           /\ ClaimFails(r) \/ Leave(r) => rd'[r].at = "idle" /\ rd'[r].want = 0 /\ rd'[r].start = 0
           /\ CrashReader(r) => rd'[r].at = "dead" /\ rd'[r].want = 0 /\ rd'[r].start = 0
           /\ Acquire(r) => /\ rd'[r].at \in {"load", "beat", "claim"}
                            /\ rd'[r].want \in 1 .. lastSeq /\ rd'[r].start = rd[r].start
           /\ KeepUp(r) => /\ rd'[r].at = "advance" \/ (rd'[r].at = "claim" /\ rd'[r].cont = "advance")
                           /\ rd'[r].want \in 0 .. lastSeq /\ rd'[r].start = rd[r].start
           /\ Unregister(r) => \/ rd'[r].at = "leave" /\ rd'[r].want = rd[r].want /\ rd'[r].start = rd[r].start
                               \/ rd'[r].at = "idle" /\ rd'[r].want = 0 /\ rd'[r].start = 0
<1>0. rd \in [Readers -> ReaderState] /\ rd[r] \in ReaderState
  BY DEF TypeOK
<1>1. ASSUME NewConsumer(r) PROVE /\ rd'[r].at = "claim" /\ rd'[r].cont = "idle"
                                  /\ rd'[r].want = rd[r].want
                                  /\ rd'[r].start = rd[r].start
  BY <1>0, <1>1 DEF NewConsumer, ReaderState
<1>2. ASSUME LookAtEntry(r) \/ ClaimLost(r)
      PROVE  /\ rd'[r].at = "claim" \/ (rd'[r].at = "cas" /\ rd'[r].index \in Entries)
             /\ rd'[r].cont = rd[r].cont /\ rd'[r].want = rd[r].want
             /\ rd'[r].start = rd[r].start
  <2>1. CASE LookAtEntry(r)
    BY <1>0, <2>1 DEF LookAtEntry, ReaderState
  <2>2. CASE ClaimLost(r)
    BY <1>0, <2>2 DEF ClaimLost, ReaderState
  <2> QED BY <1>2, <2>1, <2>2
<1>8. ASSUME Claim(r) PROVE /\ rd'[r].at = "last" /\ rd'[r].cont = rd[r].cont
                            /\ rd'[r].want = rd[r].want /\ rd'[r].start = rd[r].start
  BY <1>0, <1>8 DEF Claim, ReaderState
<1>9. ASSUME LoadLast(r) PROVE /\ rd'[r].at = "init" /\ rd'[r].cont = rd[r].cont
                               /\ rd'[r].want = rd[r].want /\ rd'[r].start = lastSeq + 1
  BY <1>0, <1>9 DEF LoadLast, ReaderState
<1>10. ASSUME InitEntry(r) PROVE /\ rd'[r].at = "id" /\ rd'[r].cont = rd[r].cont
                                 /\ rd'[r].want = rd[r].want /\ rd'[r].start = 0
                                 /\ rd'[r].index = rd[r].index
  BY <1>0, <1>10 DEF InitEntry, ReaderState
<1>3. ASSUME rd' = [rd EXCEPT ![r] = NoReader] PROVE rd'[r].at = "idle" /\ rd'[r].want = 0 /\ rd'[r].start = 0
  BY <1>0, <1>3 DEF NoReader
<1>4. ASSUME CrashReader(r) PROVE rd'[r].at = "dead" /\ rd'[r].want = 0 /\ rd'[r].start = 0
  BY <1>0, <1>4 DEF CrashReader, NoReader
<1>5. ASSUME Acquire(r) PROVE /\ rd'[r].at \in {"load", "beat", "claim"}
                              /\ rd'[r].want \in 1 .. lastSeq /\ rd'[r].start = rd[r].start
  <2>1. PICK seq \in 1 .. lastSeq :
          \/ \E at \in {"load", "beat"} : rd' = [rd EXCEPT ![r].want = seq, ![r].at = at]
          \/ rd' = [rd EXCEPT ![r].want = seq, ![r].at = "claim", ![r].index = 0,
                             ![r].cont = "beat"]
    BY <1>5 DEF Acquire
  <2> QED BY <1>0, <2>1 DEF ReaderState
<1>6. ASSUME KeepUp(r)
      PROVE  /\ rd'[r].at = "advance" \/ (rd'[r].at = "claim" /\ rd'[r].cont = "advance")
             /\ rd'[r].want \in 0 .. lastSeq /\ rd'[r].start = rd[r].start
  <2>1. PICK next \in 1 .. lastSeq + 1 :
          \/ rd' = [rd EXCEPT ![r].want = next - 1, ![r].at = "advance"]
          \/ rd' = [rd EXCEPT ![r].want = next - 1, ![r].at = "claim", ![r].index = 0,
                             ![r].cont = "advance"]
    BY <1>6 DEF KeepUp
  <2>2. next - 1 \in 0 .. lastSeq
    BY Sizes DEF TypeOK
  <2> QED BY <1>0, <2>1, <2>2 DEF ReaderState
<1>7. ASSUME Unregister(r) PROVE \/ rd'[r].at = "leave" /\ rd'[r].want = rd[r].want /\ rd'[r].start = rd[r].start
                                 \/ rd'[r].at = "idle" /\ rd'[r].want = 0 /\ rd'[r].start = 0
  BY <1>3, <1>7, GoesEffect DEF Unregister, ReadAt
<1> QED BY <1>1, <1>2, <1>3, <1>4, <1>5, <1>6, <1>7, <1>8, <1>9, <1>10 DEF ClaimFails, Leave

\* A reader's step keeps the types of the consumer table.
LEMMA ReaderEntries ==
    ASSUME TypeOK, NEW r \in Readers, Reader(r) \/ CrashReader(r)
    PROVE  /\ entry' \in [Entries -> ConsumerEntry] /\ since' \in [Entries -> 0 .. MaxSeq]
           /\ passed' \in [Entries -> 0 .. MaxSeq + 1]
           /\ ids' \in Nat /\ expiries' \in Nat /\ crashes' \in Nat
<1>0. /\ entry \in [Entries -> ConsumerEntry] /\ since \in [Entries -> 0 .. MaxSeq]
      /\ passed \in [Entries -> 0 .. MaxSeq + 1]
      /\ ids \in Nat /\ expiries \in Nat /\ crashes \in Nat /\ lastSeq \in 0 .. MaxSeq
  BY DEF TypeOK
<1>1. rd[r].start \in 0 .. MaxSeq + 1 /\ rd[r].want + 1 \in 0 .. MaxSeq + 1
  BY <1>0, FieldTypes, Sizes
<1>2. rd[r].id \in Nat
  BY FieldTypes
<1>3. CASE Claim(r)
  <2>1. entry' \in [Entries -> ConsumerEntry]
    BY <1>0, <1>3 DEF Claim, ConsumerEntry, Claiming
  <2> QED BY <1>0, <1>3, <2>1 DEF Claim, EntryOnly
<1>4. CASE InitEntry(r)
  <2>1. entry' \in [Entries -> ConsumerEntry]
    BY <1>0, <1>1, <1>4 DEF InitEntry, ConsumerEntry
  <2>2. passed' \in [Entries -> 0 .. MaxSeq + 1]
    BY <1>0, <1>1, <1>4 DEF InitEntry, MovesTo
  <2> QED BY <1>0, <1>4, <2>1, <2>2 DEF InitEntry, EntryOnly
<1>5. CASE PublishId(r)
  BY <1>0, <1>2, <1>5 DEF PublishId, EntryOnly, ConsumerEntry
<1>6. CASE Leave(r)
  BY <1>0, <1>6 DEF Leave, EntryOnly, ConsumerEntry, Free
<1>7. CASE Beat(r)
  BY <1>0, <1>7 DEF Beat, Beats, ReadOnly, ConsumerEntry
<1>8. CASE Advance(r)
  <2> DEFINE e == rd[r].index
             raised == IF rd[r].want + 1 > entry[e].cursor THEN rd[r].want + 1 ELSE entry[e].cursor
  <2>1. e \in Entries => raised \in 0 .. MaxSeq + 1
    BY <1>1, FieldTypes
  <2>2. entry' = [entry EXCEPT ![e].cursor = raised, ![e].seen = TRUE]
    BY <1>8 DEF Advance
  <2> HIDE DEF raised
  <2>3. entry' \in [Entries -> ConsumerEntry]
    BY <1>0, <2>1, <2>2 DEF ConsumerEntry
  <2>4. since' \in [Entries -> 0 .. MaxSeq]
    BY <1>0, <1>8 DEF Advance, Beats
  <2>5. passed' \in [Entries -> 0 .. MaxSeq + 1]
    BY <1>0, <1>1, <1>8 DEF Advance, MovesTo
  <2> QED BY <1>0, <1>8, <2>3, <2>4, <2>5 DEF Advance, ReadOnly
<1>9. CASE UNCHANGED <<entry, since, passed, ids, expiries>> /\ crashes' \in {crashes, crashes + 1}
  BY <1>0, <1>9
<1> QED BY <1>3, <1>4, <1>5, <1>6, <1>7, <1>8, <1>9 DEF Reader, EntryOnly, ReadOnly,
        NewConsumer, LookAtEntry, ClaimLost, ClaimFails, LoadLast, Unregister, Acquire,
        Load, Pin, Verify, Undo, Release, Keep, KeepUp, CrashReader

\* The whole state keeps its type.
LEMMA TypeStep ==
    ASSUME RingInv, [Next]_vars
    PROVE  TypeOK'
<1>0. TypeOK /\ IndexInv /\ PinInv /\ CountInv /\ ScanInv
  BY DEF RingInv
<1>1. CASE Publisher
  BY <1>0, <1>1, PublisherType, PublisherSlots, PublisherFrame DEF TypeOK
<1>2. ASSUME NEW r \in Readers, Reader(r) \/ CrashReader(r) PROVE TypeOK'
  BY <1>0, <1>2, ReaderFrame, ReaderMoves, ReaderEntries, ReaderSlots DEF TypeOK
<1>3. CASE Expire
  <2>1. entry \in [Entries -> ConsumerEntry] /\ expiries \in Nat
    BY <1>0 DEF TypeOK
  <2>2. entry' \in [Entries -> ConsumerEntry] /\ expiries' \in Nat
    <3>1. PICK e \in Entries : entry' = [entry EXCEPT ![e].seen = FALSE]
      BY <1>3 DEF Expire
    <3>2. entry' \in [Entries -> ConsumerEntry]
      BY <2>1, <3>1 DEF ConsumerEntry
    <3> QED BY <2>1, <3>2, <1>3 DEF Expire
  <2> QED BY <1>0, <1>3, <2>2 DEF Expire, TypeOK
<1>4. CASE CrashPublisher
  BY <1>0, <1>4, IdleTypes DEF CrashPublisher, TypeOK
<1>5. CASE UNCHANGED vars
  BY <1>0, <1>5 DEF TypeOK, vars
<1> QED BY <1>1, <1>2, <1>3, <1>4, <1>5 DEF Next

\* Only LookAtEntry leads to a compare-and-swap.
LEMMA IndexStep ==
    ASSUME RingInv, [Next]_vars
    PROVE  IndexInv'
<1>0. TypeOK /\ IndexInv
  BY DEF RingInv
<1>1. CASE UNCHANGED rd
  BY <1>0, <1>1 DEF IndexInv
<1>2. ASSUME NEW r \in Readers, Reader(r) \/ CrashReader(r) PROVE IndexInv'
  <2>1. \A q \in Readers : q # r => rd'[q] = rd[q]
    BY <1>0, <1>2, ReaderMoves
  <2>2. rd'[r].at = "cas" => rd'[r].index \in Entries
    <3>1. CASE \/ NewConsumer(r) \/ LookAtEntry(r) \/ Claim(r) \/ ClaimLost(r) \/ ClaimFails(r)
               \/ LoadLast(r) \/ InitEntry(r) \/ Leave(r) \/ CrashReader(r) \/ Acquire(r)
               \/ KeepUp(r) \/ Unregister(r)
      BY <1>0, <3>1, CallEffect
    <3>2. CASE Returns(r) \/ \E at \in ReadAt \ {"cas"} : Goes(r, at)
      BY <1>0, <3>2, GoesEffect, ReturnsEffect
    <3>3. rd[r].cont \in ReadAt \ {"cas"}
      BY <1>0, FieldTypes DEF ReadAt
    <3> QED BY <1>2, <3>1, <3>2, <3>3 DEF Reader, PublishId, Beat, Load, Pin, Verify, Undo,
               Release, Keep, Advance, ReadAt
  <2> QED BY <1>0, <2>1, <2>2 DEF IndexInv
<1>3. CASE Publisher \/ Expire \/ CrashPublisher \/ UNCHANGED vars
  BY <1>1, <1>3, PublisherFrame DEF Expire, CrashPublisher, vars
<1> QED BY <1>2, <1>3 DEF Next

----------------------------------------------------------------------------
(* The pins and the reference counts.                                      *)

\* A reader is counted into its slot exactly from its pin to its unpin.
LEMMA PinStep ==
    ASSUME RingInv, [Next]_vars
    PROVE  PinInv'
<1>0. TypeOK /\ IndexInv /\ PinInv
  BY DEF RingInv
<1>1. CASE UNCHANGED <<rd, pinned>>
  BY <1>0, <1>1 DEF PinInv
<1>2. ASSUME NEW r \in Readers, Reader(r) \/ CrashReader(r)
      PROVE  PinInv'
  <2>0. /\ rd' \in [Readers -> ReaderState] /\ \A q \in Readers : q # r => rd'[q] = rd[q]
        /\ pinned \in [Readers -> 0 .. Capacity]
    BY <1>0, <1>2, ReaderMoves DEF TypeOK
  <2>1. SUFFICES /\ \A q \in Readers : q # r => pinned'[q] = pinned[q]
                 /\ rd'[r].at \in Pinning => pinned'[r] = SlotOf(rd'[r].want)
                 /\ rd'[r].at \notin Pinning \cup {"dead"} => pinned'[r] = NoSlot
    BY <1>0, <2>0 DEF PinInv
  <2>2. /\ rd[r].at \in Pinning => pinned[r] = SlotOf(rd[r].want)
        /\ rd[r].at \notin Pinning \cup {"dead"} => pinned[r] = NoSlot
        /\ rd[r] \in ReaderState
    BY <1>0 DEF PinInv, TypeOK
  <2>3. CASE Pin(r)
    <3>1. Goes(r, "verify")
      BY <2>3 DEF Pin
    <3>2. rd'[r].at = "verify" /\ rd'[r].want = rd[r].want
      BY <1>0, <3>1, GoesEffect DEF ReadAt
    <3> QED BY <2>0, <2>3, <3>2 DEF Pin, Pinning
  <2>4. CASE Verify(r)
    <3>1. rd'[r].at \in {"lease", "undo"} /\ rd'[r].want = rd[r].want
      BY <1>0, <2>4, GoesEffect DEF Verify, ReadAt
    <3> QED BY <2>0, <2>2, <2>4, <3>1 DEF Verify, Pinning
  <2>5. CASE Undo(r)
    <3>1. rd'[r].at = "idle"
      BY <1>0, <2>5, ReturnsEffect DEF Undo
    <3> QED BY <2>0, <2>5, <3>1 DEF Undo, Unpin, Pinning
  <2>6. CASE Release(r)
    <3>1. rd'[r].at \in {"idle", "keep"}
      BY <1>0, <2>6, ReturnsEffect, GoesEffect DEF Release, ReadAt
    <3> QED BY <2>0, <2>6, <3>1 DEF Release, Unpin, Pinning
  <2>7. CASE CrashReader(r)
    <3>1. rd'[r].at = "dead"
      BY <1>0, <2>7, CallEffect
    <3> QED BY <2>7, <3>1 DEF CrashReader, Pinning
  <2>8. CASE /\ UNCHANGED pinned
             /\ rd[r].at \notin Pinning \cup {"dead"} /\ rd'[r].at \notin Pinning
    BY <2>2, <2>8
  <2>9. CASE \/ NewConsumer(r) \/ LookAtEntry(r) \/ Claim(r) \/ ClaimLost(r) \/ ClaimFails(r) \/ LoadLast(r)
             \/ InitEntry(r) \/ Leave(r) \/ Acquire(r) \/ KeepUp(r)
    <3>1. UNCHANGED pinned /\ rd[r].at \in {"idle", "claim", "cas", "last", "init", "leave"}
      BY <2>9 DEF NewConsumer, LookAtEntry, Claim, ClaimLost, ClaimFails, LoadLast, InitEntry, Leave,
                  Acquire, KeepUp, EntryOnly
    <3>2. rd'[r].at \in {"claim", "cas", "last", "init", "id", "idle", "load", "beat", "advance"}
      BY <1>0, <2>9, CallEffect
    <3> QED BY <2>8, <3>1, <3>2 DEF Pinning
  <2>10. CASE PublishId(r) \/ Beat(r)
    <3>1. UNCHANGED pinned /\ rd[r].at \in {"id", "beat"}
      BY <2>10 DEF PublishId, Beat, EntryOnly
    <3>2. rd'[r].at \in {"idle", "beat", "advance", "load"}
      BY <1>0, <2>10, GoesEffect, FieldTypes DEF PublishId, Beat, ReadAt
    <3> QED BY <2>8, <3>1, <3>2 DEF Pinning
  <2>11. CASE Load(r) \/ Keep(r) \/ Advance(r)
    <3>1. UNCHANGED pinned /\ rd[r].at \in {"load", "keep", "advance"}
      BY <2>11 DEF Load, Keep, Advance
    <3>2. rd'[r].at \in {"pin", "advance", "idle"}
      BY <1>0, <2>11, GoesEffect, ReturnsEffect DEF Load, Keep, Advance, ReadAt
    <3> QED BY <2>8, <3>1, <3>2 DEF Pinning
  <2>12. CASE Unregister(r)
    <3>1. UNCHANGED pinned /\ rd[r].at = "idle"
      BY <2>12 DEF Unregister, EntryOnly
    <3> QED BY <1>0, <2>8, <2>12, <3>1, CallEffect DEF Pinning
  <2> QED BY <1>2, <2>3, <2>4, <2>5, <2>6, <2>7, <2>9, <2>10, <2>11, <2>12 DEF Reader
<1>3. CASE Publisher \/ Expire \/ CrashPublisher \/ UNCHANGED vars
  BY <1>1, <1>3, PublisherFrame DEF Expire, CrashPublisher, vars
<1> QED BY <1>2, <1>3 DEF Next

\* The publisher writes its own slot only, and never a reference count.
LEMMA PublisherWrites ==
    ASSUME TypeOK, Publisher, NEW i \in Slots
    PROVE  /\ slot'[i].ref = slot[i].ref
           /\ i # SlotOf(pub.seq) => slot'[i] = slot[i]
<1>0. slot \in [Slots -> SlotMeta]
  BY DEF TypeOK
<1>1. CASE UNCHANGED slot
  BY <1>1
<1>2. CASE HideSlot \/ CheckRef \/ Restore \/ Fill \/ CommitSeq
  BY <1>0, <1>2 DEF HideSlot, CheckRef, Restore, Fill, CommitSeq, SlotMeta
<1> QED BY <1>1, <1>2 DEF Publisher, BeginWrite, MinStart, ScanEntry, ScanCursor,
                          DropNeeded, CancelWrite, CommitLast

\* A reader writes nothing but reference counts into the slots.
LEMMA ReaderWrites ==
    ASSUME TypeOK, NEW r \in Readers, Reader(r) \/ CrashReader(r), NEW i \in Slots
    PROVE  slot'[i].seq = slot[i].seq /\ slot'[i].data = slot[i].data
<1>0. slot \in [Slots -> SlotMeta]
  BY DEF TypeOK
<1>1. CASE UNCHANGED slot
  BY <1>1
<1>2. CASE Pin(r) \/ Undo(r) \/ Release(r)
  BY <1>0, <1>2 DEF Pin, Undo, Release, Unpin, SlotMeta
<1> QED BY <1>1, <1>2 DEF Reader, EntryOnly, NewConsumer, LookAtEntry, Claim, ClaimLost, ClaimFails, LoadLast, InitEntry,
        PublishId, Unregister, Leave, Acquire, Beat, Load, Verify, Keep, KeepUp, Advance,
        CrashReader

\* The reference counts stay the numbers of pins.
LEMMA CountStep ==
    ASSUME RingInv, [Next]_vars
    PROVE  CountInv'
<1>0. TypeOK /\ PinInv /\ CountInv
  BY DEF RingInv
<1>1. CASE UNCHANGED pinned /\ \A i \in Slots : slot'[i].ref = slot[i].ref
  BY <1>0, <1>1 DEF CountInv, PinnedTo
<1>2. ASSUME NEW r \in Readers, Pin(r)
      PROVE  CountInv'
  <2>s. PICK s \in Slots : s = SlotOf(rd[r].want)
    BY <1>0, FieldTypes
  <2>0. /\ slot \in [Slots -> SlotMeta] /\ pinned \in [Readers -> 0 .. Capacity]
        /\ slot[s].ref \in Nat /\ NoSlot \notin Slots
    BY <1>0, FieldTypes, Sizes DEF TypeOK, Slots, NoSlot
  <2>1. /\ pinned' = [pinned EXCEPT ![r] = s] /\ pinned[r] = NoSlot
        /\ slot' = [slot EXCEPT ![s].ref = slot[s].ref + 1]
    BY <1>0, <1>2, <2>s DEF Pin, PinInv, Pinning
  <2>2. ASSUME NEW i \in Slots, i # s
        PROVE  PinnedTo(i)' = PinnedTo(i) /\ slot'[i].ref = slot[i].ref
    BY <2>0, <2>1, <2>2 DEF PinnedTo
  <2>3. PinnedTo(s)' = PinnedTo(s) \cup {r} /\ r \notin PinnedTo(s)
    BY <2>0, <2>1 DEF PinnedTo
  <2>4. slot'[s].ref = slot[s].ref + 1
    BY <2>0, <2>1 DEF SlotMeta
  <2>5. IsFiniteSet(PinnedTo(s)) /\ slot[s].ref = Cardinality(PinnedTo(s))
    BY <1>0, <2>0 DEF CountInv
  <2>6. IsFiniteSet(PinnedTo(s)') /\ slot'[s].ref = Cardinality(PinnedTo(s)')
    BY <2>3, <2>4, <2>5, FS_AddElement
  <2>7. ASSUME NEW i \in Slots
        PROVE  IsFiniteSet(PinnedTo(i)') /\ slot'[i].ref = Cardinality(PinnedTo(i)')
    <3>1. CASE i = s
      BY <2>6, <3>1
    <3>2. CASE i # s
      BY <1>0, <2>2, <3>2 DEF CountInv
    <3> QED BY <3>1, <3>2
  <2> QED BY <2>7 DEF CountInv
<1>3. ASSUME NEW r \in Readers, Undo(r) \/ Release(r)
      PROVE  CountInv'
  <2>s. PICK s \in Slots : s = SlotOf(rd[r].want)
    BY <1>0, FieldTypes
  <2>0. /\ slot \in [Slots -> SlotMeta] /\ pinned \in [Readers -> 0 .. Capacity]
        /\ slot[s].ref \in Nat /\ NoSlot \notin Slots
    BY <1>0, FieldTypes, Sizes DEF TypeOK, Slots, NoSlot
  <2>1. /\ pinned' = [pinned EXCEPT ![r] = NoSlot] /\ pinned[r] = s
        /\ slot' = [slot EXCEPT ![s].ref = slot[s].ref - 1]
    BY <1>0, <1>3, <2>s DEF Undo, Release, Unpin, PinInv, Pinning
  <2>2. ASSUME NEW i \in Slots, i # s
        PROVE  PinnedTo(i)' = PinnedTo(i) /\ slot'[i].ref = slot[i].ref
    BY <2>0, <2>1, <2>2 DEF PinnedTo
  <2>3. PinnedTo(s)' = PinnedTo(s) \ {r} /\ r \in PinnedTo(s)
    BY <2>0, <2>1 DEF PinnedTo
  <2>4. slot'[s].ref = slot[s].ref - 1
    BY <2>0, <2>1 DEF SlotMeta
  <2>5. IsFiniteSet(PinnedTo(s)) /\ slot[s].ref = Cardinality(PinnedTo(s))
    BY <1>0, <2>0 DEF CountInv
  <2>6. IsFiniteSet(PinnedTo(s)') /\ slot'[s].ref = Cardinality(PinnedTo(s)')
    BY <2>3, <2>4, <2>5, FS_RemoveElement
  <2>7. ASSUME NEW i \in Slots
        PROVE  IsFiniteSet(PinnedTo(i)') /\ slot'[i].ref = Cardinality(PinnedTo(i)')
    <3>1. CASE i = s
      BY <2>6, <3>1
    <3>2. CASE i # s
      BY <1>0, <2>2, <3>2 DEF CountInv
    <3> QED BY <3>1, <3>2
  <2> QED BY <2>7 DEF CountInv
<1>4. ASSUME NEW r \in Readers, Reader(r) \/ CrashReader(r), ~Pin(r), ~Undo(r), ~Release(r)
      PROVE  UNCHANGED <<slot, pinned>>
  BY <1>4 DEF Reader, EntryOnly, NewConsumer, LookAtEntry, Claim, ClaimLost, ClaimFails, LoadLast, InitEntry,
        PublishId, Unregister, Leave, Acquire, Beat, Load, Verify, Keep, KeepUp, Advance,
        CrashReader
<1>5. CASE Publisher
  BY <1>0, <1>1, <1>5, PublisherFrame, PublisherWrites
<1>6. CASE Expire \/ CrashPublisher \/ UNCHANGED vars
  BY <1>1, <1>6 DEF Expire, CrashPublisher, vars
<1>7. ASSUME NEW r \in Readers, Reader(r) \/ CrashReader(r) PROVE CountInv'
  BY <1>1, <1>2, <1>3, <1>4, <1>7
<1> QED BY <1>5, <1>6, <1>7 DEF Next

----------------------------------------------------------------------------
(* Sequence numbers.                                                       *)

\* An entry's cursor stays set and at most lastSeq + 1 although a consumer that lost the
\* entry may still write to it; and an entry begins to count with its since at lastSeq.
LEMMA EntryEffect ==
    ASSUME TypeOK, SeqInv, NEW r \in Readers, Reader(r) \/ CrashReader(r), NEW e \in Entries
    PROVE  /\ entry[e].cursor # 0 => entry'[e].cursor # 0
           /\ entry'[e].cursor <= passed'[e]
           /\ passed[e] <= passed'[e] /\ passed'[e] <= lastSeq + 1
           /\ since[e] <= since'[e] /\ since'[e] <= lastSeq
           /\ Counts(e)' => Counts(e) \/ since'[e] = lastSeq
<1>0. /\ entry \in [Entries -> ConsumerEntry] /\ since \in [Entries -> 0 .. MaxSeq]
      /\ passed \in [Entries -> 0 .. MaxSeq + 1]
      /\ lastSeq \in 0 .. MaxSeq /\ entry[e].cursor \in 0 .. MaxSeq + 1
      /\ since[e] \in 0 .. MaxSeq /\ rd[r].want \in 0 .. MaxSeq
      /\ rd[r].start \in 0 .. MaxSeq + 1 /\ rd[r].start <= lastSeq + 1
      /\ rd[r].at = "init" => rd[r].start # 0
      /\ passed[e] \in 0 .. MaxSeq + 1 /\ entry[e].cursor <= passed[e] /\ passed[e] <= lastSeq + 1
      /\ since[e] <= lastSeq /\ rd[r].want <= lastSeq
      /\ lastSeq' = lastSeq
  BY FieldTypes, ReaderFrame DEF TypeOK, SeqInv
<1>1. CASE UNCHANGED <<entry, since, passed>>
  BY <1>0, <1>1, Sizes DEF Counts
<1>2. CASE Claim(r)
  BY <1>0, <1>2, Sizes DEF Claim, Counts, ConsumerEntry
<1>3. CASE InitEntry(r)
  <2>1. CASE e # rd[r].index
    <3>1. entry'[e] = entry[e] /\ since'[e] = since[e] /\ passed'[e] = passed[e]
      BY <1>0, <1>3, <2>1 DEF InitEntry, MovesTo
    <3> QED BY <1>0, <3>1, Sizes DEF Counts
  <2>2. CASE e = rd[r].index
    <3>1. /\ entry'[e].cursor = rd[r].start /\ entry'[e].id = entry[e].id
          /\ entry'[e].seen = entry[e].seen /\ since' = since
      BY <1>0, <1>3, <2>2 DEF InitEntry, ConsumerEntry
    <3>2. passed'[e] = IF rd[r].start > passed[e] THEN rd[r].start ELSE passed[e]
      BY <1>0, <1>3, <2>2 DEF InitEntry, MovesTo
    <3>3. rd[r].start # 0
      BY <1>0, <1>3 DEF InitEntry
    <3> QED BY <1>0, <3>1, <3>2, <3>3, Sizes DEF Counts
  <2> QED BY <2>1, <2>2
<1>4. CASE PublishId(r)
  BY <1>0, <1>4, Sizes DEF PublishId, Counts, ConsumerEntry
<1>5. CASE Leave(r)
  BY <1>0, <1>5, Sizes DEF Leave, Counts, ConsumerEntry, Free
<1>6. CASE Beat(r)
  BY <1>0, <1>6, Sizes DEF Beat, Beats, Counts, ConsumerEntry
<1>7. CASE Advance(r)
  <2> DEFINE next == rd[r].want + 1
  <2>1. CASE e # rd[r].index
    <3>1. entry'[e] = entry[e] /\ since'[e] = since[e] /\ passed'[e] = passed[e]
      BY <1>0, <1>7, <2>1 DEF Advance, MovesTo, Beats
    <3> QED BY <1>0, <3>1, Sizes DEF Counts
  <2>2. CASE e = rd[r].index
    <3>1. /\ entry'[e].cursor = IF next > entry[e].cursor THEN next ELSE entry[e].cursor
          /\ entry'[e].id = entry[e].id
      BY <1>0, <1>7, <2>2 DEF Advance, ConsumerEntry
    <3>2. since'[e] = IF entry[e].seen THEN since[e] ELSE lastSeq
      BY <1>0, <1>7, <2>2 DEF Advance, Beats
    <3>3. passed'[e] = IF next > passed[e] THEN next ELSE passed[e]
      BY <1>0, <1>7, <2>2 DEF Advance, MovesTo
    <3> QED BY <1>0, <3>1, <3>2, <3>3, Sizes DEF Counts
  <2> QED BY <2>1, <2>2
<1> QED BY <1>1, <1>2, <1>3, <1>4, <1>5, <1>6, <1>7 DEF Reader, EntryOnly, NewConsumer,
        LookAtEntry, ClaimLost, ClaimFails, LoadLast, Unregister, Acquire, Load, Pin, Verify,
        Undo, Release, Keep, KeepUp, CrashReader

\* Where each step of the publisher takes it.
LEMMA PubEffect ==
    ASSUME TypeOK
    PROVE  /\ BeginWrite => pub'.at = "hide" /\ pub'.seq = nextSeq + 1 /\ pub'.next = 0
           /\ HideSlot => /\ pub'.at = "min" /\ pub'.seq = pub.seq
                          /\ pub'.old = slot[SlotOf(pub.seq)].seq /\ pub'.next = pub.next
           /\ MinStart => /\ pub'.at = "scan" /\ pub'.seq = pub.seq /\ pub'.old = pub.old
                          /\ pub'.min = lastSeq + 1 /\ pub'.next = pub.next
           /\ ScanEntry => /\ pub'.seq = pub.seq /\ pub'.old = pub.old /\ pub'.min = pub.min
                           /\ Counts(pub.next) => pub'.at = "cursor" /\ pub'.next = pub.next
                           /\ ~Counts(pub.next) => pub'.at = "scan" /\ pub'.next = pub.next + 1
           /\ ScanCursor => /\ pub'.at = "scan" /\ pub'.seq = pub.seq /\ pub'.old = pub.old
                            /\ pub'.next = pub.next + 1
           /\ DropNeeded => pub'.at = "restore" /\ pub'.seq = pub.seq /\ pub'.old = pub.old
           /\ CheckRef => /\ pub'.seq = pub.seq /\ pub'.old = pub.old
                          /\ pub'.at = IF slot[SlotOf(pub.seq)].ref # 0 THEN "restore" ELSE "fill"
           /\ Fill => pub'.at = "commit" /\ pub'.seq = pub.seq /\ pub'.old = pub.old
           /\ CommitSeq => pub'.at = "last" /\ pub'.seq = pub.seq /\ pub'.old = pub.old
           /\ Restore \/ CancelWrite \/ CommitLast \/ CrashPublisher => pub'.at = "idle"
<1>0. pub \in WriteInProgress
  BY DEF TypeOK
<1>1. BeginWrite => pub'.at = "hide" /\ pub'.seq = nextSeq + 1 /\ pub'.next = 0
  BY DEF BeginWrite, NoWrite
<1>2. HideSlot => /\ pub'.at = "min" /\ pub'.seq = pub.seq
                  /\ pub'.old = slot[SlotOf(pub.seq)].seq /\ pub'.next = pub.next
  BY <1>0 DEF HideSlot, WriteInProgress
<1>3. MinStart => /\ pub'.at = "scan" /\ pub'.seq = pub.seq /\ pub'.old = pub.old
                  /\ pub'.min = lastSeq + 1 /\ pub'.next = pub.next
  BY <1>0 DEF MinStart, WriteInProgress
<1>4. ScanEntry => /\ pub'.seq = pub.seq /\ pub'.old = pub.old /\ pub'.min = pub.min
                   /\ Counts(pub.next) => pub'.at = "cursor" /\ pub'.next = pub.next
                   /\ ~Counts(pub.next) => pub'.at = "scan" /\ pub'.next = pub.next + 1
  BY <1>0 DEF ScanEntry, WriteInProgress
<1>5. ScanCursor => /\ pub'.at = "scan" /\ pub'.seq = pub.seq /\ pub'.old = pub.old
                    /\ pub'.next = pub.next + 1
  BY <1>0 DEF ScanCursor, WriteInProgress
<1>6. DropNeeded => pub'.at = "restore" /\ pub'.seq = pub.seq /\ pub'.old = pub.old
  BY <1>0 DEF DropNeeded, WriteInProgress
<1>7. CheckRef => /\ pub'.seq = pub.seq /\ pub'.old = pub.old
                  /\ pub'.at = IF slot[SlotOf(pub.seq)].ref # 0 THEN "restore" ELSE "fill"
  BY <1>0 DEF CheckRef, WriteInProgress
<1>8. Fill => pub'.at = "commit" /\ pub'.seq = pub.seq /\ pub'.old = pub.old
  BY <1>0 DEF Fill, WriteInProgress
<1>9. CommitSeq => pub'.at = "last" /\ pub'.seq = pub.seq /\ pub'.old = pub.old
  BY <1>0 DEF CommitSeq, WriteInProgress
<1>10. Restore \/ CancelWrite \/ CommitLast \/ CrashPublisher => pub'.at = "idle"
  BY DEF Restore, CancelWrite, CommitLast, CrashPublisher, NoWrite
<1> QED BY <1>1, <1>2, <1>3, <1>4, <1>5, <1>6, <1>7, <1>8, <1>9, <1>10

\* Sequence numbers stay in order.
LEMMA SeqStep ==
    ASSUME RingInv, [Next]_vars
    PROVE  SeqInv'
<1>0. TypeOK /\ IndexInv /\ SeqInv
  BY DEF RingInv
<1>1. CASE UNCHANGED <<nextSeq, lastSeq, rd, entry, since, passed>>
           /\ (pub'.at # "idle" => pub.at # "idle" /\ pub'.seq = pub.seq)
  BY <1>0, <1>1 DEF SeqInv
<1>2. CASE BeginWrite
  <2>1. /\ nextSeq' = nextSeq + 1 /\ nextSeq \in Nat /\ lastSeq \in Nat
        /\ UNCHANGED <<lastSeq, rd, entry, since, passed>> /\ pub'.seq = nextSeq + 1
    BY <1>0, <1>2, PubEffect DEF BeginWrite, PubOnly, TypeOK
  <2> QED BY <1>0, <2>1 DEF SeqInv
<1>3. CASE CommitLast
  <2>1. /\ nextSeq' = nextSeq /\ lastSeq' = nextSeq /\ nextSeq \in Nat /\ lastSeq \in Nat
        /\ UNCHANGED <<rd, entry, since, passed>> /\ pub'.at = "idle"
    BY <1>0, <1>3, PubEffect DEF CommitLast, PubOnly, TypeOK, SeqInv
  <2>2. /\ \A r \in Readers : rd[r].want \in Nat /\ rd[r].start \in Nat
        /\ \A e \in Entries : entry[e].cursor \in Nat /\ since[e] \in Nat /\ passed[e] \in Nat
    BY <1>0, FieldTypes, Sizes DEF TypeOK
  <2> QED BY <1>0, <2>1, <2>2 DEF SeqInv
<1>4. CASE Publisher /\ ~BeginWrite /\ ~CommitLast
  <2>1. UNCHANGED <<nextSeq, lastSeq, rd, entry, since, passed>> /\ pub.at # "idle"
    BY <1>4 DEF Publisher, PubOnly, HideSlot, MinStart, ScanEntry, ScanCursor,
         DropNeeded, CheckRef, Restore, Fill, CancelWrite, CommitSeq
  <2>2. pub'.at # "idle" => pub'.seq = pub.seq
    BY <1>0, <1>4, PubEffect DEF Publisher
  <2> QED BY <1>1, <2>1, <2>2
<1>5. CASE CrashPublisher
  BY <1>0, <1>1, <1>5, PubEffect DEF CrashPublisher
<1>6. ASSUME NEW r \in Readers, Reader(r) \/ CrashReader(r) PROVE SeqInv'
  <2>0. UNCHANGED <<nextSeq, lastSeq, pub>> /\ \A q \in Readers : q # r => rd'[q] = rd[q]
    BY <1>0, <1>6, ReaderFrame, ReaderMoves
  <2>1. \A e \in Entries : /\ entry'[e].cursor <= passed'[e] /\ passed'[e] <= lastSeq + 1
                           /\ since'[e] <= lastSeq
    BY <1>0, <1>6, EntryEffect
  <2>2. SUFFICES /\ rd'[r].want <= lastSeq /\ rd'[r].start <= lastSeq + 1
                 /\ rd'[r].at = "init" => rd'[r].start # 0
                 /\ rd'[r].at \in Wanting => rd'[r].want # 0
                 /\ rd'[r].at \in Registering /\ rd'[r].cont = "beat" => rd'[r].want # 0
    BY <1>0, <2>0, <2>1 DEF SeqInv
  <2>3. /\ rd[r].want <= lastSeq /\ lastSeq \in Nat /\ rd[r].want \in Nat
        /\ rd[r].start <= lastSeq + 1 /\ rd[r].start \in Nat
        /\ rd[r].at \in Wanting => rd[r].want # 0
        /\ rd[r].at \in Registering /\ rd[r].cont = "beat" => rd[r].want # 0
    BY <1>0, FieldTypes, Sizes DEF SeqInv, TypeOK
  <2>4. CASE Returns(r)
    BY <1>0, <2>3, <2>4, ReturnsEffect DEF Wanting, Registering
  <2>5. CASE \/ NewConsumer(r) \/ LookAtEntry(r) \/ Claim(r) \/ ClaimLost(r) \/ LoadLast(r)
             \/ InitEntry(r)
    <3>1. ~NewConsumer(r) => rd[r].at \in Registering
      BY <2>5 DEF LookAtEntry, Claim, ClaimLost, LoadLast, InitEntry, Registering
    <3> QED BY <1>0, <2>3, <2>5, <3>1, CallEffect DEF Wanting, Registering
  <2>6. CASE ClaimFails(r) \/ Leave(r) \/ CrashReader(r) \/ Acquire(r) \/ KeepUp(r) \/ Unregister(r)
    BY <1>0, <2>3, <2>6, CallEffect DEF Wanting, Registering
  <2>7. CASE PublishId(r)
    <3>1. /\ rd'[r].want = rd[r].want /\ rd'[r].cont = rd[r].cont
          /\ rd'[r].start = rd[r].start /\ rd[r].at \in Registering
          /\ rd'[r].at = rd[r].cont
      BY <1>0, <2>7, GoesEffect, FieldTypes DEF PublishId, ReadAt, Registering
    <3>2. rd[r].cont \in {"idle", "beat", "advance"}
      BY <1>0, FieldTypes
    <3> QED BY <2>3, <2>7, <3>1, <3>2 DEF Wanting, Registering
  <2>8. CASE Beat(r) \/ Load(r) \/ Pin(r) \/ Verify(r)
    <3>1. rd[r].at \in Wanting
      BY <2>8 DEF Beat, Load, Pin, Verify, Wanting
    <3>2. Returns(r) \/ \E at \in ReadAt \ Registering : Goes(r, at)
      BY <2>8 DEF Beat, Load, Pin, Verify, ReadAt, Registering
    <3> QED BY <1>0, <2>3, <2>4, <3>1, <3>2, GoesEffect DEF Registering
  <2>9. CASE Undo(r) \/ Release(r) \/ Keep(r) \/ Advance(r)
    <3>1. Returns(r) \/ Goes(r, "keep") \/ Goes(r, "advance")
      BY <2>9 DEF Undo, Release, Keep, Advance
    <3> QED BY <1>0, <2>3, <2>4, <3>1, GoesEffect DEF ReadAt, Wanting, Registering
  <2> QED BY <1>6, <2>5, <2>6, <2>7, <2>8, <2>9 DEF Reader
<1>7. CASE Expire
  <2>1. UNCHANGED <<nextSeq, lastSeq, pub, rd, since, passed>>
        /\ \A e \in Entries : entry'[e].cursor = entry[e].cursor
    BY <1>0, <1>7 DEF Expire, TypeOK, ConsumerEntry
  <2> QED BY <1>0, <2>1 DEF SeqInv
<1>8. CASE UNCHANGED vars
  BY <1>1, <1>8 DEF vars
<1> QED BY <1>2, <1>3, <1>4, <1>5, <1>6, <1>7, <1>8 DEF Next

----------------------------------------------------------------------------
(* The slots and the leases.                                               *)

\* What each step of the publisher leaves in its slot.
LEMMA SlotEffect ==
    ASSUME TypeOK, NEW s \in Slots, s = SlotOf(pub.seq)
    PROVE  /\ HideSlot => slot'[s].seq = 0 /\ slot'[s].data = slot[s].data
           /\ CheckRef => /\ slot'[s].seq = slot[s].seq
                          /\ slot'[s].data = IF slot[s].ref # 0 THEN slot[s].data ELSE 0
           /\ Restore => slot'[s].seq = pub.old /\ slot'[s].data = slot[s].data
           /\ Fill => slot'[s].seq = slot[s].seq /\ slot'[s].data = pub.seq
           /\ CommitSeq => slot'[s].seq = pub.seq /\ slot'[s].data = slot[s].data
<1>0. slot \in [Slots -> SlotMeta]
  BY DEF TypeOK
<1> QED BY <1>0 DEF HideSlot, CheckRef, Restore, Fill, CommitSeq, SlotMeta

\* A visible slot holds its publication.
LEMMA SlotStep ==
    ASSUME RingInv, [Next]_vars
    PROVE  SlotInv'
<1>0. TypeOK /\ SlotInv
  BY DEF RingInv
<1>s. PICK s \in Slots : s = SlotOf(pub.seq)
  BY <1>0, FieldTypes
<1>1. CASE \/ UNCHANGED <<slot, pub>>
           \/ UNCHANGED slot /\ pub'.at \in {"idle", "hide"}
  BY <1>0, <1>1 DEF SlotInv
<1>2. CASE Publisher
  <2>0. \A i \in Slots : i # s => slot'[i] = slot[i]
    BY <1>0, <1>s, <1>2, PublisherWrites
  <2>1. CASE HideSlot
    BY <1>0, <1>s, <2>0, <2>1, SlotEffect, PubEffect DEF SlotInv
  <2>2. CASE MinStart \/ ScanEntry \/ ScanCursor \/ DropNeeded
    <3>1. UNCHANGED slot /\ pub.at \in {"min", "scan", "cursor"}
      BY <2>2 DEF MinStart, ScanEntry, ScanCursor, DropNeeded
    <3>2. pub'.at \in {"scan", "cursor", "restore"} /\ pub'.seq = pub.seq /\ pub'.old = pub.old
      BY <1>0, <2>2, PubEffect
    <3> QED BY <1>0, <3>1, <3>2 DEF SlotInv
  <2>3. CASE CheckRef
    <3>1. pub.at = "scan"
      BY <2>3 DEF CheckRef
    <3> QED BY <1>0, <1>s, <2>0, <2>3, <3>1, SlotEffect, PubEffect DEF SlotInv
  <2>4. CASE Restore
    <3>1. pub.at = "restore"
      BY <2>4 DEF Restore
    <3> QED BY <1>0, <1>s, <2>0, <2>4, <3>1, SlotEffect, PubEffect DEF SlotInv
  <2>5. CASE Fill
    <3>1. pub.at = "fill"
      BY <2>5 DEF Fill
    <3> QED BY <1>0, <1>s, <2>0, <2>5, <3>1, SlotEffect, PubEffect DEF SlotInv
  <2>6. CASE CommitSeq
    <3>1. pub.at = "commit"
      BY <2>6 DEF CommitSeq
    <3> QED BY <1>0, <1>s, <2>0, <2>6, <3>1, SlotEffect, PubEffect DEF SlotInv
  <2>7. CASE BeginWrite \/ CancelWrite \/ CommitLast
    BY <1>0, <1>1, <2>7, PubEffect DEF BeginWrite, CancelWrite, CommitLast
  <2> QED BY <1>2, <2>1, <2>2, <2>3, <2>4, <2>5, <2>6, <2>7 DEF Publisher
<1>3. ASSUME NEW r \in Readers, Reader(r) \/ CrashReader(r) PROVE SlotInv'
  <2>1. pub' = pub /\ \A i \in Slots : slot'[i].seq = slot[i].seq /\ slot'[i].data = slot[i].data
    BY <1>0, <1>3, ReaderFrame, ReaderWrites
  <2> QED BY <1>0, <1>s, <2>1 DEF SlotInv
<1>4. CASE Expire \/ CrashPublisher \/ UNCHANGED vars
  BY <1>0, <1>1, <1>4, PubEffect DEF Expire, CrashPublisher, vars
<1> QED BY <1>2, <1>3, <1>4 DEF Next

\* No slot that is leased is written: either the pin comes before the publisher's look
\* at the reference count, or the second look comes after the slot was hidden.
LEMMA LeaseStep ==
    ASSUME RingInv, [Next]_vars
    PROVE  LeaseInv'
<1>0. TypeOK /\ IndexInv /\ PinInv /\ CountInv /\ SeqInv /\ SlotInv /\ LeaseInv
  BY DEF RingInv
<1>s. PICK s \in Slots : s = SlotOf(pub.seq)
  BY <1>0, FieldTypes
<1>w. \A r \in Readers : SlotOf(rd[r].want) \in Slots
  BY <1>0, FieldTypes
<1>1. CASE UNCHANGED <<slot, rd>> /\ (pub'.at \in {"fill", "commit"} => UNCHANGED pub)
  BY <1>0, <1>1 DEF LeaseInv
<1>2. CASE Publisher
  <2>0. UNCHANGED rd /\ \A i \in Slots : i # s => slot'[i] = slot[i]
    BY <1>0, <1>s, <1>2, PublisherWrites, PublisherFrame
  <2>1. CASE HideSlot \/ Restore \/ CommitSeq
    <3>1. slot'[s].data = slot[s].data /\ pub'.at \notin {"fill", "commit"}
      BY <1>0, <1>s, <2>1, SlotEffect, PubEffect
    <3> QED BY <1>0, <1>w, <2>0, <3>1 DEF LeaseInv
  <2>2. CASE CheckRef
    <3>1. CASE slot[s].ref # 0
      <4>1. slot'[s].data = slot[s].data /\ pub'.at \notin {"fill", "commit"}
        BY <1>0, <1>s, <2>2, <3>1, SlotEffect, PubEffect
      <4> QED BY <1>0, <1>w, <2>0, <4>1 DEF LeaseInv
    <3>2. CASE slot[s].ref = 0
      <4>1. \A r \in Readers : rd[r].at = "lease" => SlotOf(rd[r].want) # s
        BY <1>0, <3>2, PinCounted DEF Pinning
      <4>2. pub'.seq = pub.seq
        BY <1>0, <2>2, PubEffect
      <4> QED BY <1>0, <1>s, <1>w, <2>0, <4>1, <4>2 DEF LeaseInv
    <3> QED BY <3>1, <3>2
  <2>3. CASE Fill
    <3>1. \A r \in Readers : rd[r].at = "lease" => SlotOf(rd[r].want) # s
      BY <1>0, <1>s, <2>3 DEF Fill, LeaseInv
    <3>2. pub'.seq = pub.seq
      BY <1>0, <2>3, PubEffect
    <3> QED BY <1>0, <1>s, <1>w, <2>0, <3>1, <3>2 DEF LeaseInv
  <2>4. CASE BeginWrite \/ MinStart \/ ScanEntry \/ ScanCursor \/ DropNeeded \/ CancelWrite \/ CommitLast
    <3>1. UNCHANGED slot
      BY <2>4 DEF BeginWrite, MinStart, ScanEntry, ScanCursor, DropNeeded, CancelWrite, CommitLast
    <3>2. pub'.at \notin {"fill", "commit"}
      BY <1>0, <2>4, PubEffect
    <3> QED BY <1>1, <2>0, <3>1, <3>2
  <2> QED BY <1>2, <2>1, <2>2, <2>3, <2>4 DEF Publisher
<1>3. ASSUME NEW r \in Readers, Reader(r) \/ CrashReader(r) PROVE LeaseInv'
  <2>0. /\ UNCHANGED pub /\ \A q \in Readers : q # r => rd'[q] = rd[q]
        /\ \A i \in Slots : slot'[i].seq = slot[i].seq /\ slot'[i].data = slot[i].data
    BY <1>0, <1>3, ReaderFrame, ReaderMoves, ReaderWrites
  <2>1. CASE rd'[r].at # "lease"
    BY <1>0, <1>w, <2>0, <2>1 DEF LeaseInv
  <2>2. CASE rd'[r].at = "lease"
    <3>1. Verify(r) /\ Goes(r, "lease") /\ slot[SlotOf(rd[r].want)].seq = rd[r].want
      <4>1. ~(NewConsumer(r) \/ LookAtEntry(r) \/ Claim(r) \/ ClaimLost(r) \/ ClaimFails(r) \/ LoadLast(r)
              \/ InitEntry(r) \/ Leave(r) \/ CrashReader(r) \/ Acquire(r) \/ KeepUp(r)
              \/ Unregister(r))
        BY <1>0, <2>2, CallEffect
      <4>2. ~Returns(r) /\ \A at \in ReadAt : Goes(r, at) => at = "lease"
        BY <1>0, <2>2, GoesEffect, ReturnsEffect
      <4>3. rd[r].cont \in ReadAt \ {"lease"}
        BY <1>0, FieldTypes DEF ReadAt
      <4> QED BY <1>3, <4>1, <4>2, <4>3 DEF Reader, PublishId, Beat, Load, Pin,
                 Verify, Undo, Release, Keep, Advance, ReadAt
    <3>2. rd'[r].want = rd[r].want /\ rd[r].want # 0
      BY <1>0, <3>1, GoesEffect DEF Verify, ReadAt, SeqInv, Wanting
    <3>3. slot[SlotOf(rd[r].want)].data = rd[r].want
      BY <1>0, <1>w, <3>1, <3>2 DEF SlotInv
    <3>4. pub.at \in {"fill", "commit"} => SlotOf(rd[r].want) # SlotOf(pub.seq)
      BY <1>0, <3>1, <3>2 DEF SlotInv
    <3> QED BY <1>0, <1>w, <2>0, <3>2, <3>3, <3>4 DEF LeaseInv
  <2> QED BY <2>1, <2>2
<1>4. CASE Expire \/ CrashPublisher \/ UNCHANGED vars
  BY <1>0, <1>1, <1>4, PubEffect DEF Expire, CrashPublisher, vars
<1> QED BY <1>2, <1>3, <1>4 DEF Next

----------------------------------------------------------------------------
(* The cursors and the scan.                                               *)

\* A published entry has a cursor.
LEMMA CursorStep ==
    ASSUME RingInv, [Next]_vars
    PROVE  CursorInv'
<1>0. TypeOK /\ IndexInv /\ SeqInv /\ CursorInv
  BY DEF RingInv
<1>1. CASE UNCHANGED <<entry, rd>>
  BY <1>0, <1>1 DEF CursorInv
<1>2. CASE Expire
  <2>1. UNCHANGED rd /\ \A e \in Entries : /\ entry'[e].cursor = entry[e].cursor
                                           /\ entry'[e].id = entry[e].id
    BY <1>0, <1>2 DEF Expire, TypeOK, ConsumerEntry
  <2> QED BY <1>0, <2>1 DEF CursorInv
<1>3. ASSUME NEW r \in Readers, Reader(r) \/ CrashReader(r) PROVE CursorInv'
  <2>0. /\ \A q \in Readers : q # r => rd'[q] = rd[q]
        /\ \A e \in Entries : entry[e].cursor # 0 => entry'[e].cursor # 0
    <3>1. \A q \in Readers : q # r => rd'[q] = rd[q]
      BY <1>0, <1>3, ReaderMoves
    <3>2. \A e \in Entries : entry[e].cursor # 0 => entry'[e].cursor # 0
      BY <1>0, <1>3, EntryEffect
    <3> QED BY <3>1, <3>2
  <2>1. ASSUME NEW e \in Entries, entry'[e].id \notin {Free, Claiming}
        PROVE  entry'[e].cursor # 0
    <3>0. entry \in [Entries -> ConsumerEntry]
      BY <1>0 DEF TypeOK
    <3>1. \/ entry[e].id \notin {Free, Claiming}
          \/ PublishId(r) /\ rd[r].index = e
      <4>1. CASE UNCHANGED entry
        BY <2>1, <4>1
      <4>2. CASE Claim(r)
        BY <2>1, <3>0, <4>2 DEF Claim, ConsumerEntry
      <4>5. CASE Leave(r)
        BY <2>1, <3>0, <4>5 DEF Leave, ConsumerEntry
      <4>6. CASE InitEntry(r)
        BY <2>1, <3>0, <4>6 DEF InitEntry, ConsumerEntry
      <4>3. CASE PublishId(r)
        BY <2>1, <3>0, <4>3 DEF PublishId, ConsumerEntry
      <4>4. CASE Beat(r) \/ Advance(r)
        BY <2>1, <3>0, <4>4 DEF Beat, Advance, ConsumerEntry
      <4> QED BY <1>3, <4>1, <4>2, <4>3, <4>4, <4>5, <4>6 DEF Reader, NewConsumer,
            LookAtEntry, ClaimLost, ClaimFails, LoadLast, Unregister, Acquire, Load, Pin, Verify, Undo, Release, Keep, KeepUp, CrashReader
    <3>2. entry[e].cursor # 0
      BY <1>0, <3>1 DEF CursorInv, PublishId
    <3> QED BY <2>0, <3>2
  <2>2. ASSUME rd'[r].at = "id", rd'[r].index \in Entries
        PROVE  entry'[rd'[r].index].cursor # 0
    <3>1. InitEntry(r)
      <4>1. ~(NewConsumer(r) \/ LookAtEntry(r) \/ Claim(r) \/ ClaimLost(r) \/ ClaimFails(r) \/ LoadLast(r)
              \/ Leave(r) \/ CrashReader(r) \/ Acquire(r) \/ KeepUp(r) \/ Unregister(r))
        BY <1>0, <2>2, CallEffect
      <4>2. ~Returns(r) /\ \A at \in ReadAt : Goes(r, at) => at = "id"
        BY <1>0, <2>2, GoesEffect, ReturnsEffect
      <4>3. rd[r].cont \in ReadAt \ {"id"}
        BY <1>0, FieldTypes DEF ReadAt
      <4> QED BY <1>3, <4>1, <4>2, <4>3 DEF Reader, PublishId, Beat, Load, Pin,
                 Verify, Undo, Release, Keep, Advance, ReadAt
    <3>2. rd'[r].index = rd[r].index
      BY <1>0, <3>1, CallEffect
    <3>3. rd[r].start # 0
      BY <1>0, <3>1 DEF SeqInv, InitEntry
    <3>4. entry \in [Entries -> ConsumerEntry]
      BY <1>0 DEF TypeOK
    <3> QED BY <2>2, <3>1, <3>2, <3>3, <3>4 DEF InitEntry, ConsumerEntry
  <2> QED BY <1>0, <2>0, <2>1, <2>2 DEF CursorInv
<1>4. CASE Publisher \/ CrashPublisher \/ UNCHANGED vars
  BY <1>1, <1>4, PublisherFrame DEF CrashPublisher, vars
<1> QED BY <1>2, <1>3, <1>4 DEF Next

\* The scan keeps what it has established while consumers come, go and move.
LEMMA ScanStep ==
    ASSUME RingInv, [Next]_vars
    PROVE  ScanInv'
<1>0. TypeOK /\ SeqInv /\ CursorInv /\ ScanInv
  BY DEF RingInv
<1>n. /\ lastSeq \in Nat /\ pub.old \in Nat /\ pub.min \in Nat /\ pub.next \in Nat
      /\ \A e \in Entries : /\ entry[e].cursor \in Nat /\ since[e] \in Nat
                            /\ passed[e] \in Nat /\ e \in Nat
  BY <1>0, NumberTypes
<1>1. CASE pub'.at \in {"idle", "restore"}
  BY <1>1 DEF ScanInv, Scanning
<1>2. CASE DropNeeded \/ Restore \/ CancelWrite \/ CommitLast \/ CrashPublisher
  BY <1>0, <1>1, <1>2, PubEffect
<1>3. CASE BeginWrite \/ HideSlot
  BY <1>0, <1>3, PubEffect DEF ScanInv, Scanning, HideSlot
<1>4. CASE MinStart
  <2>1. /\ pub'.at = "scan" /\ pub'.next = 0 /\ pub'.min = lastSeq + 1
        /\ UNCHANGED <<lastSeq, entry, since, passed>>
    BY <1>0, <1>4, PubEffect DEF MinStart, PubOnly, ScanInv
  <2> QED BY <1>n, <2>1 DEF ScanInv, Scanning
<1>5. CASE ScanEntry
  <2>1. /\ UNCHANGED <<lastSeq, entry, since, passed>> /\ pub.at = "scan" /\ pub.next \in Entries
        /\ pub'.old = pub.old /\ pub'.min = pub.min
    BY <1>0, <1>5, PubEffect DEF ScanEntry, PubOnly
  <2>2. CASE Counts(pub.next)
    <3>1. pub'.at = "cursor" /\ pub'.next = pub.next
      BY <1>0, <1>5, <2>2, PubEffect
    <3> QED BY <1>0, <2>1, <3>1 DEF ScanInv, Scanning, Counts, Holds
  <2>3. CASE ~Counts(pub.next)
    <3>1. pub'.at = "scan" /\ pub'.next = pub.next + 1
      BY <1>0, <1>5, <2>3, PubEffect
    <3>2. \A e \in Entries : e < pub.next + 1 => e < pub.next \/ e = pub.next
      BY <1>n
    <3> QED BY <1>0, <2>1, <2>3, <3>1, <3>2 DEF ScanInv, Scanning, Counts, Holds
  <2> QED BY <2>2, <2>3
<1>6. CASE ScanCursor
  <2> DEFINE cur == entry[pub.next].cursor
             min == IF cur # 0 /\ cur < pub.min THEN cur ELSE pub.min
  <2>1. /\ UNCHANGED <<lastSeq, entry, since, passed>> /\ pub.at = "cursor" /\ pub.next \in Entries
        /\ pub'.at = "scan" /\ pub'.old = pub.old /\ pub'.next = pub.next + 1
    BY <1>0, <1>6, PubEffect DEF ScanCursor, PubOnly, ScanInv
  <2>2. pub'.min = min
    BY <1>0, <1>6 DEF ScanCursor, TypeOK, WriteInProgress
  <2>3. /\ min <= pub.min /\ min \in Nat
        /\ cur # 0 => min <= cur
    BY <1>n, <2>1
  <2>4. pub.min <= lastSeq + 1 /\ \A e \in Entries : e < pub.next /\ Counts(e) => Holds(e)
    BY <1>0, <2>1 DEF ScanInv, Scanning
  <2>5. min <= lastSeq + 1
    BY <1>n, <2>3, <2>4
  <2>6. ASSUME NEW e \in Entries, e < pub.next + 1, Counts(e)
        PROVE  pub.old <= since[e] \/ pub.old > lastSeq \/ min <= passed[e]
    <3>1. CASE e < pub.next
      BY <1>n, <2>3, <2>4, <2>6, <3>1 DEF Holds
    <3>2. CASE e = pub.next
      <4>1. cur # 0 /\ cur <= passed[e]
        BY <1>0, <2>6, <3>2 DEF CursorInv, Counts, SeqInv
      <4> QED BY <1>n, <2>1, <2>3, <3>2, <4>1
    <3> QED BY <1>n, <2>6, <3>1, <3>2
  <2> HIDE DEF min
  <2> QED BY <2>1, <2>2, <2>5, <2>6 DEF ScanInv, Scanning, Counts, Holds
<1>7. CASE CheckRef
  <2>1. UNCHANGED lastSeq /\ pub.at = "scan" /\ ~StillNeeded
        /\ pub'.old = pub.old /\ pub'.at \in {"restore", "fill"}
    BY <1>0, <1>7, PubEffect DEF CheckRef
  <2>2. pub.old <= lastSeq
    BY <1>0, <1>n, <2>1 DEF StillNeeded, ScanInv, Scanning
  <2> QED BY <2>1, <2>2 DEF ScanInv, Scanning
<1>8. CASE Fill \/ CommitSeq
  <2>1. UNCHANGED lastSeq /\ pub.at \in {"fill", "commit"}
        /\ pub'.old = pub.old /\ pub'.at \in {"commit", "last"}
    BY <1>0, <1>8, PubEffect DEF Fill, CommitSeq
  <2> QED BY <1>0, <2>1 DEF ScanInv, Scanning
<1>9. ASSUME NEW r \in Readers, Reader(r) \/ CrashReader(r) PROVE ScanInv'
  <2>0. UNCHANGED <<lastSeq, pub>>
    BY <1>9, ReaderFrame
  <2>1. ASSUME pub.at \in Scanning, NEW e \in Entries, e < pub.next, Counts(e)'
        PROVE  pub.old <= since'[e] \/ pub.old > lastSeq \/ pub.min <= passed'[e]
    <3>1. /\ passed[e] <= passed'[e] /\ since[e] <= since'[e]
          /\ Counts(e) \/ since'[e] = lastSeq
      BY <1>0, <1>9, <2>1, EntryEffect
    <3>2. since'[e] \in Nat /\ passed'[e] \in Nat
      BY <1>0, <1>9, ReaderEntries, Sizes
    <3>3. CASE since'[e] = lastSeq
      BY <1>n, <3>3
    <3>4. CASE Counts(e)
      <4>1. Holds(e)
        BY <1>0, <2>1, <3>4 DEF ScanInv
      <4> QED BY <1>n, <3>1, <3>2, <4>1 DEF Holds
    <3> QED BY <3>1, <3>3, <3>4
  <2> QED BY <1>0, <2>0, <2>1 DEF ScanInv, Holds
<1>10. CASE Expire
  <2>1. UNCHANGED <<lastSeq, pub, since, passed>>
        /\ \A e \in Entries : Counts(e)' => Counts(e)
    BY <1>0, <1>10 DEF Expire, TypeOK, ConsumerEntry, Counts
  <2> QED BY <1>0, <2>1 DEF ScanInv, Holds
<1>11. CASE UNCHANGED vars
  BY <1>0, <1>11 DEF vars, ScanInv, Scanning, Counts, Holds
<1> QED BY <1>2, <1>3, <1>4, <1>5, <1>6, <1>7, <1>8, <1>9, <1>10, <1>11 DEF Next, Publisher

\* What the scan has established holds until the publisher is done with the slot.
LEMMA NeededStep ==
    ASSUME RingInv, [Next]_vars
    PROVE  NeededKept'
<1>0. TypeOK /\ SeqInv /\ ScanInv /\ NeededKept
  BY DEF RingInv
<1>n. /\ lastSeq \in Nat /\ pub.old \in Nat /\ pub.min \in Nat /\ pub.next \in Nat
      /\ \A e \in Entries : /\ entry[e].cursor \in Nat /\ since[e] \in Nat
                            /\ passed[e] \in Nat /\ e \in Nat
  BY <1>0, NumberTypes
<1>1. CASE pub'.at \notin {"fill", "commit", "last"}
  BY <1>1 DEF NeededKept
<1>2. CASE \/ BeginWrite \/ HideSlot \/ MinStart \/ ScanEntry \/ ScanCursor \/ DropNeeded
           \/ Restore \/ CancelWrite \/ CommitLast \/ CrashPublisher
  <2>1. pub'.at \notin {"fill", "commit", "last"}
    BY <1>0, <1>2, PubEffect
  <2> QED BY <1>1, <2>1
<1>3. CASE CheckRef
  <2>1. /\ UNCHANGED <<lastSeq, entry, since, passed>> /\ pub.at = "scan" /\ ~StillNeeded
        /\ pub.next = MaxConsumers /\ pub'.old = pub.old
    BY <1>0, <1>3, PubEffect DEF CheckRef, PubOnly
  <2>2. ASSUME NEW e \in Entries, Counts(e)
        PROVE  pub.old <= since[e] \/ pub.old < passed[e]
    <3>1. e < pub.next
      BY <2>1, Sizes DEF Entries
    <3>2. Holds(e) /\ pub.min <= lastSeq + 1
      BY <1>0, <2>1, <2>2, <3>1 DEF ScanInv, Scanning
    <3> QED BY <1>n, <2>1, <3>2 DEF Holds, StillNeeded
  <2> QED BY <2>1, <2>2 DEF NeededKept, Counts
<1>4. CASE Fill \/ CommitSeq
  <2>1. /\ UNCHANGED <<entry, since, passed>> /\ pub.at \in {"fill", "commit"} /\ pub'.old = pub.old
    BY <1>0, <1>4, PubEffect DEF Fill, CommitSeq, PubOnly
  <2> QED BY <1>0, <2>1 DEF NeededKept, Counts
<1>5. ASSUME NEW r \in Readers, Reader(r) \/ CrashReader(r) PROVE NeededKept'
  <2>0. UNCHANGED <<lastSeq, pub>>
    BY <1>5, ReaderFrame
  <2>1. ASSUME pub.at \in {"fill", "commit", "last"}, NEW e \in Entries, Counts(e)'
        PROVE  pub.old <= since'[e] \/ pub.old < passed'[e]
    <3>1. /\ passed[e] <= passed'[e] /\ since[e] <= since'[e]
          /\ Counts(e) \/ since'[e] = lastSeq
      BY <1>0, <1>5, <2>1, EntryEffect
    <3>2. since'[e] \in Nat /\ passed'[e] \in Nat
      BY <1>0, <1>5, ReaderEntries, Sizes
    <3>3. CASE since'[e] = lastSeq
      BY <1>0, <2>1, <3>3 DEF ScanInv
    <3>4. CASE Counts(e)
      <4>1. pub.old <= since[e] \/ pub.old < passed[e]
        BY <1>0, <2>1, <3>4 DEF NeededKept
      <4> QED BY <1>n, <3>1, <3>2, <4>1
    <3> QED BY <3>1, <3>3, <3>4
  <2> QED BY <2>0, <2>1 DEF NeededKept
<1>6. CASE Expire
  <2>1. UNCHANGED <<pub, since, passed>>
        /\ \A e \in Entries : Counts(e)' => Counts(e)
    BY <1>0, <1>6 DEF Expire, TypeOK, ConsumerEntry, Counts
  <2> QED BY <1>0, <2>1 DEF NeededKept
<1>7. CASE UNCHANGED vars
  BY <1>0, <1>7 DEF vars, NeededKept, Counts
<1> QED BY <1>2, <1>3, <1>4, <1>5, <1>6, <1>7 DEF Next, Publisher

----------------------------------------------------------------------------
(* The theorems.                                                           *)

\* The zeroed mapping satisfies the invariant.
LEMMA RingInit == Init => RingInv
<1> SUFFICES ASSUME Init PROVE RingInv
  OBVIOUS
<1>1. /\ \A i \in Slots : slot[i] = [seq |-> 0, ref |-> 0, data |-> 0]
      /\ \A e \in Entries : entry[e] = [id |-> Free, cursor |-> 0, seen |-> FALSE] /\ since[e] = 0 /\ passed[e] = 0
      /\ \A r \in Readers : rd[r] = NoReader /\ pinned[r] = NoSlot
      /\ pub = NoWrite /\ nextSeq = 0 /\ lastSeq = 0
  BY DEF Init
<1>2. TypeOK
  <2>1. [seq |-> 0, ref |-> 0, data |-> 0] \in SlotMeta
    BY Sizes DEF SlotMeta
  <2>2. [id |-> Free, cursor |-> 0, seen |-> FALSE] \in ConsumerEntry
    BY Sizes DEF ConsumerEntry, Free
  <2>3. NoSlot \in 0 .. Capacity /\ 0 \in 0 .. MaxSeq /\ Claiming \in Nat
    BY Sizes DEF NoSlot, Claiming
  <2>4. slot \in [Slots -> SlotMeta] /\ entry \in [Entries -> ConsumerEntry]
    BY <2>1, <2>2 DEF Init
  <2>5. rd \in [Readers -> ReaderState] /\ pub \in WriteInProgress
    BY IdleTypes DEF Init
  <2>6. /\ pinned \in [Readers -> 0 .. Capacity] /\ since \in [Entries -> 0 .. MaxSeq]
        /\ passed \in [Entries -> 0 .. MaxSeq + 1]
    BY <2>3, Sizes DEF Init
  <2>7. ids \in Nat /\ expiries \in Nat /\ crashes \in Nat
    BY <2>3 DEF Init
  <2> QED BY <1>1, <2>3, <2>4, <2>5, <2>6, <2>7 DEF TypeOK
<1>3. IndexInv /\ PinInv
  BY <1>1 DEF IndexInv, PinInv, Pinning, NoReader
<1>4. CountInv
  <2>1. NoSlot \notin Slots
    BY Sizes DEF NoSlot, Slots
  <2>2. \A i \in Slots : PinnedTo(i) = {}
    BY <1>1, <2>1 DEF PinnedTo
  <2>3. IsFiniteSet({}) /\ Cardinality({}) = 0
    BY FS_EmptySet
  <2>4. \A i \in Slots : slot[i].ref = 0
    BY <1>1
  <2> QED BY <2>2, <2>3, <2>4 DEF CountInv
<1>5. SeqInv
  BY <1>1 DEF SeqInv, NoReader, NoWrite, Wanting, Registering
<1>6. SlotInv
  BY <1>1 DEF SlotInv, NoWrite
<1>7. LeaseInv
  BY <1>1 DEF LeaseInv, NoReader
<1>8. CursorInv
  BY <1>1 DEF CursorInv, NoReader
<1>9. ScanInv /\ NeededKept
  BY <1>1 DEF ScanInv, Scanning, NeededKept, NoWrite
<1> QED BY <1>2, <1>3, <1>4, <1>5, <1>6, <1>7, <1>8, <1>9 DEF RingInv

\* Every reachable state of the ring satisfies the inductive invariant.
LEMMA RingInvariant == Spec => []RingInv
<1>1. RingInv /\ [Next]_vars => RingInv'
  BY TypeStep, IndexStep, PinStep, CountStep, SeqStep, SlotStep, LeaseStep, CursorStep, ScanStep,
     NeededStep DEF RingInv
<1> QED BY <1>1, RingInit, PTL DEF Spec

\* The types of the mapping and of the processes, the reference counts included: no
\* sequence of acquire and release_ takes one below zero.
THEOREM TypeCorrect == Spec => []TypeOK
<1>1. RingInv => TypeOK
  BY DEF RingInv
<1> QED BY <1>1, RingInvariant, PTL

\* The reference count of every slot is the number of processes counted into it, for any
\* number of readers (acquire, ReadLease::release_), whichever of them die.
THEOREM RefCountsExact == Spec => []RefCountExact
<1>1. RingInv => RefCountExact
  BY DEF RingInv, CountInv, RefCountExact, PinnedTo
<1> QED BY <1>1, RingInvariant, PTL

\* A leased slot holds the publication that was leased until the lease is released: the
\* pin and the second look of acquire exclude the publisher's look at refCount.
THEOREM LeasesStable == Spec => []LeaseStable
<1>1. RingInv => LeaseStable
  BY DEF RingInv, LeaseInv, LeaseStable
<1> QED BY <1>1, RingInvariant, PTL

\* beginWrite never takes a slot whose content an entry that counts has still to read,
\* although minConsumerCursor_ reads the entries one by one.
THEOREM NeededSlotsKept == Spec => []NeededKept
<1>1. RingInv => NeededKept
  BY DEF RingInv
<1> QED BY <1>1, RingInvariant, PTL
=============================================================================
