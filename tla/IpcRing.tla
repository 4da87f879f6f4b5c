------------------------------- MODULE IpcRing -------------------------------
(***************************************************************************)
(* sw::ipc::NoCopyRingBuffer (src/core/remote/SwIpcNoCopyRingBuffer.h): a  *)
(* ring of payload slots in shared memory, written in place by a publisher *)
(* and read in place by any number of processes.  There is no lock: every  *)
(* action below is one atomic access to the mapping, or several that no    *)
(* other process can tell from one.                                        *)
(*                                                                         *)
(* A payload is the sequence number of its publication.  Time is reduced   *)
(* to what is compared with consumerTtlMs: a heartbeat is fresh until it   *)
(* expires.  There is one publisher, as in every use of the class; it may  *)
(* die and be restarted on the same mapping.                               *)
(***************************************************************************)
EXTENDS Naturals, FiniteSets

CONSTANTS
    Consumers,      \* processes that read through a registered Consumer
    Observers,      \* processes that read with acquire() of the ring itself
    MaxConsumers,   \* entries of the consumer table
    Capacity,       \* number of slots
    MaxSeq,         \* bound: writes begun
    MaxIds,         \* bound: registrations
    MaxExpiries,    \* bound: heartbeats that expire
    MaxCrashes      \* bound: processes that die

Readers == Consumers \cup Observers

ASSUME RingAssumption == Capacity \in Nat \ {0} /\ MaxConsumers \in Nat \ {0}
ASSUME BoundsAssumption == {MaxSeq, MaxIds, MaxExpiries, MaxCrashes} \subseteq Nat

Slots == 0 .. Capacity - 1
SlotOf(seq) == seq % Capacity
Entries == 0 .. MaxConsumers - 1
NoEntry == MaxConsumers     \* kInvalidIndex
Free == 0                   \* ConsumerEntry.id of a free entry
Claiming == 1               \* kClaimingConsumerId

VARIABLES
    nextSeq, lastSeq,   \* Header.nextSeq, Header.lastSeq
    slot,               \* SlotMeta and payload of each slot
    entry,              \* Header.consumers
    pub,                \* the publisher: where it is in beginWrite .. commitWrite_
    rd,                 \* the readers: Consumer, ReadLease and the call in progress
    ids,                \* the last consumer id given out
    expiries, crashes,  \* counters of the bounds
    pinned,             \* history: the slot each reader has counted itself into
    since,              \* history: lastSeq when an entry last began to count
    passed              \* history: the furthest that the cursor of an entry has been

header == <<nextSeq, lastSeq>>
bounds == <<expiries, crashes>>
vars == <<nextSeq, lastSeq, slot, entry, pub, rd, ids, expiries, crashes, pinned, since, passed>>

PubAt == {"idle", "hide", "min", "scan", "cursor", "check", "restore", "fill",
          "commit", "last"}
ReadAt == {"idle", "claim", "cas", "last", "init", "id", "beat", "load", "pin", "verify", "undo",
           "lease", "keep", "advance", "leave", "dead"}

NoSlot == Capacity
NoWrite == [at |-> "idle", seq |-> 0, old |-> 0, min |-> 0, next |-> 0]
NoReader == [at |-> "idle", index |-> NoEntry, id |-> Free, start |-> 0, want |-> 0,
             cont |-> "idle"]

(***************************************************************************)
(* initCreate_: a zeroed header and zeroed slots.                          *)
(***************************************************************************)
Init ==
    /\ nextSeq = 0 /\ lastSeq = 0
    /\ slot = [i \in Slots |-> [seq |-> 0, ref |-> 0, data |-> 0]]
    /\ entry = [e \in Entries |-> [id |-> Free, cursor |-> 0, seen |-> FALSE]]
    /\ pub = NoWrite
    /\ rd = [r \in Readers |-> NoReader]
    /\ ids = Claiming
    /\ expiries = 0 /\ crashes = 0
    /\ pinned = [r \in Readers |-> NoSlot]
    /\ since = [e \in Entries |-> 0] /\ passed = [e \in Entries |-> 0]

-----------------------------------------------------------------------------
(***************************************************************************)
(* The publisher: beginWrite, the caller filling the lease, commitWrite_.  *)
(***************************************************************************)
PubOnly == UNCHANGED <<entry, rd, ids, bounds, pinned, since, passed>>

\* atomic_fetch_add(nextSeq, 1)
BeginWrite ==
    /\ pub.at = "idle" /\ nextSeq < MaxSeq
    /\ nextSeq' = nextSeq + 1
    /\ pub' = [NoWrite EXCEPT !.at = "hide", !.seq = nextSeq + 1]
    /\ UNCHANGED <<lastSeq, slot>> /\ PubOnly

\* oldSeq = atomic_exchange(slot->seq, 0): no reader can pin the slot from here on
HideSlot ==
    /\ pub.at = "hide"
    /\ pub' = [pub EXCEPT !.at = "min", !.old = slot[SlotOf(pub.seq)].seq]
    /\ slot' = [slot EXCEPT ![SlotOf(pub.seq)].seq = 0]
    /\ UNCHANGED header /\ PubOnly

\* minConsumerCursor_ starts from lastSeq + 1
MinStart ==
    /\ pub.at = "min"
    /\ pub' = [pub EXCEPT !.at = "scan", !.min = lastSeq + 1]
    /\ UNCHANGED <<header, slot>> /\ PubOnly

\* free, half-registered and expired entries do not count
Counts(e) == entry[e].id \notin {Free, Claiming} /\ entry[e].seen

ScanEntry ==
    /\ pub.at = "scan" /\ pub.next \in Entries
    /\ pub' = IF Counts(pub.next) THEN [pub EXCEPT !.at = "cursor"]
                                  ELSE [pub EXCEPT !.next = @ + 1]
    /\ UNCHANGED <<header, slot>> /\ PubOnly

ScanCursor ==
    /\ pub.at = "cursor"
    /\ LET cur == entry[pub.next].cursor
       IN  pub' = [pub EXCEPT !.at = "scan", !.next = @ + 1,
                              !.min = IF cur # 0 /\ cur < @ THEN cur ELSE @]
    /\ UNCHANGED <<header, slot>> /\ PubOnly

\* some consumer has not read what the slot held
StillNeededAbove == pub.old # 0 /\ pub.old > pub.min
StillNeeded == pub.old # 0 /\ pub.old >= pub.min

DropNeeded ==
    /\ pub.at = "scan" /\ pub.next = MaxConsumers
    /\ StillNeeded
    /\ pub' = [pub EXCEPT !.at = "restore", !.min = 0, !.next = 0]
    /\ UNCHANGED <<header, slot>> /\ PubOnly

\* a slot that somebody reads is not written; otherwise it is cleared for its writer
CheckRef ==
    /\ pub.at = "scan" /\ pub.next = MaxConsumers
    /\ ~StillNeeded
    /\ IF slot[SlotOf(pub.seq)].ref # 0
       THEN pub' = [pub EXCEPT !.at = "restore", !.min = 0, !.next = 0] /\ UNCHANGED slot
       ELSE /\ pub' = [pub EXCEPT !.at = "fill", !.min = 0, !.next = 0]
            /\ slot' = [slot EXCEPT ![SlotOf(pub.seq)].data = 0]
    /\ UNCHANGED header /\ PubOnly

Restore ==
    /\ pub.at = "restore"
    /\ slot' = [slot EXCEPT ![SlotOf(pub.seq)].seq = pub.old]
    /\ pub' = NoWrite
    /\ UNCHANGED header /\ PubOnly

\* the caller writes payload and metadata in place
Fill ==
    /\ pub.at = "fill"
    /\ slot' = [slot EXCEPT ![SlotOf(pub.seq)].data = pub.seq]
    /\ pub' = [pub EXCEPT !.at = "commit"]
    /\ UNCHANGED header /\ PubOnly

\* cancel(), a destroyed lease, or commit() of 0 or too many bytes: the slot stays hidden
CancelWrite ==
    /\ pub.at \in {"fill", "commit"}
    /\ pub' = NoWrite
    /\ UNCHANGED <<header, slot>> /\ PubOnly

CommitSeq ==
    /\ pub.at = "commit"
    /\ slot' = [slot EXCEPT ![SlotOf(pub.seq)].seq = pub.seq]
    /\ pub' = [pub EXCEPT !.at = "last"]
    /\ UNCHANGED header /\ PubOnly

CommitLast ==
    /\ pub.at = "last"
    /\ lastSeq' = pub.seq
    /\ pub' = NoWrite
    /\ UNCHANGED <<nextSeq, slot>> /\ PubOnly

Publisher ==
    \/ BeginWrite \/ HideSlot \/ MinStart \/ ScanEntry \/ ScanCursor \/ DropNeeded
    \/ CheckRef \/ Restore \/ Fill \/ CancelWrite \/ CommitSeq \/ CommitLast

-----------------------------------------------------------------------------
(***************************************************************************)
(* Registration: consumer(), ensureRegistered_, registerInMapping_.        *)
(***************************************************************************)
Goes(r, at) == rd' = [rd EXCEPT ![r].at = at]
Returns(r) == rd' = [rd EXCEPT ![r] = [@ EXCEPT !.at = "idle", !.want = 0, !.cont = "idle"]]
EntryOnly == UNCHANGED <<header, slot, pub, bounds, pinned>>

Registered(r) == rd[r].index \in Entries /\ entry[rd[r].index].id = rd[r].id

\* consumer(): a new Consumer object
NewConsumer(r) ==
    /\ r \in Consumers /\ rd[r].at = "idle" /\ rd[r].index = NoEntry
    /\ rd' = [rd EXCEPT ![r].at = "claim", ![r].index = 0, ![r].cont = "idle"]
    /\ UNCHANGED <<entry, ids, since, passed>> /\ EntryOnly

Claimable(e) == entry[e].id = Free \/ (entry[e].id # Claiming /\ ~entry[e].seen)

\* the loop over the entries: a look at the id and the heartbeat of the next one
LookAtEntry(r) ==
    /\ rd[r].at = "claim" /\ rd[r].index \in Entries
    /\ rd' = IF Claimable(rd[r].index)
             THEN [rd EXCEPT ![r].at = "cas", ![r].id = entry[rd[r].index].id]
             ELSE [rd EXCEPT ![r].index = @ + 1]
    /\ UNCHANGED <<entry, ids, since, passed>> /\ EntryOnly

\* the compare-and-swap of the id takes the entry
Claim(r) ==
    /\ rd[r].at = "cas" /\ entry[rd[r].index].id = rd[r].id /\ ids < MaxIds + Claiming
    /\ entry' = [entry EXCEPT ![rd[r].index].id = Claiming]
    /\ ids' = ids + 1
    /\ rd' = [rd EXCEPT ![r].at = "last", ![r].id = ids + 1]
    /\ UNCHANGED <<since, passed>> /\ EntryOnly

\* the compare-and-swap fails: somebody else took the entry
ClaimLost(r) ==
    /\ rd[r].at = "cas" /\ entry[rd[r].index].id # rd[r].id
    /\ rd' = [rd EXCEPT ![r].at = "claim", ![r].index = @ + 1]
    /\ UNCHANGED <<entry, ids, since, passed>> /\ EntryOnly

\* no entry: the Consumer is invalid, and stays so
ClaimFails(r) ==
    /\ rd[r].at = "claim" /\ rd[r].index = MaxConsumers
    /\ rd' = [rd EXCEPT ![r] = NoReader]
    /\ UNCHANGED <<entry, ids, since, passed>> /\ EntryOnly

LoadLastPastNext(r) ==
    /\ rd[r].at = "last"
    /\ rd' = [rd EXCEPT ![r].at = "init", ![r].start = lastSeq + 2]
    /\ UNCHANGED <<entry, ids, since, passed>> /\ EntryOnly

\* the cursor is lastSeq + 1, read in one access and stored in the next
LoadLast(r) ==
    /\ rd[r].at = "last"
    /\ rd' = [rd EXCEPT ![r].at = "init", ![r].start = lastSeq + 1]
    /\ UNCHANGED <<entry, ids, since, passed>> /\ EntryOnly

\* the history of a cursor
MovesTo(e, cursor) == passed' = [passed EXCEPT ![e] = IF cursor > @ THEN cursor ELSE @]

InitEntry(r) ==
    /\ rd[r].at = "init"
    /\ entry' = [entry EXCEPT ![rd[r].index].cursor = rd[r].start]
    /\ MovesTo(rd[r].index, rd[r].start)
    /\ rd' = [rd EXCEPT ![r].at = "id", ![r].start = 0]
    /\ UNCHANGED <<ids, since>> /\ EntryOnly

\* the heartbeat and, last, the id
PublishId(r) ==
    /\ rd[r].at = "id"
    /\ entry' = [entry EXCEPT ![rd[r].index].seen = TRUE, ![rd[r].index].id = rd[r].id]
    /\ since' = [since EXCEPT ![rd[r].index] = lastSeq]
    /\ Goes(r, rd[r].cont)
    /\ UNCHANGED <<ids, passed>> /\ EntryOnly

\* unregister(): compares the id, then frees the entry in a second access
Unregister(r) ==
    /\ rd[r].at = "idle" /\ rd[r].index # NoEntry
    /\ IF Registered(r) THEN Goes(r, "leave")
                        ELSE rd' = [rd EXCEPT ![r] = NoReader]
    /\ UNCHANGED <<entry, ids, since, passed>> /\ EntryOnly

Leave(r) ==
    /\ rd[r].at = "leave"
    /\ entry' = [entry EXCEPT ![rd[r].index].id = Free]
    /\ rd' = [rd EXCEPT ![r] = NoReader]
    /\ UNCHANGED <<ids, since, passed>> /\ EntryOnly

-----------------------------------------------------------------------------
(***************************************************************************)
(* Reading: acquire, ReadLease::release_, keepUp, keepUpInMapping_.        *)
(***************************************************************************)
ReadOnly == UNCHANGED <<header, pub, ids, bounds>>

\* acquire(seq) and readLatest(): a consumer makes sure that it is registered
Acquire(r) ==
    /\ rd[r].at = "idle" /\ (r \in Consumers => rd[r].index # NoEntry)
    /\ \E seq \in 1 .. lastSeq :
          rd' = IF r \in Observers
                THEN [rd EXCEPT ![r].want = seq, ![r].at = "load"]
                ELSE IF Registered(r)
                THEN [rd EXCEPT ![r].want = seq, ![r].at = "beat"]
                ELSE [rd EXCEPT ![r].want = seq, ![r].at = "claim", ![r].index = 0,
                                ![r].cont = "beat"]
    /\ UNCHANGED <<slot, entry, pinned, since, passed>> /\ ReadOnly

\* a heartbeat; an entry that had expired begins to count again
Beats(e) ==
    since' = [since EXCEPT ![e] = IF entry[e].seen THEN @ ELSE lastSeq]

Beat(r) ==
    /\ rd[r].at = "beat"
    /\ entry' = [entry EXCEPT ![rd[r].index].seen = TRUE]
    /\ Beats(rd[r].index)
    /\ Goes(r, "load")
    /\ UNCHANGED <<slot, pinned, passed>> /\ ReadOnly

Load(r) ==
    /\ rd[r].at = "load"
    /\ IF slot[SlotOf(rd[r].want)].seq = rd[r].want THEN Goes(r, "pin") ELSE Returns(r)
    /\ UNCHANGED <<slot, entry, pinned, since, passed>> /\ ReadOnly

Pin(r) ==
    /\ rd[r].at = "pin"
    /\ slot' = [slot EXCEPT ![SlotOf(rd[r].want)].ref = @ + 1]
    /\ pinned' = [pinned EXCEPT ![r] = SlotOf(rd[r].want)]
    /\ Goes(r, "verify")
    /\ UNCHANGED <<entry, since, passed>> /\ ReadOnly

VerifyWithoutLook(r) ==
    /\ rd[r].at = "verify"
    /\ Goes(r, "lease")
    /\ UNCHANGED <<slot, entry, pinned, since, passed>> /\ ReadOnly

\* the second look at slot->seq
Verify(r) ==
    /\ rd[r].at = "verify"
    /\ Goes(r, IF slot[SlotOf(rd[r].want)].seq = rd[r].want THEN "lease" ELSE "undo")
    /\ UNCHANGED <<slot, entry, pinned, since, passed>> /\ ReadOnly

Unpin(r) ==
    /\ slot' = [slot EXCEPT ![SlotOf(rd[r].want)].ref = @ - 1]
    /\ pinned' = [pinned EXCEPT ![r] = NoSlot]

UndoKeepingPin(r) ==
    /\ rd[r].at = "undo"
    /\ pinned' = [pinned EXCEPT ![r] = NoSlot] /\ Returns(r)
    /\ UNCHANGED <<slot, entry, since, passed>> /\ ReadOnly

Undo(r) ==
    /\ rd[r].at = "undo"
    /\ Unpin(r) /\ Returns(r)
    /\ UNCHANGED <<entry, since, passed>> /\ ReadOnly

Release(r) ==
    /\ rd[r].at = "lease"
    /\ Unpin(r)
    /\ IF r \in Consumers THEN Goes(r, "keep") ELSE Returns(r)
    /\ UNCHANGED <<entry, since, passed>> /\ ReadOnly

\* keepUpInMapping_ compares the id before it moves the cursor
Keep(r) ==
    /\ rd[r].at = "keep"
    /\ IF Registered(r) THEN Goes(r, "advance") ELSE Returns(r)
    /\ UNCHANGED <<slot, entry, pinned, since, passed>> /\ ReadOnly

\* keepUp(nextSeq): the consumer skips what it does not need
KeepUp(r) ==
    /\ r \in Consumers /\ rd[r].at = "idle" /\ rd[r].index # NoEntry
    /\ \E next \in 1 .. lastSeq + 1 :
          rd' = IF Registered(r)
                THEN [rd EXCEPT ![r].want = next - 1, ![r].at = "advance"]
                ELSE [rd EXCEPT ![r].want = next - 1, ![r].at = "claim", ![r].index = 0,
                                ![r].cont = "advance"]
    /\ UNCHANGED <<slot, entry, pinned, since, passed>> /\ ReadOnly

\* the loop that raises the cursor, and the heartbeat that follows it
Advance(r) ==
    /\ rd[r].at = "advance"
    /\ LET e == rd[r].index
           next == rd[r].want + 1
       IN  /\ entry' = [entry EXCEPT ![e].cursor = IF next > @ THEN next ELSE @,
                                     ![e].seen = TRUE]
           /\ MovesTo(e, next) /\ Beats(e)
    /\ Returns(r)
    /\ UNCHANGED <<slot, pinned>> /\ ReadOnly

-----------------------------------------------------------------------------
(***************************************************************************)
(* Time and failures.  A dead reader leaves its pin and its entry behind;  *)
(* a publisher that is restarted finds the mapping as it was.              *)
(***************************************************************************)
Expire ==
    /\ expiries < MaxExpiries
    /\ \E e \in Entries : Counts(e) /\ entry' = [entry EXCEPT ![e].seen = FALSE]
    /\ expiries' = expiries + 1
    /\ UNCHANGED <<header, slot, pub, rd, ids, crashes, pinned, since, passed>>

CrashReader(r) ==
    /\ crashes < MaxCrashes /\ rd[r].at # "dead"
    /\ rd' = [rd EXCEPT ![r] = [NoReader EXCEPT !.at = "dead"]]
    /\ crashes' = crashes + 1
    /\ UNCHANGED <<header, slot, entry, pub, ids, expiries, pinned, since, passed>>

CrashPublisher ==
    /\ crashes < MaxCrashes /\ pub.at # "idle"
    /\ pub' = NoWrite
    /\ crashes' = crashes + 1
    /\ UNCHANGED <<header, slot, entry, rd, ids, expiries, pinned, since, passed>>

Reader(r) ==
    \/ NewConsumer(r) \/ LookAtEntry(r) \/ Claim(r) \/ ClaimLost(r) \/ ClaimFails(r)
    \/ LoadLast(r) \/ InitEntry(r) \/ PublishId(r) \/ Unregister(r) \/ Leave(r)
    \/ Acquire(r) \/ Beat(r) \/ Load(r) \/ Pin(r) \/ Verify(r) \/ Undo(r)
    \/ Release(r) \/ Keep(r) \/ KeepUp(r) \/ Advance(r)

Next ==
    \/ Publisher
    \/ \E r \in Readers : Reader(r) \/ CrashReader(r)
    \/ Expire \/ CrashPublisher

Spec == Init /\ [][Next]_vars

-----------------------------------------------------------------------------
SlotMeta == [seq : 0 .. MaxSeq, ref : Nat, data : 0 .. MaxSeq]
ConsumerEntry == [id : Nat, cursor : 0 .. MaxSeq + 1, seen : BOOLEAN]
WriteInProgress == [at : PubAt, seq : 0 .. MaxSeq, old : 0 .. MaxSeq,
                    min : 0 .. MaxSeq + 1, next : 0 .. MaxConsumers]
ReaderState == [at : ReadAt, index : 0 .. MaxConsumers, id : Nat,
                start : 0 .. MaxSeq + 1, want : 0 .. MaxSeq, cont : {"idle", "beat", "advance"}]

TypeOK ==
    /\ nextSeq \in 0 .. MaxSeq /\ lastSeq \in 0 .. MaxSeq
    /\ slot \in [Slots -> SlotMeta]
    /\ entry \in [Entries -> ConsumerEntry]
    /\ pub \in WriteInProgress
    /\ rd \in [Readers -> ReaderState]
    /\ ids \in Nat /\ expiries \in Nat /\ crashes \in Nat
    /\ pinned \in [Readers -> 0 .. Capacity]
    /\ since \in [Entries -> 0 .. MaxSeq] /\ passed \in [Entries -> 0 .. MaxSeq + 1]

\* While a process holds a lease of a publication, the slot holds the payload of
\* exactly that publication: the publisher never writes into what is being read.  The
\* reader's pin and second look (acquire) race with the publisher's hiding of the slot
\* and its look at refCount (beginWrite).
LeaseStable ==
    \A r \in Readers : rd[r].at = "lease" => slot[SlotOf(rd[r].want)].data = rd[r].want

\* The reference count of a slot is the number of processes that have counted themselves
\* in and not out, the dead ones included: over all the ways out of acquire and of
\* release_ no decrement is lost or done twice.
RefCountExact ==
    \A i \in Slots : slot[i].ref = Cardinality({r \in Readers : pinned[r] = i})

\* "Publisher never overwrites data still needed by any active consumer"
\* (SwIpcNoCopyRingBuffer.h:383): the publisher does not take a slot whose content was
\* published while an entry counted and which the cursor of that entry has never passed,
\* although it reads the table entry by entry while consumers come, go and move.
NeededKept ==
    pub.at \in {"fill", "commit", "last"} =>
        \A e \in Entries :
            Counts(e) => pub.old <= since[e] \/ pub.old < passed[e]
==============================================================================
