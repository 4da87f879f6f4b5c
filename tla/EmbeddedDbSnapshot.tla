------------------------- MODULE EmbeddedDbSnapshot -------------------------
(***************************************************************************)
(* Snapshots of a SwEmbeddedDb opened for writing: createSnapshot() with   *)
(* the read cache of the writer (a base state, the overlay of the records  *)
(* written since, generations), and what get() and a scan of a snapshot    *)
(* answer later, while EmbeddedDbTables goes on underneath.                *)
(*                                                                         *)
(* A snapshot owns copies of the memtables and shares the handles of the   *)
(* tables, so deleting their files does not touch it; blob files are       *)
(* opened when they are read.  Secondary indexes are left out.             *)
(***************************************************************************)
EXTENDS EmbeddedDbTables

CONSTANT MaxSnapshots       \* bound: calls of createSnapshot()

ASSUME SnapshotBoundsAssumption == MaxSnapshots \in Nat

VARIABLES
    generation,     \* applyGeneration_
    cache,          \* the read cache of the writer
    snapshots       \* the snapshots taken, oldest first

snapVars == <<generation, cache, snapshots>>

----------------------------------------------------------------------------
(* SnapshotState_.                                                         *)

\* The first record of k in the memtables, newest memtable first.
MemLookup(k) ==
    LET holding == {i \in DOMAIN immutables : immutables[i].recs[k].seq # 0}
    IN  IF mutable.recs[k].seq # 0 THEN mutable.recs[k]
        ELSE IF holding # {} THEN immutables[Max(holding)].recs[k] ELSE NoRecord

\* buildReadModelLocked: the newest record of every key by sequence, without the
\* erased keys.
ReadModel ==
    LET newest == NewestRecs({mutable.recs} \cup {immutables[i].recs : i \in DOMAIN immutables}
                             \cup {t.recs : t \in manifest.tables})
    IN  [k \in Keys |-> IF newest[k].del THEN NoRecord ELSE newest[k]]

\* A self-contained state: memtables, table handles and read model.
Capture == [mems |-> [k \in Keys |-> MemLookup(k)], tables |-> manifest.tables,
            readModel |-> ReadModel]

\* Has map m a record of k?
Holds(m, k) == m[k].seq # 0

\* Faulty variant: the tables are searched from the oldest.
FirstLive_Oldest(tables) == CHOOSE t \in tables : \A u \in tables \ {t} : NewerTable(u, t)

FirstLive(tables) == CHOOSE t \in tables : \A u \in tables \ {t} : NewerTable(t, u)

\* lookupPrimary: overlay, memtables, then the tables.  A table whose record of k is
\* a tombstone, or has lost its blob file, counts as one without k.
Get(s, k) ==
    LET found == {t \in s.tables : Answer(t.recs[k]) # 0}
    IN  IF Holds(s.overlay, k) THEN Answer(s.overlay[k])
        ELSE IF Holds(s.mems, k) THEN Answer(s.mems[k])
        ELSE IF found = {} THEN 0 ELSE FirstLive(found).recs[k].seq

\* OverlayMergingPrimaryIteratorState_ and ReadModelPrimaryIteratorState_: the row of
\* k in a scan.
Row(s, k) == IF Holds(s.overlay, k) THEN s.overlay[k] ELSE s.readModel[k]

----------------------------------------------------------------------------
(* The read cache of the writer.                                           *)

NoState == [mems |-> NoRecords, tables |-> {}, readModel |-> NoRecords]

\* invalidateWriterReadCacheLocked_.  base is writerSnapshotState_ (when valid) and gen
\* writerSnapshotGeneration_; shared and sharedGen are writerOverlaySnapshot_ and its
\* generation (0: none).
NoCache == [valid |-> FALSE, base |-> NoState, gen |-> 0, overlay |-> NoRecords,
            shared |-> NoRecords, sharedGen |-> 0]

\* Faulty variant: tombstones are not mirrored.
Mirrored_PutsOnly(op) ==
    IF ~cache.valid \/ op.kind = "erase" \/ Lookup(op.key).seq > op.seq THEN cache
    ELSE [cache EXCEPT !.overlay[op.key] = RecordOf(op)]

\* overlayStorePrimary, for an operation that applyBatchLockedMutable does not skip.
Mirrored(op) ==
    IF ~cache.valid \/ Lookup(op.key).seq > op.seq \/ cache.overlay[op.key].seq > op.seq THEN cache
    ELSE [cache EXCEPT !.overlay[op.key] = RecordOf(op)]

\* A write is applied; overlayMaybeCollapse drops a cache whose overlay has become
\* too large, which depends on sizes that the model does not have.
SnapApplyWrite(w) ==
    /\ ApplyWrite(w)
    /\ generation' = generation + 1
    /\ cache' \in {Mirrored(req[w]), NoCache}
    /\ UNCHANGED snapshots

\* removeTablesLocked_ drops the cache, whether the manifest can be persisted or not.
SnapCompaction ==
    /\ CompStep
    /\ cache' = IF compPc = "install" /\ life # "closing" THEN NoCache ELSE cache
    /\ UNCHANGED <<generation, snapshots>>

SnapGc ==
    /\ GcStep
    /\ cache' = IF gcPc = "commit" /\ GcStable THEN NoCache ELSE cache
    /\ UNCHANGED <<generation, snapshots>>

----------------------------------------------------------------------------
(* createSnapshot().                                                       *)

\* The snapshot of a state and an overlay.  For the properties it also records what
\* get() of the database answers at this moment and the close() calls before it.
Take(state, overlay) ==
    snapshots' = Append(snapshots,
        [mems |-> state.mems, tables |-> state.tables, readModel |-> state.readModel,
         overlay |-> overlay, view |-> [k \in Keys |-> Answer(Lookup(k))],
         closes |-> closes])

MayTake == life = "open" /\ Len(snapshots) < MaxSnapshots

\* Faulty variant: the base is served whatever was applied since it was built.
SnapshotOfBase_AnyGeneration ==
    /\ MayTake
    /\ cache.valid
    /\ Take(cache.base, NoRecords)
    /\ UNCHANGED <<vars, generation, cache>>

\* Nothing was applied since the base was built: the base itself.
SnapshotOfBase ==
    /\ MayTake
    /\ cache.valid /\ cache.gen = generation
    /\ Take(cache.base, NoRecords)
    /\ UNCHANGED <<vars, generation, cache>>

\* One copy of the overlay is shared by the snapshots of a generation.
SharedOverlay == IF cache.sharedGen = generation THEN cache.shared ELSE cache.overlay

\* The base and the overlay (baseSequence is the visibleSequence of the base whenever
\* there is one).
SnapshotOfOverlay ==
    /\ MayTake
    /\ cache.valid /\ cache.gen # generation
    /\ Take(cache.base, SharedOverlay)
    /\ cache' = [cache EXCEPT !.shared = SharedOverlay, !.sharedGen = generation]
    /\ UNCHANGED <<vars, generation>>

\* No base: build one, take it and keep it.
SnapshotBuilt ==
    /\ MayTake
    /\ ~cache.valid
    /\ Take(Capture, NoRecords)
    /\ cache' = [NoCache EXCEPT !.valid = TRUE, !.base = Capture, !.gen = generation]
    /\ UNCHANGED <<vars, generation>>

----------------------------------------------------------------------------
(* Life of the process.                                                    *)

\* resetState(): the snapshots stay usable.
SnapReset ==
    /\ CloseReset
    /\ generation' = 0 /\ cache' = NoCache
    /\ UNCHANGED snapshots

SnapCrash ==
    /\ Crash
    /\ generation' = 0 /\ cache' = NoCache /\ snapshots' = <<>>

\* Replay applies its batches one by one (applyBatchLocked).
SnapOpen ==
    /\ Open
    /\ generation' = generation + Cardinality(Replayed)
    /\ UNCHANGED <<cache, snapshots>>

\* What leaves generations, cache and snapshots alone.
OtherStep ==
    \/ \E w \in Writers, k \in Keys, kind \in Kinds : BeginWrite(w, k, kind)
    \/ \E w \in Writers : RejectWrite(w)
    \/ FlushStep \/ TailStep
    \/ CloseBegin \/ CloseTake \/ CloseWrite \/ CloseInstall \/ CloseFails

SnapInit == Init /\ generation = 0 /\ cache = NoCache /\ snapshots = <<>>

SnapNext ==
    \/ OtherStep /\ UNCHANGED snapVars
    \/ \E w \in Writers : SnapApplyWrite(w)
    \/ SnapCompaction \/ SnapGc
    \/ SnapshotOfBase \/ SnapshotOfOverlay \/ SnapshotBuilt
    \/ SnapReset \/ SnapCrash \/ SnapOpen

SnapSpec == SnapInit /\ [][SnapNext]_<<vars, snapVars>>

----------------------------------------------------------------------------
(* Properties.                                                             *)

Taken == {snapshots[i] : i \in DOMAIN snapshots}

\* "flush/compaction/blob GC never change the logical content at a given generation"
\* (SwEmbeddedDbLifecycle.h:228-229): as long as the cache is there, base and overlay
\* together have the row that get() of the database finds, for every key, whatever was
\* flushed, merged, collected or applied out of order since the base was built.  (After
\* a close() that raced a flush, the newest table need not have the highest sequence,
\* and get() and a scan of the database itself may differ.)
ReadCacheCurrent ==
    cache.valid /\ life = "open" /\ closes = 0 =>
        \A k \in Keys :
            LET row == IF Holds(cache.overlay, k) THEN cache.overlay[k] ELSE cache.base.readModel[k]
            IN  (IF row.del THEN 0 ELSE row.seq) = (IF Lookup(k).del THEN 0 ELSE Lookup(k).seq)

\* The rows of a snapshot that a scan can deliver are the ones that were visible when it
\* was taken, after any writes, flushes, compactions, collections and close() since.  (A
\* scan of the base ends at a row whose blob file the collector has deleted.)  Stated for
\* snapshots taken before any close(), for the reason given at ReadCacheCurrent.
ScanFrozen ==
    \A s \in Taken : \A k \in Keys :
        s.closes = 0 /\ Resolves(Row(s, k)) => Answer(Row(s, k)) = s.view[k]

\* get() of a snapshot answers a key that had a value with that value, as long as the
\* blob files it was taken with exist.
GetFrozen ==
    \A s \in Taken : \A k \in Keys :
        /\ s.view[k] # 0
        /\ \A t \in s.tables : Resolves(t.recs[k])
        => Get(s, k) = s.view[k]

\* What a test of the repository expects: "snapshot get erased key should miss"
\* (HttpAppDbBench.cpp:985-986).  Does not hold: a tombstone in a table does not stop
\* the search of loadPrimaryFromTable_ (SwEmbeddedDbSnapshotState.h:115).
GetErasedMisses ==
    \A s \in Taken : \A k \in Keys : s.view[k] = 0 /\ s.closes = 0 => Get(s, k) = 0
=============================================================================
