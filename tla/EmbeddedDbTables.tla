-------------------------- MODULE EmbeddedDbTables --------------------------
(***************************************************************************)
(* The tables of SwEmbeddedDb and the jobs that rewrite them: the flush of *)
(* memtables (flushBackground_, flushAllSync_), the two-regime compaction  *)
(* (CompactionManager_), the blob garbage collector (BlobGcManager_), and  *)
(* the table files and blob files they create and delete, with close(),    *)
(* crashes and open().                                                     *)
(*                                                                         *)
(* The journal is abstract here: what is applied is in it (EmbeddedDbWrite *)
(* is the module about that), one operation per batch.                     *)
(***************************************************************************)
EXTENDS Integers, Sequences, FiniteSets, FiniteSetsExt

CONSTANTS
    Keys,               \* primary keys
    Kinds,              \* operations: "put", "blob" (a put of a big value), "erase"
    Writers,            \* threads calling write()
    MemTableOps,        \* SwEmbeddedDbOptions::memTableBytes, in operations
    L0Trigger,          \* kL0CompactionTrigger
    L1Trigger,          \* kL1CompactionTrigger
    MaxBackgroundJobs,  \* SwEmbeddedDbOptions::maxBackgroundJobs
    MaxSequence,        \* bound: writes that may be started
    MaxCrashes,         \* bound: crashes
    MaxFaults,          \* bound: I/O calls that fail
    MaxCloses           \* bound: calls of close()

ASSUME TablesKeysAssumption ==
    /\ IsFiniteSet(Keys) /\ Keys # {}
    /\ Kinds \subseteq {"put", "blob", "erase"} /\ Kinds # {}

ASSUME TablesOptionsAssumption ==
    {MemTableOps, L0Trigger, L1Trigger, MaxBackgroundJobs} \subseteq Nat \ {0}

ASSUME TablesBoundsAssumption == {MaxSequence, MaxCrashes, MaxFaults, MaxCloses} \subseteq Nat

VARIABLES
    disk,           \* the manifest CURRENT names
    tableFiles,     \* ids of the table files that exist
    blobFiles,      \* the blob files that exist, with the number of values in each
    life,           \* "open", "closing" or "closed"
    manifest,       \* manifest_
    mutable,        \* mutable_
    immutables,     \* immutables_, oldest first
    nextSequence,   \* nextSequence_
    lastVisible,    \* lastVisibleSequence_
    log,            \* the journal: every operation applied so far
    pc, req,        \* each writer: where it is in submitRequest, its operation
    flushPc, flushMem, flushTable,      \* flushBackground_
    compPc, compTables, compDrop, compNew,  \* runL0Compaction ("idle": not scheduled)
    gcPc, gc,       \* runBlobGc ("idle": not scheduled) and what it collected
    tails,          \* jobs that only have files left to delete
    closePc, closeMem, closeTable,      \* close()
    crashes, faults, closes

diskVars  == <<disk, tableFiles, blobFiles>>
memVars   == <<mutable, immutables>>
writeVars == <<nextSequence, lastVisible, log, pc, req>>
flushVars == <<flushPc, flushMem, flushTable>>
compVars  == <<compPc, compTables, compDrop, compNew>>
gcVars    == <<gcPc, gc>>
closeVars == <<life, closePc, closeMem, closeTable>>
boundVars == <<crashes, faults, closes>>

vars == <<diskVars, memVars, writeVars, flushVars, compVars, gcVars, closeVars,
          boundVars, manifest, tails>>

----------------------------------------------------------------------------
(* Records, memtables, tables.                                             *)

\* PrimaryRecord_: big values are moved to a blob file when a table is written;
\* blob is that file (0: the value is inline).  Sequence 0 is "absent".
Record == [seq : Nat, del : BOOLEAN, big : BOOLEAN, blob : Nat]
NoRecord == [seq |-> 0, del |-> FALSE, big |-> FALSE, blob |-> 0]
NoRecords == [k \in Keys |-> NoRecord]

\* An operation, and the record it stores.
Operation == [seq : Nat, key : Keys, kind : Kinds]
RecordOf(op) == [seq |-> op.seq, del |-> op.kind = "erase",
                 big |-> op.kind = "blob", blob |-> 0]

MemTable == [maxSeq : Nat, ops : Nat, recs : [Keys -> Record]]
EmptyMem == [maxSeq |-> 0, ops |-> 0, recs |-> NoRecords]
IsEmptyMem(mem) == mem.recs = NoRecords

Table == [level : {0, 1}, fileId : Nat, recs : [Keys -> Record]]
NoTable == [level |-> 0, fileId |-> 0, recs |-> NoRecords]

Manifest == [manifestId : Nat, maxSequence : Nat, nextTableId : Nat, tables : SUBSET Table]
NewManifest == [manifestId |-> 1, maxSequence |-> 0, nextTableId |-> 1, tables |-> {}]

FileIds(tables) == {t.fileId : t \in tables}

\* The newest record of key k in a set of record maps, by sequence.
NewestOf(k, maps) ==
    LET held == {r[k] : r \in maps} \cup {NoRecord}
    IN  CHOOSE r \in held : \A s \in held : s.seq <= r.seq
NewestRecs(maps) == [k \in Keys |-> NewestOf(k, maps)]

----------------------------------------------------------------------------
(* Reading.                                                                *)

\* compareTableMetaNewestFirst_: does table t come before table u?
NewerTable(t, u) == t.level < u.level \/ (t.level = u.level /\ t.fileId > u.fileId)

\* The record of k in the first table, in that order, that has one.
TableLookup(tables, k) ==
    LET holding == {t \in tables : t.recs[k].seq # 0}
    IN  IF holding = {} THEN NoRecord
        ELSE LET first == CHOOSE t \in holding : \A u \in holding \ {t} : NewerTable(t, u)
             IN  first.recs[k]

\* lookupPrimaryLocked_: memtables first, then the tables by position.
Lookup(k) ==
    LET holding == {i \in DOMAIN immutables : immutables[i].recs[k].seq # 0}
    IN  IF mutable.recs[k].seq # 0 THEN mutable.recs[k]
        ELSE IF holding # {} THEN immutables[Max(holding)].recs[k]
        ELSE TableLookup(manifest.tables, k)

\* resolveValueLocked_: an external value needs its blob file.
Resolves(r) == r.blob = 0 \/ \E b \in blobFiles : b.id = r.blob

\* What get() answers for a record: the write it comes from, or 0 (not found).
Answer(r) == IF r.seq = 0 \/ r.del \/ ~Resolves(r) THEN 0 ELSE r.seq

----------------------------------------------------------------------------
(* Persisting the manifest, writing table files.                           *)

\* persistManifestLocked: writes MANIFEST-<id>, then CURRENT, then moves on to the
\* next id.  After open() the id is the one CURRENT already names.
Persist(m) == /\ disk' = m
              /\ manifest' = [m EXCEPT !.manifestId = @ + 1]

\* Faulty variant: the caller keeps the manifest that was not persisted.
PersistFails_KeepsNew(m) == /\ faults < MaxFaults
                            /\ faults' = faults + 1
                            /\ disk' = disk
                            /\ manifest' = m

\* It fails and the caller restores the manifest it had.  The manifest file may
\* have been replaced before that, which counts when CURRENT names that file.
PersistFails(m) == /\ faults < MaxFaults
                   /\ faults' = faults + 1
                   /\ disk' \in {disk} \cup (IF m.manifestId = disk.manifestId THEN {m} ELSE {})
                   /\ UNCHANGED manifest

\* The number of values that go to a blob file when recs become a table.
BigValues(recs) == Cardinality({k \in Keys : recs[k].big})

\* The table made of recs: its id is taken first, then the id of its blob file.
TableOf(level, recs) ==
    LET id == manifest.nextTableId
    IN  [level |-> level, fileId |-> id,
         recs  |-> [k \in Keys |-> IF recs[k].big THEN [recs[k] EXCEPT !.blob = id + 1]
                                   ELSE recs[k]]]

\* Both ids are taken, the blob file is appended to (AppendCreate) and synced.
TakeIdsFor(recs) == manifest' = [manifest EXCEPT !.nextTableId =
                                    @ + (IF BigValues(recs) = 0 THEN 1 ELSE 2)]
WithBlobs(recs) ==
    LET id  == manifest.nextTableId + 1
        old == {b \in blobFiles : b.id = id}
    IN  IF BigValues(recs) = 0 THEN blobFiles
        ELSE (blobFiles \ old)
             \cup {[id |-> id, values |-> BigValues(recs) + (IF old = {} THEN 0 ELSE
                                              (CHOOSE b \in old : TRUE).values)]}

\* writeTableFile_ for recs.
WriteTable(recs) == /\ TakeIdsFor(recs)
                    /\ blobFiles' = WithBlobs(recs)
                    /\ tableFiles' = tableFiles \cup {manifest.nextTableId}

\* It fails half-way, or the new file cannot be opened: the blob file and the table
\* files in left may stay behind.
WriteTableFails(recs, left) == /\ faults < MaxFaults
                               /\ faults' = faults + 1
                               /\ TakeIdsFor(recs)
                               /\ blobFiles' \in {blobFiles, WithBlobs(recs)}
                               /\ tableFiles' \in {tableFiles, tableFiles \cup left}

----------------------------------------------------------------------------
(* Scheduling the background jobs.                                         *)

\* Threads of the pool in use.
RunningJobs == Cardinality({p \in {<<"flush", flushPc>>, <<"comp", compPc>>, <<"gc", gcPc>>} :
                              p[2] \notin {"idle", "queued"}})
               + Cardinality(tails)
FreeThread == RunningJobs < MaxBackgroundJobs

\* compactL0Locked: the tables a compaction is to merge, if any.
MergeSet(tables) ==
    LET l0 == {t \in tables : t.level = 0}
        l1 == {t \in tables : t.level = 1}
        full == Cardinality(l1) >= L1Trigger
        merge == IF Cardinality(l0) >= L0Trigger \/ full
                 THEN l0 \cup (IF full \/ l1 = {} THEN l1 ELSE {}) ELSE {}
    IN  IF Cardinality(merge) < 2 THEN {} ELSE merge

ScheduleCompaction(busy, tables) ==
    IF busy \/ MergeSet(tables) = {}
    THEN UNCHANGED <<compPc, compTables>>
    ELSE compPc' = "queued" /\ compTables' = MergeSet(tables)

\* The condition that scheduleBlobGcLocked and runBlobGc test: nothing in memory.
GcMayRun(compacting) ==
    life = "open" /\ ~compacting /\ immutables = <<>> /\ IsEmptyMem(mutable)
ScheduleGc == gcPc' = IF gcPc = "idle" /\ GcMayRun(compPc' # "idle") THEN "queued" ELSE gcPc

----------------------------------------------------------------------------
(* write().                                                                *)

\* submitRequest, first critical section.
BeginWrite(w, k, kind) ==
    /\ pc[w] = "idle"
    /\ life = "open"
    /\ nextSequence <= MaxSequence
    /\ req' = [req EXCEPT ![w] = [seq |-> nextSequence, key |-> k, kind |-> kind]]
    /\ pc' = [pc EXCEPT ![w] = "encode"]
    /\ nextSequence' = nextSequence + 1
    /\ UNCHANGED <<diskVars, memVars, lastVisible, log, flushVars, compVars, gcVars,
                   closeVars, boundVars, manifest, tails>>

RejectWrite(w) ==
    /\ pc[w] = "encode"
    /\ life = "closing"
    /\ pc' = [pc EXCEPT ![w] = "idle"]
    /\ UNCHANGED <<diskVars, memVars, nextSequence, lastVisible, log, req, flushVars,
                   compVars, gcVars, closeVars, boundVars, manifest, tails>>

\* applyBatchLockedMutable: skipped when any layer has a newer record of the key.
Applied(mem, op) ==
    IF Lookup(op.key).seq > op.seq THEN [mem EXCEPT !.maxSeq = Max({@, op.seq})]
    ELSE [maxSeq |-> Max({mem.maxSeq, op.seq}), ops |-> mem.ops + 1,
          recs |-> [mem.recs EXCEPT ![op.key] = RecordOf(op)]]

\* Second critical section: apply, journal, rotate a full memtable and schedule
\* its flush.
ApplyWrite(w) ==
    LET mem  == Applied(mutable, req[w])
        full == mem.ops >= MemTableOps /\ ~IsEmptyMem(mem)
    IN  /\ pc[w] = "encode"
        /\ life = "open"
        /\ mutable' = IF full THEN EmptyMem ELSE mem
        /\ immutables' = IF full THEN Append(immutables, mem) ELSE immutables
        /\ flushPc' = IF full /\ flushPc = "idle" THEN "queued" ELSE flushPc
        /\ lastVisible' = Max({lastVisible, req[w].seq})
        /\ log' = log \cup {req[w]}
        /\ pc' = [pc EXCEPT ![w] = "idle"]
        /\ UNCHANGED <<diskVars, nextSequence, req, flushMem, flushTable, compVars, gcVars,
                       closeVars, boundVars, manifest, tails>>

----------------------------------------------------------------------------
(* flushBackground_ and flushMemTable_.                                    *)

\* Top of the loop, on a thread of the pool: copy the oldest immutable memtable.
FlushPick ==
    /\ flushPc = "pick" \/ (flushPc = "queued" /\ FreeThread)
    /\ \/ /\ immutables = <<>> \/ life = "closing"
          /\ flushPc' = "idle"
          /\ flushMem' = EmptyMem
       \/ /\ immutables # <<>> /\ life # "closing"
          /\ flushPc' = "write"
          /\ flushMem' = Head(immutables)
    /\ UNCHANGED <<diskVars, memVars, writeVars, flushTable, compVars, gcVars, closeVars,
                   boundVars, manifest, tails>>

FlushWrite ==
    /\ flushPc = "write"
    /\ WriteTable(flushMem.recs)
    /\ flushTable' = TableOf(0, flushMem.recs)
    /\ flushPc' = "install"
    /\ UNCHANGED <<disk, memVars, writeVars, flushMem, compVars, gcVars, closeVars,
                   boundVars, tails>>

\* The manifest with the table of a memtable in it.
WithTable(mem, table) == [manifest EXCEPT !.maxSequence = Max({@, mem.maxSeq}),
                                          !.tables = @ \cup {table}]

\* Final critical section: install and persist, then unless the database is closing
\* see whether a compaction or a garbage collection is due.
FlushInstall ==
    LET m == WithTable(flushMem, flushTable)
    IN  /\ flushPc = "install"
        /\ Persist(m)
        /\ ScheduleCompaction(compPc # "idle" \/ life = "closing", m.tables)
        /\ ScheduleGc
        /\ flushPc' = "remove"
        /\ flushTable' = NoTable
        /\ UNCHANGED <<tableFiles, blobFiles, memVars, writeVars, flushMem, compDrop, compNew,
                       gc, closeVars, boundVars, tails>>

\* The table cannot be written or the manifest cannot be persisted: the memtable
\* stays until the next rotation schedules the flush again.
FlushFails ==
    /\ \/ /\ flushPc = "write"
          /\ WriteTableFails(flushMem.recs, {manifest.nextTableId})
          /\ UNCHANGED disk
       \/ /\ flushPc = "install"
          /\ PersistFails(WithTable(flushMem, flushTable))
          /\ UNCHANGED <<tableFiles, blobFiles>>
    /\ flushPc' = "idle" /\ flushMem' = EmptyMem /\ flushTable' = NoTable
    /\ UNCHANGED <<memVars, writeVars, compVars, gcVars, closeVars, crashes, closes, tails>>

\* After a success: drop the memtable if it is still the first one.
FlushRemove ==
    /\ flushPc = "remove"
    /\ flushPc' = "pick"
    /\ immutables' = IF immutables # <<>> /\ Head(immutables).maxSeq = flushMem.maxSeq
                     THEN Tail(immutables) ELSE immutables
    /\ UNCHANGED <<diskVars, mutable, writeVars, flushMem, flushTable, compVars, gcVars,
                   closeVars, boundVars, manifest, tails>>

----------------------------------------------------------------------------
(* runL0Compaction.                                                        *)

CompEnds == /\ compPc' = "idle" /\ compTables' = {} /\ compDrop' = FALSE /\ compNew' = {}

\* Faulty variant: tombstones are dropped by every pass.
DropsTombstones_Always(merged) == TRUE

\* May tombstones go?  Only when the pass has every table it was given and every
\* L1 table of the manifest.
DropsTombstones(merged) ==
    /\ merged \subseteq manifest.tables
    /\ \A t \in manifest.tables : t.level = 1 => t \in merged

\* The job starts: pin the tables to merge, see whether they cover level 1.
CompStart ==
    /\ compPc = "queued" /\ FreeThread
    /\ \/ /\ life = "closing"
          /\ CompEnds
       \/ /\ life # "closing"
          /\ compTables' = compTables \cap manifest.tables
          /\ compDrop' = DropsTombstones(compTables)
          /\ compPc' = "merge"
          /\ UNCHANGED compNew
    /\ UNCHANGED <<diskVars, memVars, writeVars, flushVars, gcVars, closeVars, boundVars,
                   manifest, tails>>

\* The records a pass leaves: the newest of each key, without the tombstones it may
\* drop.  Values in blob files stay where they are.
CompactedRecs ==
    LET newest == NewestRecs({t.recs : t \in compTables})
    IN  [k \in Keys |-> IF compDrop /\ newest[k].del THEN NoRecord ELSE newest[k]]

\* Faulty variant: the merged table goes one level below the tables it replaces.
MergedLevel_Deeper(tables) == 1 + Max({t.level : t \in tables})

\* Both regimes leave their table at level 1.
MergedLevel(tables) == 1

\* Merge and write the new table, if anything is left to write.
CompMerge ==
    /\ compPc = "merge"
    /\ \/ /\ life = "closing"
          /\ CompEnds
          /\ UNCHANGED <<tableFiles, manifest>>
       \/ /\ life # "closing"
          /\ compPc' = "install"
          /\ \/ /\ CompactedRecs = NoRecords
                /\ compNew' = {}
                /\ UNCHANGED <<tableFiles, manifest>>
             \/ /\ CompactedRecs # NoRecords
                /\ compNew' = {[level |-> MergedLevel(compTables),
                                fileId |-> manifest.nextTableId, recs |-> CompactedRecs]}
                /\ tableFiles' = tableFiles \cup {manifest.nextTableId}
                /\ manifest' = [manifest EXCEPT !.nextTableId = @ + 1]
          /\ UNCHANGED <<compTables, compDrop>>
    /\ UNCHANGED <<disk, blobFiles, memVars, writeVars, flushVars, gcVars, closeVars,
                   boundVars, tails>>

Compacted == [manifest EXCEPT !.tables = (@ \ compTables) \cup compNew]

\* Faulty variant: the job does not look whether another pass is due.
CompInstall_NoRecheck ==
    /\ compPc = "install" /\ life # "closing"
    /\ Persist(Compacted)
    /\ CompEnds
    /\ ScheduleGc
    /\ tails' = tails \cup {[tables |-> FileIds(compTables), blobs |-> {}]}
    /\ UNCHANGED <<tableFiles, blobFiles, memVars, writeVars, flushVars, gc, closeVars,
                   boundVars>>

\* Install: replace the merged tables, persist, see whether another pass or a blob
\* collection is due; the merged files are deleted after that.
CompInstall ==
    /\ compPc = "install"
    /\ \/ /\ life = "closing"
          /\ CompEnds
          /\ UNCHANGED <<disk, manifest, gcPc, tails>>
       \/ /\ life # "closing"
          /\ Persist(Compacted)
          /\ compTables' = MergeSet(Compacted.tables)
          /\ compPc' = IF compTables' = {} THEN "idle" ELSE "queued"
          /\ compDrop' = FALSE /\ compNew' = {}
          /\ ScheduleGc
          /\ tails' = tails \cup {[tables |-> FileIds(compTables), blobs |-> {}]}
    /\ UNCHANGED <<tableFiles, blobFiles, memVars, writeVars, flushVars, gc, closeVars,
                   boundVars>>

\* A table cannot be read, written or opened, or the manifest cannot be persisted:
\* the pass is abandoned (a table already written stays as an orphan).
CompFails ==
    /\ \/ /\ compPc = "merge"
          /\ faults < MaxFaults
          /\ faults' = faults + 1
          /\ \/ UNCHANGED <<manifest, tableFiles>>
             \/ /\ CompactedRecs # NoRecords
                /\ manifest' = [manifest EXCEPT !.nextTableId = @ + 1]
                /\ tableFiles' \in {tableFiles, tableFiles \cup {manifest.nextTableId}}
          /\ UNCHANGED disk
       \/ /\ compPc = "install" /\ life # "closing"
          /\ PersistFails(Compacted)
          /\ UNCHANGED tableFiles
    /\ CompEnds
    /\ UNCHANGED <<blobFiles, memVars, writeVars, flushVars, gcVars, closeVars, crashes,
                   closes, tails>>

\* The end of a compaction or of a blob collection: delete the files it is done with.
DeleteFiles(job) ==
    /\ job \in tails
    /\ tails' = tails \ {job}
    /\ tableFiles' = tableFiles \ job.tables
    /\ blobFiles' = {b \in blobFiles : b.id \notin job.blobs}
    /\ UNCHANGED <<disk, memVars, writeVars, flushVars, compVars, gcVars, closeVars,
                   boundVars, manifest>>

----------------------------------------------------------------------------
(* runBlobGc.                                                              *)

NoGc == [tables |-> {}, recs |-> NoRecords, seq |-> 0, manifestId |-> 0,
         listed |-> {}, new |-> {}]
GcEnds == gcPc' = "idle" /\ gc' = NoGc

\* First critical section: materializePrimaryLocked over the tables, values read
\* from their blob files, erased keys left out.
GcStart ==
    LET newest == NewestRecs({t.recs : t \in manifest.tables})
        live   == [k \in Keys |-> IF newest[k].del THEN NoRecord ELSE newest[k]]
    IN  /\ gcPc = "queued" /\ FreeThread
        /\ \/ /\ ~GcMayRun(compPc # "idle") \/ \E k \in Keys : ~Resolves(live[k])
              /\ GcEnds
           \/ /\ GcMayRun(compPc # "idle") /\ \A k \in Keys : Resolves(live[k])
              /\ gc' = [NoGc EXCEPT !.tables = manifest.tables, !.recs = live,
                                    !.seq = lastVisible, !.manifestId = manifest.manifestId]
              /\ gcPc' = "list"
        /\ UNCHANGED <<diskVars, memVars, writeVars, flushVars, compVars, closeVars,
                       boundVars, manifest, tails>>

\* Is 30 % or more of blob file b dead, values being of one size?
IsGarbage(b) ==
    LET live == Cardinality({k \in Keys : gc.recs[k].blob = b.id})
    IN  live = 0 \/ (b.values - live) * 100 >= b.values * 30

\* List the blob files; go on only if one of them is worth rewriting.
GcList ==
    /\ gcPc = "list"
    /\ \/ /\ \A b \in blobFiles : ~IsGarbage(b)
          /\ GcEnds
       \/ /\ \E b \in blobFiles : IsGarbage(b)
          /\ gc' = [gc EXCEPT !.listed = {b.id : b \in blobFiles},
                              !.recs = [k \in Keys |-> [gc.recs[k] EXCEPT !.blob = 0]]]
          /\ gcPc' = "write"
    /\ UNCHANGED <<diskVars, memVars, writeVars, flushVars, compVars, closeVars, boundVars,
                   manifest, tails>>

\* Rewrite every live record into one L1 table and one blob file.
GcWrite ==
    /\ gcPc = "write"
    /\ \/ /\ gc.recs = NoRecords
          /\ UNCHANGED <<tableFiles, blobFiles, manifest, gc>>
       \/ /\ gc.recs # NoRecords
          /\ WriteTable(gc.recs)
          /\ gc' = [gc EXCEPT !.new = {TableOf(1, gc.recs)}]
    /\ gcPc' = "commit"
    /\ UNCHANGED <<disk, memVars, writeVars, flushVars, compVars, closeVars, boundVars, tails>>

\* The blob file written for the new table.
GcBlobs == {t.fileId + 1 : t \in {u \in gc.new : BigValues(u.recs) # 0}}

\* Faulty variant: the collector only checks that no compaction is running.
GcStable_IgnoresWrites == life = "open" /\ compPc = "idle"

\* Nothing moved since the first critical section?
GcStable == /\ GcMayRun(compPc # "idle")
            /\ lastVisible = gc.seq
            /\ manifest.manifestId = gc.manifestId

Collected == [manifest EXCEPT !.tables = (@ \ gc.tables) \cup gc.new]

\* The files of a rewrite that is not committed.
Uncommitted == [tables |-> FileIds(gc.new), blobs |-> GcBlobs]

\* Commit: replace all the tables, then delete them and the blob files listed.  If
\* something moved, delete what was written instead.
GcCommit ==
    /\ gcPc = "commit"
    /\ \/ /\ GcStable
          /\ Persist(Collected)
          /\ tails' = tails \cup {[tables |-> FileIds(gc.tables), blobs |-> gc.listed \ GcBlobs]}
       \/ /\ ~GcStable
          /\ tails' = IF gc.new = {} THEN tails ELSE tails \cup {Uncommitted}
          /\ UNCHANGED <<disk, manifest>>
    /\ GcEnds
    /\ UNCHANGED <<tableFiles, blobFiles, memVars, writeVars, flushVars, compVars, closeVars,
                   boundVars>>

\* The new files cannot be written, or the manifest cannot be persisted: the
\* manifest is restored and the new files are deleted.
GcFails ==
    /\ \/ /\ gcPc = "write"
          /\ gc.recs # NoRecords
          /\ WriteTableFails(gc.recs, {})
          /\ UNCHANGED <<disk, tails>>
       \/ /\ gcPc = "commit"
          /\ GcStable
          /\ PersistFails(Collected)
          /\ tails' = IF gc.new = {} THEN tails ELSE tails \cup {Uncommitted}
          /\ UNCHANGED <<tableFiles, blobFiles>>
    /\ GcEnds
    /\ UNCHANGED <<memVars, writeVars, flushVars, compVars, closeVars, crashes, closes>>

----------------------------------------------------------------------------
(* close(), crash, open().                                                 *)

\* closing_ is set.  Journaling what is pending and joining the service thread come
\* next (EmbeddedDbWrite).
CloseBegin ==
    /\ life = "open"
    /\ closes < MaxCloses
    /\ closes' = closes + 1
    /\ life' = "closing" /\ closePc' = "take"
    /\ UNCHANGED <<diskVars, memVars, writeVars, flushVars, compVars, gcVars, closeMem,
                   closeTable, crashes, faults, manifest, tails>>

\* The memtables flushAllSync_ takes: the immutable ones and the one being filled.
ClosingMems == {immutables[i] : i \in DOMAIN immutables}
               \cup (IF IsEmptyMem(mutable) THEN {} ELSE {mutable})

\* flushAllSync_: take and merge the memtables (newest record of every key), or just
\* persist the manifest when there are none.
CloseTake ==
    /\ closePc = "take"
    /\ mutable' = EmptyMem /\ immutables' = <<>>
    /\ \/ /\ ClosingMems # {}
          /\ closeMem' = [maxSeq |-> Max({mem.maxSeq : mem \in ClosingMems}), ops |-> 0,
                          recs |-> NewestRecs({mem.recs : mem \in ClosingMems})]
          /\ closePc' = "write"
          /\ UNCHANGED <<disk, manifest, faults>>
       \/ /\ ClosingMems = {}
          /\ \/ Persist(manifest) /\ UNCHANGED faults
             \/ PersistFails(manifest)
          /\ closePc' = "pool"
          /\ UNCHANGED closeMem
    /\ UNCHANGED <<tableFiles, blobFiles, writeVars, flushVars, compVars, gcVars, life,
                   closeTable, crashes, closes, tails>>

CloseWrite ==
    /\ closePc = "write"
    /\ WriteTable(closeMem.recs)
    /\ closeTable' = TableOf(0, closeMem.recs)
    /\ closePc' = "install"
    /\ UNCHANGED <<disk, memVars, writeVars, flushVars, compVars, gcVars, life, closeMem,
                   boundVars, tails>>

CloseInstall ==
    /\ closePc = "install"
    /\ Persist(WithTable(closeMem, closeTable))
    /\ closePc' = "pool"
    /\ UNCHANGED <<tableFiles, blobFiles, memVars, writeVars, flushVars, compVars, gcVars,
                   life, closeMem, closeTable, boundVars, tails>>

\* The last flush fails: logged, and close() goes on.
CloseFails ==
    /\ \/ /\ closePc = "write"
          /\ WriteTableFails(closeMem.recs, {manifest.nextTableId})
          /\ UNCHANGED disk
       \/ /\ closePc = "install"
          /\ PersistFails(WithTable(closeMem, closeTable))
          /\ UNCHANGED <<tableFiles, blobFiles>>
    /\ closePc' = "pool"
    /\ UNCHANGED <<memVars, writeVars, flushVars, compVars, gcVars, life, closeMem, closeTable,
                   crashes, closes, tails>>

\* What the process forgets when it dies or resetState() runs.
ForgetState ==
    /\ life' = "closed"
    /\ manifest' = NewManifest
    /\ mutable' = EmptyMem /\ immutables' = <<>>
    /\ nextSequence' = 1 /\ lastVisible' = 0
    /\ flushPc' = "idle" /\ flushMem' = EmptyMem /\ flushTable' = NoTable
    /\ CompEnds
    /\ GcEnds
    /\ tails' = {}
    /\ closePc' = "idle" /\ closeMem' = EmptyMem /\ closeTable' = NoTable

\* The pool is idle: resetState().
CloseReset ==
    /\ closePc = "pool"
    /\ flushPc = "idle" /\ compPc = "idle" /\ gcPc = "idle" /\ tails = {}
    /\ \A w \in Writers : pc[w] = "idle"
    /\ ForgetState
    /\ UNCHANGED <<diskVars, log, pc, req, boundVars>>

\* The process dies between any two steps; the files stay.
Crash ==
    /\ life # "closed"
    /\ crashes < MaxCrashes
    /\ crashes' = crashes + 1
    /\ ForgetState
    /\ pc' = [w \in Writers |-> "idle"]
    /\ UNCHANGED <<diskVars, log, req, faults, closes>>

\* The operations replay applies again.
Replayed == {op \in log : op.seq > disk.maxSequence}

\* Faulty variant: every table file is taken for an orphan of level 1 compactions.
KeptTableFiles_L0Only == FileIds({t \in disk.tables : t.level = 0})

\* removeOrphanTableFilesLocked: the table files left.
KeptTableFiles == tableFiles \cap FileIds(disk.tables)

\* open(): load the manifest, open its tables, replay, delete the orphan tables and
\* see whether a compaction is due.  A table that is missing makes open() fail.
Open ==
    LET top == Max({disk.maxSequence} \cup {op.seq : op \in Replayed})
    IN  /\ life = "closed"
        /\ FileIds(disk.tables) \subseteq tableFiles
        /\ life' = "open"
        /\ manifest' = [disk EXCEPT !.nextTableId =
                            Max({@} \cup {t.fileId + 1 : t \in disk.tables}
                                     \cup {t.recs[k].blob + 1 : t \in disk.tables, k \in Keys})]
        /\ mutable' = [maxSeq |-> IF Replayed = {} THEN 0 ELSE top,
                       ops    |-> Cardinality(Replayed),
                       recs   |-> [k \in Keys |->
                           LET of_k == {op \in Replayed : op.key = k}
                           IN  IF of_k = {} THEN NoRecord
                               ELSE RecordOf(CHOOSE op \in of_k :
                                                \A o \in of_k : o.seq <= op.seq)]]
        /\ lastVisible' = top /\ nextSequence' = top + 1
        /\ tableFiles' = KeptTableFiles
        /\ ScheduleCompaction(FALSE, disk.tables)
        /\ UNCHANGED <<disk, blobFiles, immutables, log, pc, req, flushVars, compDrop, compNew,
                       gcVars, closePc, closeMem, closeTable, boundVars, tails>>

----------------------------------------------------------------------------

\* The directory of an empty database.
Init ==
    /\ disk = NewManifest /\ tableFiles = {} /\ blobFiles = {}
    /\ life = "closed"
    /\ manifest = NewManifest
    /\ mutable = EmptyMem /\ immutables = <<>>
    /\ nextSequence = 1 /\ lastVisible = 0
    /\ log = {}
    /\ pc = [w \in Writers |-> "idle"]
    /\ req \in [Writers -> {[seq |-> 0, key |-> CHOOSE k \in Keys : TRUE,
                             kind |-> CHOOSE x \in Kinds : TRUE]}]
    /\ flushPc = "idle" /\ flushMem = EmptyMem /\ flushTable = NoTable
    /\ compPc = "idle" /\ compTables = {} /\ compDrop = FALSE /\ compNew = {}
    /\ gcPc = "idle" /\ gc = NoGc
    /\ tails = {}
    /\ closePc = "idle" /\ closeMem = EmptyMem /\ closeTable = NoTable
    /\ crashes = 0 /\ faults = 0 /\ closes = 0

FlushStep == FlushPick \/ FlushWrite \/ FlushInstall \/ FlushFails \/ FlushRemove
CompStep  == CompStart \/ CompMerge \/ CompInstall \/ CompFails
GcStep    == GcStart \/ GcList \/ GcWrite \/ GcCommit \/ GcFails
TailStep  == \E job \in tails : DeleteFiles(job)

\* The database while nobody closes it.  The steps of close(), and the writers it
\* refuses, join in EmbeddedDbSnapshot: across a close() that races a flush the tables
\* are not the map of KvStore (README.md, section 9).
Next ==
    \/ \E w \in Writers, k \in Keys, kind \in Kinds : BeginWrite(w, k, kind)
    \/ \E w \in Writers : ApplyWrite(w)
    \/ FlushStep
    \/ CompStep
    \/ GcStep
    \/ TailStep
    \/ Crash
    \/ Open

Spec == Init /\ [][Next]_vars

\* A job the pool was given runs, and the threads of the process keep running.
Fairness == /\ \A w \in Writers : WF_vars(ApplyWrite(w))
            /\ WF_vars(FlushStep) /\ WF_vars(CompStep) /\ WF_vars(GcStep)
            /\ WF_vars(TailStep)

FairSpec == Spec /\ Fairness

----------------------------------------------------------------------------
(* Properties.                                                             *)

\* Type correctness of the whole state.
TypeOK ==
    /\ disk \in Manifest /\ manifest \in Manifest
    /\ tableFiles \subseteq Nat /\ blobFiles \subseteq [id : Nat, values : Nat]
    /\ life \in {"open", "closing", "closed"}
    /\ mutable \in MemTable /\ immutables \in Seq(MemTable)
    /\ nextSequence \in Nat /\ lastVisible \in Nat
    /\ log \subseteq Operation
    /\ pc \in [Writers -> {"idle", "encode"}] /\ req \in [Writers -> Operation]
    /\ flushPc \in {"idle", "queued", "pick", "write", "install", "remove"}
    /\ flushMem \in MemTable /\ flushTable \in Table
    /\ compPc \in {"idle", "queued", "merge", "install"}
    /\ compTables \subseteq Table /\ compDrop \in BOOLEAN /\ compNew \subseteq Table
    /\ gcPc \in {"idle", "queued", "list", "write", "commit"}
    /\ gc \in [tables : SUBSET Table, recs : [Keys -> Record], seq : Nat, manifestId : Nat,
               listed : SUBSET Nat, new : SUBSET Table]
    /\ tails \subseteq [tables : SUBSET Nat, blobs : SUBSET Nat]
    /\ closePc \in {"idle", "take", "write", "install", "pool"}
    /\ closeMem \in MemTable /\ closeTable \in Table
    /\ crashes \in Nat /\ faults \in Nat /\ closes \in Nat

\* The write whose value k has: the one with the highest sequence, 0 if it erased k.
NewestWrite(k) ==
    LET of_k == {op \in log : op.key = k}
    IN  IF of_k = {} THEN 0
        ELSE LET top == CHOOSE op \in of_k : \A o \in of_k : o.seq <= op.seq
             IN  IF top.kind = "erase" THEN 0 ELSE top.seq

\* Every table that the manifest on disk lists exists, and so does every blob file
\* that its records refer to: open() can succeed at any time.
ManifestFilesExist ==
    \A t \in disk.tables : /\ t.fileId \in tableFiles
                           /\ \A k \in Keys : Resolves(t.recs[k])

\* Compaction catches up: an open database is again and again below both triggers,
\* as long as no I/O call fails (nothing schedules a failed compaction again before
\* the next flush).
CompactionCatchesUp ==
    []<>(\/ life # "open" \/ faults > 0
         \/ /\ Cardinality({t \in manifest.tables : t.level = 0}) < L0Trigger
            /\ Cardinality({t \in manifest.tables : t.level = 1}) < L1Trigger)

\* What the next open() would answer for k if the process died now.
Recovered(k) ==
    IF \E op \in Replayed : op.key = k THEN NewestWrite(k)
    ELSE Answer(TableLookup(disk.tables, k))

\* What readers find under every key, now or after the next open(), and the last write.
Store     == [k \in Keys |-> IF life = "open" THEN Answer(Lookup(k)) ELSE Recovered(k)]
LastWrite == Max({0} \cup {op.seq : op \in log})

Kv == INSTANCE KvStore WITH store <- Store, last <- LastWrite

\* The database is the map of KvStore: only a write changes what readers see.  No
\* flush, compaction, blob collection, crash or open() ever does.
RefinesKvStore == Kv!Spec
=============================================================================
