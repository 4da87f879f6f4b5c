--------------------------- MODULE EmbeddedDbWrite ---------------------------
(***************************************************************************)
(* The write path of SwEmbeddedDb: writers (submitRequest), the            *)
(* write-service thread that group-commits their frames to the write-ahead *)
(* log, the background flush of full memtables, sync(), close(), crashes   *)
(* and the recovery done by open().                                        *)
(*                                                                         *)
(* Every critical section of SwEmbeddedDb::mutex_ is one action, and so is *)
(* every I/O call made outside of it.                                      *)
(***************************************************************************)
EXTENDS Integers, Sequences, FiniteSets, FiniteSetsExt

CONSTANTS
    Keys,           \* primary keys
    Batches,        \* the batches writers submit: [some keys -> is it an erase?]
    Writers,        \* threads calling write()
    Syncers,        \* threads calling sync()
    LazyWrite,      \* SwEmbeddedDbOptions::lazyWrite
    MemTableBytes,  \* SwEmbeddedDbOptions::memTableBytes, counted in operations
    MaxSequence,    \* bound: writes that may be started
    CrashKinds,     \* which crashes happen: "process" and "power"
    MaxCrashes,     \* bound: crashes
    MaxFaults,      \* bound: I/O calls that fail
    MaxCloses       \* bound: calls of close()

ASSUME BatchesAssumption ==
    /\ Batches # {}
    /\ \A b \in Batches : /\ DOMAIN b \subseteq Keys
                          /\ DOMAIN b # {}
                          /\ b \in [DOMAIN b -> BOOLEAN]

ASSUME KeysAssumption == IsFiniteSet(Keys)

ASSUME OptionsAssumption ==
    /\ LazyWrite \in BOOLEAN
    /\ MemTableBytes \in Nat \ {0}

ASSUME BoundsAssumption ==
    /\ CrashKinds \subseteq {"process", "power"}
    /\ {MaxSequence, MaxCrashes, MaxFaults, MaxCloses} \subseteq Nat

VARIABLES
    \* ---- on disk ----
    disk,           \* the manifest CURRENT names, with the tables it lists
    walFiles,       \* ids of the WAL files that exist
    walFrames,      \* frames written to WAL files
    walSynced,      \* those of them an fsync has covered
    \* ---- SwEmbeddedDb, guarded by mutex_ ----
    life,           \* opened_ ("open"), closing_ ("closing") or neither ("closed")
    manifest,       \* manifest_
    inPlace,        \* the next manifest file to write is the one CURRENT names
    mutable,        \* mutable_
    immutables,     \* immutables_, oldest first
    nextSequence,   \* nextSequence_
    lastVisible,    \* lastVisibleSequence_
    lastDurable,    \* lastDurableSequence_
    bgError,        \* backgroundWriteError_ is set
    pending,        \* pendingWrites_
    svcStop,        \* writeServiceStop_
    svcStopped,     \* writeServiceStopped_
    walFileId,      \* activeWalFileId_
    \* ---- threads ----
    pc, req,        \* each writer: where it is in submitRequest, its request
    svc, group, target,       \* the write-service thread
    flushPc, flushMem,        \* flushBackground_ ("idle": not scheduled)
    syncPc, syncTarget,       \* each thread in syncInternal_
    closePc, closeMem,        \* close()
    \* ---- what the callers were promised (history variables) ----
    applied,        \* frames visible since the last open
    acked,          \* frames whose write() returned success after the WAL sync
    want, promised, \* frames visible at the call of sync(); those it vouched for
    \* ---- bounds ----
    crashes, faults, closes

diskVars   == <<disk, walFiles, walFrames, walSynced>>
memVars    == <<manifest, inPlace, mutable, immutables>>
seqVars    == <<nextSequence, lastVisible, lastDurable>>
svcVars    == <<svc, group, target, walFileId>>
stopVars   == <<svcStop, svcStopped>>
writerVars == <<pc, req>>
flushVars  == <<flushPc, flushMem>>
syncVars   == <<syncPc, syncTarget, want, promised>>
closeVars  == <<life, closePc, closeMem>>
boundVars  == <<crashes, faults, closes>>

vars == <<diskVars, memVars, seqVars, svcVars, stopVars, writerVars, flushVars,
          syncVars, closeVars, boundVars, bgError, pending, applied, acked>>

----------------------------------------------------------------------------
(* Records, memtables, manifests.                                          *)

\* PrimaryRecord_: its sequence and whether it is a tombstone.  A value is told
\* apart by the sequence of the write that stored it; sequence 0 is "absent".
Record   == [seq : Nat, del : BOOLEAN]
NoRecord == [seq |-> 0, del |-> FALSE]
NoRecords == [k \in Keys |-> NoRecord]

\* One write request, and the WAL frame encoded from it.
Frame    == [seq : Nat, batch : Batches]
WalFrame == [wal : Nat, seq : Nat, batch : Batches]
InWal(w, f) == [wal |-> w, seq |-> f.seq, batch |-> f.batch]
FrameOf(g)  == [seq |-> g.seq, batch |-> g.batch]

MemTable == [walId : Nat, maxSeq : Nat, bytes : Nat, primary : [Keys -> Record]]
EmptyMem(w) == [walId |-> w, maxSeq |-> 0, bytes |-> 0, primary |-> NoRecords]
IsEmptyMem(mem) == \A k \in Keys : mem.primary[k].seq = 0

\* The tables a manifest lists are kept as the newest record each key has in them.
Manifest == [maxSequence : Nat, replayFromWalId : Nat, activeWalId : Nat,
             nextWalId : Nat, tables : [Keys -> Record]]
NewManifest == [maxSequence |-> 0, replayFromWalId |-> 1, activeWalId |-> 1,
                nextWalId |-> 2, tables |-> NoRecords]

IsMax(x, S) == x \in S /\ \A y \in S : y <= x
IsMin(x, S) == x \in S /\ \A y \in S : x <= y

Newer(a, b) == IF a.seq < b.seq THEN b ELSE a

----------------------------------------------------------------------------
(* Reading and applying.                                                   *)

\* lookupPrimaryLocked_: the memtable being filled, then the immutable ones from
\* the youngest to the oldest, then the tables.
Lookup(k) ==
    LET holding == {i \in DOMAIN immutables : immutables[i].primary[k].seq # 0}
    IN  IF mutable.primary[k].seq # 0 THEN mutable.primary[k]
        ELSE IF holding # {} THEN immutables[Max(holding)].primary[k]
        ELSE manifest.tables[k]

\* Faulty variant: the newest-sequence-wins guard is missing.
Superseded_NoGuard(k, seq) == FALSE

\* "A newer write already superseded this op": the op is skipped.
Superseded(k, seq) == Lookup(k).seq > seq

\* walId keeps the OLDEST journal the memtable covers.
CoveredWal(mem) == IF mem.walId = 0 \/ manifest.activeWalId < mem.walId
                   THEN manifest.activeWalId ELSE mem.walId

\* applyBatchLockedMutable on the mutable memtable.
ApplyBatch(mem, f) ==
    LET fresh == {k \in DOMAIN f.batch : ~Superseded(k, f.seq)}
    IN  [walId   |-> CoveredWal(mem),
         maxSeq  |-> Max({mem.maxSeq, f.seq}),
         bytes   |-> mem.bytes + Cardinality(fresh),
         primary |-> [k \in Keys |-> IF k \in fresh
                                     THEN [seq |-> f.seq, del |-> f.batch[k]]
                                     ELSE mem.primary[k]]]

----------------------------------------------------------------------------
(* write(): submitRequest.                                                 *)

\* First critical section: a sequence is taken; the frame is encoded after it.
\* A call refused here (not open, closing, background error) changes nothing.
BeginWrite(w, b) ==
    /\ pc[w] = "idle"
    /\ life = "open"
    /\ ~bgError
    /\ nextSequence <= MaxSequence
    /\ req' = [req EXCEPT ![w] = [seq |-> nextSequence, batch |-> b]]
    /\ pc' = [pc EXCEPT ![w] = "encode"]
    /\ nextSequence' = nextSequence + 1
    /\ UNCHANGED <<diskVars, memVars, lastVisible, lastDurable, svcVars, stopVars,
                   flushVars, syncVars, closeVars, boundVars, bgError, pending,
                   applied, acked>>

\* Second critical section, refused: the database started to close or the
\* service thread failed meanwhile.  The sequence is simply never used.
RejectWrite(w) ==
    /\ pc[w] = "encode"
    /\ life = "closing" \/ bgError
    /\ pc' = [pc EXCEPT ![w] = "idle"]
    /\ UNCHANGED <<diskVars, memVars, seqVars, svcVars, stopVars, req, flushVars,
                   syncVars, closeVars, boundVars, bgError, pending, applied, acked>>

\* rotateMutableToImmutableLocked_ applied to mem, or just storing mem.
StoreOrRotate(mem) ==
    IF mem.bytes >= MemTableBytes /\ ~IsEmptyMem(mem)
    THEN /\ immutables' = Append(immutables, mem)
         /\ manifest' = [manifest EXCEPT !.activeWalId = manifest.nextWalId,
                                         !.nextWalId = @ + 1]
         /\ mutable' = EmptyMem(manifest.nextWalId)
    ELSE /\ mutable' = mem
         /\ UNCHANGED <<manifest, immutables>>

\* scheduleFlushLocked_, called when the memtable reached its limit.
ScheduleFlush(full) ==
    flushPc' = IF full /\ flushPc = "idle" /\ immutables' # <<>>
               THEN "pick" ELSE flushPc

\* Second critical section: apply, enqueue, rotate a full memtable.  In lazy
\* mode the call then returns, otherwise it waits for its request to be done.
ApplyEnqueue(w) ==
    LET mem == ApplyBatch(mutable, req[w])
    IN  /\ pc[w] = "encode"
        /\ life = "open"
        /\ ~bgError
        /\ StoreOrRotate(mem)
        /\ ScheduleFlush(mem.bytes >= MemTableBytes)
        /\ lastVisible' = Max({lastVisible, req[w].seq})
        /\ pending' = pending \cup {req[w]}
        /\ applied' = applied \cup {req[w]}
        /\ pc' = [pc EXCEPT ![w] = IF LazyWrite THEN "idle" ELSE "wait"]
        /\ UNCHANGED <<diskVars, inPlace, nextSequence, lastDurable, svcVars,
                       stopVars, req, flushMem, syncVars, closeVars, boundVars,
                       bgError, acked>>

----------------------------------------------------------------------------
(* The write-service thread: writeServiceLoop_.                            *)

\* Faulty variant: only the newest request of the queue is kept in the group.
ServiceDrain_NewestOnly ==
    /\ svc = "drain"
    /\ \E f \in pending : /\ IsMax(f.seq, {h.seq : h \in pending})
                          /\ target' = f.seq
                          /\ group' = {f}
    /\ pending' = {}
    /\ svc' = "open"
    /\ UNCHANGED <<diskVars, memVars, seqVars, walFileId, stopVars, writerVars,
                   flushVars, syncVars, closeVars, boundVars, bgError, applied, acked>>

\* drainWriteRequests_: takes everything that is pending; the target is the
\* largest sequence taken.  (The commit window only delays this step.)
ServiceDrain ==
    /\ svc = "drain"
    /\ \E t \in {f.seq : f \in pending} :
          /\ IsMax(t, {f.seq : f \in pending})
          /\ target' = t
    /\ group' = pending
    /\ pending' = {}
    /\ svc' = "open"
    /\ UNCHANGED <<diskVars, memVars, seqVars, walFileId, stopVars, writerVars,
                   flushVars, syncVars, closeVars, boundVars, bgError, applied, acked>>

\* drainWriteRequests_ finds nothing pending and writeServiceStop_ set.
ServiceStop ==
    /\ svc = "drain"
    /\ pending = {}
    /\ svcStop
    /\ svc' = "left"
    /\ UNCHANGED <<diskVars, memVars, seqVars, group, target, walFileId, stopVars,
                   writerVars, flushVars, syncVars, closeVars, boundVars, bgError,
                   pending, applied, acked>>

\* commitWriteRequests_, first critical section: switch to the active journal.
\* (backgroundWriteError_ is only ever set by this thread as it leaves its loop.)
CommitOpenWal ==
    /\ svc = "open"
    /\ walFileId' = manifest.activeWalId
    /\ walFiles' = walFiles \cup {manifest.activeWalId}
    /\ svc' = "append"
    /\ UNCHANGED <<disk, walFrames, walSynced, memVars, seqVars, group, target,
                   stopVars, writerVars, flushVars, syncVars, closeVars, boundVars,
                   bgError, pending, applied, acked>>

\* activeWalFile_.append of the whole group, outside the lock.
CommitAppend ==
    /\ svc = "append"
    /\ walFrames' = walFrames \cup {InWal(walFileId, f) : f \in group}
    /\ svc' = "sync"
    /\ UNCHANGED <<disk, walFiles, walSynced, memVars, seqVars, group, target,
                   walFileId, stopVars, writerVars, flushVars, syncVars, closeVars,
                   boundVars, bgError, pending, applied, acked>>

\* Faulty variant: the commit is published without syncing the file.
CommitSync_Skipped ==
    /\ svc = "sync"
    /\ svc' = "publish"
    /\ UNCHANGED <<disk, walFiles, walFrames, walSynced, memVars, seqVars, group,
                   target, walFileId, stopVars, writerVars, flushVars, syncVars,
                   closeVars, boundVars, bgError, pending, applied, acked>>

\* Faulty variant: the group is taken to be in the journal that is active now,
\* which a rotation may have changed since the file was opened.
CommitSync_ActiveJournal ==
    /\ svc = "sync"
    /\ walSynced' = walSynced \cup {InWal(manifest.activeWalId, f) : f \in group}
    /\ svc' = "publish"
    /\ UNCHANGED <<disk, walFiles, walFrames, memVars, seqVars, group, target,
                   walFileId, stopVars, writerVars, flushVars, syncVars, closeVars,
                   boundVars, bgError, pending, applied, acked>>

\* activeWalFile_.sync: everything in the open file is on the medium.
CommitSync ==
    /\ svc = "sync"
    /\ walSynced' = walSynced \cup {g \in walFrames : g.wal = walFileId}
    /\ svc' = "publish"
    /\ UNCHANGED <<disk, walFiles, walFrames, memVars, seqVars, group, target,
                   walFileId, stopVars, writerVars, flushVars, syncVars, closeVars,
                   boundVars, bgError, pending, applied, acked>>

\* Opening, appending or syncing fails.  A failed append may have written any
\* part of the group.
CommitFails ==
    /\ svc \in {"open", "append", "sync"}
    /\ svc = "open" => walFileId # manifest.activeWalId
    /\ faults < MaxFaults
    /\ \E part \in SUBSET group :
          /\ part # {} => svc = "append"
          /\ walFrames' = walFrames \cup {InWal(walFileId, f) : f \in part}
    /\ faults' = faults + 1
    /\ svc' = "fail"
    /\ UNCHANGED <<disk, walFiles, walSynced, memVars, seqVars, group, target,
                   walFileId, stopVars, writerVars, flushVars, syncVars, closeVars,
                   crashes, closes, bgError, pending, applied, acked>>

\* commitWriteRequests_, last critical section.
CommitPublish ==
    /\ svc = "publish"
    /\ lastDurable' = Max({lastDurable, target})
    /\ svc' = "finalize"
    /\ UNCHANGED <<diskVars, memVars, nextSequence, lastVisible, group, target,
                   walFileId, stopVars, writerVars, flushVars, syncVars, closeVars,
                   boundVars, bgError, pending, applied, acked>>

\* The writers blocked on a request of the given set.
Waiting(requests) == {w \in Writers : pc[w] = "wait" /\ req[w] \in requests}

\* finalizeWriteRequests_ after a success: every waiter of the group returns Ok.
FinalizeOk ==
    /\ svc = "finalize"
    /\ acked' = acked \cup {req[w] : w \in Waiting(group)}
    /\ pc' = [w \in Writers |-> IF w \in Waiting(group) THEN "idle" ELSE pc[w]]
    /\ group' = {}
    /\ svc' = "drain"
    /\ UNCHANGED <<diskVars, memVars, seqVars, target, walFileId, stopVars, req,
                   flushVars, syncVars, closeVars, boundVars, bgError, pending, applied>>

\* finalizeWriteRequests_ after a failure: the error sticks, the waiters of the
\* group return it, and the loop is left.
FinalizeError ==
    /\ svc = "fail"
    /\ bgError' = TRUE
    /\ pc' = [w \in Writers |-> IF w \in Waiting(group) THEN "idle" ELSE pc[w]]
    /\ group' = {}
    /\ svc' = "left"
    /\ UNCHANGED <<diskVars, memVars, seqVars, target, walFileId, stopVars, req,
                   flushVars, syncVars, closeVars, boundVars, pending, applied, acked>>

----------------------------------------------------------------------------
(* Flushing memtables to tables.                                           *)

\* Faulty variant: only the journal of the memtable being filled is protected.
ReplayFrom_IgnoresImmutables(active, mut, imms) == Min({active, mut.walId})

\* The oldest journal that still holds data no table covers.
ReplayFrom(active, mut, imms) ==
    Min({active, mut.walId} \cup {imms[i].walId : i \in DOMAIN imms})

\* cleanupCoveredWalFilesLocked: the WAL files left after the cleanup.
KeptWalFiles(files, from, openId) == {i \in files : i >= from \/ i = openId}

\* Faulty variant: the watermark is the flushed memtable's, even if it is lower.
WithTable_LastSequence(mem) ==
    [manifest EXCEPT
        !.maxSequence = mem.maxSeq,
        !.replayFromWalId = ReplayFrom(manifest.activeWalId, mutable, immutables),
        !.tables = [k \in Keys |-> Newer(manifest.tables[k], mem.primary[k])]]

\* flushMemTable_, under the lock: the manifest with the new table in it.
WithTable(mem) ==
    [manifest EXCEPT
        !.maxSequence = Max({manifest.maxSequence, mem.maxSeq}),
        !.replayFromWalId = ReplayFrom(manifest.activeWalId, mutable, immutables),
        !.tables = [k \in Keys |-> Newer(manifest.tables[k], mem.primary[k])]]

\* persistManifestLocked_ succeeds for m, and what it does when it fails: the
\* manifest file may already have been replaced, which is enough when CURRENT
\* names that very file.
PersistOk(m)   == disk' = m /\ inPlace' = FALSE
PersistFail(m) == /\ faults < MaxFaults
                  /\ faults' = faults + 1
                  /\ disk' \in {disk} \cup (IF inPlace THEN {m} ELSE {})
                  /\ UNCHANGED inPlace

RemoveWalFiles(files) ==
    /\ walFiles' = files
    /\ walFrames' = {g \in walFrames : g.wal \in files}
    /\ walSynced' = {g \in walSynced : g.wal \in files}

\* flushBackground_, top of the loop: copy the oldest immutable memtable, which
\* stays in immutables_ while its table is written.
FlushPick ==
    /\ flushPc = "pick"
    /\ \/ /\ immutables = <<>> \/ life = "closing"
          /\ flushPc' = "idle"
          /\ UNCHANGED flushMem
       \/ /\ immutables # <<>> /\ life # "closing"
          /\ flushPc' = "write"
          /\ flushMem' = Head(immutables)
    /\ UNCHANGED <<diskVars, memVars, seqVars, svcVars, stopVars, writerVars, syncVars,
                   closeVars, boundVars, bgError, pending, applied, acked>>

\* writeTableFile_ (temporary file, fsync, rename) and opening the table.
FlushWriteTable ==
    /\ flushPc = "write"
    /\ flushPc' = "install"
    /\ UNCHANGED <<diskVars, memVars, seqVars, svcVars, stopVars, writerVars, flushMem,
                   syncVars, closeVars, boundVars, bgError, pending, applied, acked>>

\* flushMemTable_, final critical section: install the table, persist the
\* manifest and, unless the database is closing, delete the covered journals.
FlushInstall ==
    LET m == WithTable(flushMem)
    IN  /\ flushPc = "install"
        /\ PersistOk(m)
        /\ manifest' = m
        /\ flushPc' = "remove"
        /\ IF life = "closing" THEN UNCHANGED <<walFiles, walFrames, walSynced>>
           ELSE RemoveWalFiles(KeptWalFiles(walFiles, m.replayFromWalId, walFileId))
        /\ UNCHANGED <<mutable, immutables, seqVars, svcVars, stopVars, writerVars,
                       flushMem, syncVars, closeVars, boundVars, bgError, pending,
                       applied, acked>>

\* The table cannot be written, or the manifest cannot be persisted and is
\* rolled back.  The memtable stays; the next rotation schedules it again.
FlushFails ==
    /\ flushPc' = "idle"
    /\ \/ /\ flushPc = "write"
          /\ faults < MaxFaults
          /\ faults' = faults + 1
          /\ UNCHANGED <<disk, inPlace>>
       \/ /\ flushPc = "install"
          /\ PersistFail(WithTable(flushMem))
    /\ UNCHANGED <<walFiles, walFrames, walSynced, manifest, mutable, immutables,
                   seqVars, svcVars, stopVars, writerVars, flushMem, syncVars,
                   closeVars, crashes, closes, bgError, pending, applied, acked>>

\* Faulty variant: the job ends after one memtable.
FlushRemove_OnlyOne ==
    /\ flushPc = "remove"
    /\ flushPc' = "idle"
    /\ immutables' = IF immutables = <<>> THEN <<>> ELSE Tail(immutables)
    /\ UNCHANGED <<diskVars, manifest, inPlace, mutable, seqVars, svcVars, stopVars,
                   writerVars, flushMem, syncVars, closeVars, boundVars, bgError,
                   pending, applied, acked>>

\* flushBackground_, after a success: drop the memtable if it is still first.
FlushRemove ==
    /\ flushPc = "remove"
    /\ flushPc' = "pick"
    /\ immutables' = IF /\ immutables # <<>>
                        /\ Head(immutables).walId = flushMem.walId
                        /\ Head(immutables).maxSeq = flushMem.maxSeq
                     THEN Tail(immutables) ELSE immutables
    /\ UNCHANGED <<diskVars, manifest, inPlace, mutable, seqVars, svcVars, stopVars,
                   writerVars, flushMem, syncVars, closeVars, boundVars, bgError,
                   pending, applied, acked>>

----------------------------------------------------------------------------
(* sync(): syncInternal_.                                                  *)

\* The call, or the rest of it: either everything visible is already durable or
\* it waits for lastDurable to reach what was visible.
SyncCall(s) ==
    /\ syncPc[s] = "idle"
    /\ life = "open"
    /\ ~bgError
    /\ \/ /\ lastDurable >= lastVisible /\ pending = {}
          /\ promised' = promised \cup applied
          /\ UNCHANGED <<syncPc, syncTarget, want>>
       \/ /\ lastDurable < lastVisible \/ pending # {}
          /\ syncPc' = [syncPc EXCEPT ![s] = "wait"]
          /\ syncTarget' = [syncTarget EXCEPT ![s] = lastVisible]
          /\ want' = [want EXCEPT ![s] = applied]
          /\ UNCHANGED promised
    /\ UNCHANGED <<diskVars, memVars, seqVars, svcVars, stopVars, writerVars, flushVars,
                   closeVars, boundVars, bgError, pending, applied, acked>>

\* The wait ends: with success, or with an error when the service failed or
\* stopped before reaching the target.
SyncReturn(s) ==
    /\ syncPc[s] = "wait"
    /\ \/ bgError
       \/ lastDurable >= syncTarget[s]
       \/ svcStopped /\ pending = {}
    /\ syncPc' = [syncPc EXCEPT ![s] = "idle"]
    /\ want' = [want EXCEPT ![s] = {}]
    /\ promised' = IF ~bgError /\ lastDurable >= syncTarget[s]
                   THEN promised \cup want[s] ELSE promised
    /\ UNCHANGED <<diskVars, memVars, seqVars, svcVars, stopVars, writerVars, flushVars,
                   syncTarget, closeVars, boundVars, bgError, pending, applied, acked>>

----------------------------------------------------------------------------
(* close().                                                                *)

CloseBegin ==
    /\ life = "open"
    /\ closes < MaxCloses
    /\ closes' = closes + 1
    /\ life' = "closing"
    /\ closePc' = "sync"
    /\ UNCHANGED <<diskVars, memVars, seqVars, svcVars, stopVars, writerVars, flushVars,
                   syncVars, closeMem, crashes, faults, bgError, pending, applied, acked>>

\* syncInternal_(true), then writeServiceStop_ is set by stopWriteService_.
\* lastVisible cannot move while the database is closing, so the target that
\* syncInternal_ recorded is lastVisible itself.
CloseStopService ==
    /\ closePc = "sync"
    /\ bgError \/ lastDurable >= lastVisible
    /\ svcStop' = TRUE
    /\ closePc' = "join"
    /\ UNCHANGED <<diskVars, memVars, seqVars, svcVars, svcStopped, writerVars,
                   flushVars, syncVars, life, closeMem, boundVars, bgError, pending,
                   applied, acked>>

\* stopWriteService_: the thread is joined.
CloseJoin ==
    /\ closePc = "join"
    /\ svc = "left"
    /\ svcStop' = FALSE
    /\ svcStopped' = TRUE
    /\ closePc' = "drain"
    /\ UNCHANGED <<diskVars, memVars, seqVars, svcVars, writerVars, flushVars, syncVars,
                   life, closeMem, boundVars, bgError, pending, applied, acked>>

\* Faulty variant: the queue is cleared without telling the writers.
CloseDrain_Silent ==
    /\ closePc = "drain"
    /\ pending' = {}
    /\ closePc' = "take"
    /\ UNCHANGED <<diskVars, memVars, seqVars, svcVars, stopVars, writerVars, flushVars,
                   syncVars, life, closeMem, boundVars, bgError, applied, acked>>

\* drainPendingWrites: requests the service never took return an error.
CloseDrain ==
    /\ closePc = "drain"
    /\ pc' = [w \in Writers |-> IF w \in Waiting(pending) THEN "idle" ELSE pc[w]]
    /\ pending' = {}
    /\ closePc' = "take"
    /\ UNCHANGED <<diskVars, memVars, seqVars, svcVars, stopVars, req, flushVars,
                   syncVars, life, closeMem, boundVars, bgError, applied, acked>>

\* mergeMemTablesForFlush_: the newest record of every key, the oldest journal,
\* the largest sequence.  (The merged memtable is never filled: no byte count.)
MergedMems(parts) ==
    {mem \in [walId   : {p.walId : p \in parts},
              maxSeq  : {p.maxSeq : p \in parts},
              bytes   : {0},
              primary : [Keys -> UNION {{p.primary[k] : k \in Keys} : p \in parts}]] :
        /\ \A p \in parts : mem.walId <= p.walId /\ p.maxSeq <= mem.maxSeq
        /\ \A k \in Keys : /\ \E p \in parts : mem.primary[k] = p.primary[k]
                           /\ \A p \in parts : p.primary[k].seq <= mem.primary[k].seq}

\* Faulty variant: only the memtable being filled is flushed.
UnflushedMems_MutableOnly == IF IsEmptyMem(mutable) THEN {} ELSE {mutable}

\* The memtables close() has to flush.
UnflushedMems == {immutables[i] : i \in DOMAIN immutables}
                 \cup (IF IsEmptyMem(mutable) THEN {} ELSE {mutable})

\* flushAllSync_, first critical section: take every memtable, or just persist
\* the manifest (its outcome is ignored) when there is nothing to flush.
CloseTake ==
    /\ closePc = "take"
    /\ immutables' = <<>>
    /\ mutable' = EmptyMem(manifest.activeWalId)
    /\ \/ /\ UnflushedMems # {}
          /\ \E mem \in MergedMems(UnflushedMems) : closeMem' = mem
          /\ closePc' = "install"
          /\ UNCHANGED <<disk, inPlace, faults>>
       \/ /\ UnflushedMems = {}
          /\ \/ PersistOk(manifest) /\ UNCHANGED faults
             \/ PersistFail(manifest)
          /\ closePc' = "pool"
          /\ UNCHANGED closeMem
    /\ UNCHANGED <<walFiles, walFrames, walSynced, manifest, seqVars, svcVars, stopVars,
                   writerVars, flushVars, syncVars, life, crashes, closes, bgError,
                   pending, applied, acked>>

\* flushAllSync_: flushMemTable_ of the merged memtable.  closing_ is set, so no
\* journal is deleted.
CloseInstall ==
    LET m == WithTable(closeMem)
    IN  /\ closePc = "install"
        /\ PersistOk(m)
        /\ manifest' = m
        /\ closePc' = "pool"
        /\ UNCHANGED <<walFiles, walFrames, walSynced, mutable, immutables, seqVars,
                       svcVars, stopVars, writerVars, flushVars, syncVars, life,
                       closeMem, boundVars, bgError, pending, applied, acked>>

\* The final flush fails: logged, and close() goes on.
CloseInstallFails ==
    /\ closePc = "install"
    /\ \/ PersistFail(WithTable(closeMem))
       \/ /\ faults < MaxFaults
          /\ faults' = faults + 1
          /\ UNCHANGED <<disk, inPlace>>
    /\ closePc' = "pool"
    /\ UNCHANGED <<walFiles, walFrames, walSynced, manifest, mutable, immutables,
                   seqVars, svcVars, stopVars, writerVars, flushVars, syncVars, life,
                   closeMem, crashes, closes, bgError, pending, applied, acked>>

\* What the process forgets when it dies or resetState() runs.
ForgetState ==
    /\ life' = "closed"
    /\ closePc' = "idle" /\ closeMem' = EmptyMem(0)
    /\ manifest' = NewManifest /\ inPlace' = FALSE
    /\ mutable' = EmptyMem(0) /\ immutables' = <<>>
    /\ nextSequence' = 1 /\ lastVisible' = 0 /\ lastDurable' = 0
    /\ bgError' = FALSE
    /\ pending' = {} /\ group' = {} /\ target' = 0
    /\ svc' = "left" /\ svcStop' = FALSE /\ svcStopped' = FALSE
    /\ walFileId' = 0
    /\ flushPc' = "idle" /\ flushMem' = EmptyMem(0)

\* The background worker is idle: close() ends with resetState().  No call of
\* the application is still inside the object (see the README).
CloseReset ==
    /\ closePc = "pool"
    /\ flushPc = "idle"
    /\ \A w \in Writers : pc[w] = "idle"
    /\ \A s \in Syncers : syncPc[s] = "idle"
    /\ ForgetState
    /\ UNCHANGED <<diskVars, writerVars, syncVars, boundVars, applied, acked>>

----------------------------------------------------------------------------
(* Crash and recovery.                                                     *)

\* The process dies at any point.  A process crash leaves the page cache to the
\* system; a power failure keeps what was synced and any part of the rest (a
\* torn frame fails its CRC, and replay resynchronises on the next one).
Crash(kind) ==
    /\ life # "closed"
    /\ crashes < MaxCrashes
    /\ crashes' = crashes + 1
    /\ \/ kind = "process" /\ UNCHANGED <<walFrames, walSynced>>
       \/ /\ kind = "power"
          /\ \E kept \in SUBSET (walFrames \ walSynced) :
                /\ walFrames' = walSynced \cup kept
                /\ walSynced' = walSynced \cup kept
    /\ ForgetState
    /\ pc' = [w \in Writers |-> "idle"]
    /\ syncPc' = [s \in Syncers |-> "idle"]
    /\ want' = [s \in Syncers |-> {}]
    /\ applied' = {}
    /\ UNCHANGED <<disk, walFiles, req, syncTarget, promised, acked, faults, closes>>

\* Faulty variant: journals older than the active one are not replayed.
Replayed_ActiveOnly(m, frames) ==
    {g \in frames : g.wal >= m.activeWalId /\ g.seq > m.maxSequence}

\* replayWalLocked / replayWalFileLocked: the frames that are applied again.
Replayed(m, frames) ==
    {g \in frames : g.wal >= m.replayFromWalId /\ g.seq > m.maxSequence}

\* The records replay may leave in the memtable: the newest of each key.
ReplayedRecords(frames) ==
    {r \in [Keys -> {NoRecord} \cup [seq : {g.seq : g \in frames}, del : BOOLEAN]] :
        \A k \in Keys :
            LET of_k == {g \in frames : k \in DOMAIN g.batch}
            IN  IF of_k = {} THEN r[k] = NoRecord
                ELSE \E g \in of_k : /\ r[k] = [seq |-> g.seq, del |-> g.batch[k]]
                                     /\ \A h \in of_k : h.seq <= g.seq}

\* open(): load the manifest CURRENT names, replay, normalise the ids, open the
\* active journal, start the service thread, delete the covered journals.
Open ==
    LET frames == Replayed(disk, walFrames)
    IN  /\ life = "closed"
        /\ life' = "open"
        /\ \E top \in {disk.maxSequence} \cup {g.seq : g \in frames},
              oldest \in {disk.activeWalId} \cup {g.wal : g \in frames},
              lastFile \in {0} \cup walFiles,
              records \in ReplayedRecords(frames) :
              LET active == Max({disk.activeWalId, IF lastFile = 0 THEN 1 ELSE lastFile})
                  from   == Min({active, oldest})
              IN  /\ IsMax(top, {disk.maxSequence} \cup {g.seq : g \in frames})
                  /\ IsMin(oldest, {disk.activeWalId} \cup {g.wal : g \in frames})
                  /\ IsMax(lastFile, {0} \cup walFiles)
                  /\ mutable' = [walId   |-> oldest,
                                 maxSeq  |-> IF frames = {} THEN 0 ELSE top,
                                 bytes   |-> Cardinality({op \in frames \X Keys :
                                                  op[2] \in DOMAIN op[1].batch}),
                                 primary |-> records]
                  /\ manifest' = [disk EXCEPT !.activeWalId = active,
                                              !.nextWalId = Max({@, lastFile + 1}),
                                              !.replayFromWalId = from]
                  /\ nextSequence' = top + 1 /\ lastVisible' = top /\ lastDurable' = top
                  /\ walFileId' = active
                  /\ RemoveWalFiles(KeptWalFiles(walFiles \cup {active}, from, active))
        /\ inPlace' = TRUE
        /\ immutables' = <<>>
        /\ svc' = "drain" /\ svcStop' = FALSE /\ svcStopped' = FALSE
        /\ applied' = {FrameOf(g) : g \in frames}
        /\ UNCHANGED <<disk, bgError, pending, group, target, writerVars, flushVars,
                       syncVars, closePc, closeMem, boundVars, acked>>

----------------------------------------------------------------------------

\* The directory of an empty database, created and closed earlier.
Init ==
    /\ disk = NewManifest
    /\ walFiles = {1} /\ walFrames = {} /\ walSynced = {}
    /\ life = "closed" /\ closePc = "idle" /\ closeMem = EmptyMem(0)
    /\ manifest = NewManifest /\ inPlace = FALSE
    /\ mutable = EmptyMem(0) /\ immutables = <<>>
    /\ nextSequence = 1 /\ lastVisible = 0 /\ lastDurable = 0
    /\ bgError = FALSE
    /\ pending = {} /\ group = {} /\ target = 0
    /\ svc = "left" /\ svcStop = FALSE /\ svcStopped = FALSE
    /\ walFileId = 0
    /\ pc = [w \in Writers |-> "idle"]
    /\ req = [w \in Writers |-> [seq |-> 0, batch |-> CHOOSE b \in Batches : TRUE]]
    /\ flushPc = "idle" /\ flushMem = EmptyMem(0)
    /\ syncPc = [s \in Syncers |-> "idle"]
    /\ syncTarget = [s \in Syncers |-> 0]
    /\ want = [s \in Syncers |-> {}]
    /\ applied = {} /\ acked = {} /\ promised = {}
    /\ crashes = 0 /\ faults = 0 /\ closes = 0

WriterStep(w) == RejectWrite(w) \/ ApplyEnqueue(w)
ServiceStep == \/ ServiceDrain \/ ServiceStop \/ CommitOpenWal \/ CommitAppend
               \/ CommitSync \/ CommitFails \/ CommitPublish
               \/ FinalizeOk \/ FinalizeError
FlushStep == FlushPick \/ FlushWriteTable \/ FlushInstall \/ FlushFails \/ FlushRemove
CloseStep == \/ CloseStopService \/ CloseJoin \/ CloseDrain \/ CloseTake
             \/ CloseInstall \/ CloseInstallFails \/ CloseReset

Next ==
    \/ \E w \in Writers, b \in Batches : BeginWrite(w, b)
    \/ \E w \in Writers : WriterStep(w)
    \/ ServiceStep
    \/ FlushStep
    \/ \E s \in Syncers : SyncCall(s) \/ SyncReturn(s)
    \/ CloseBegin \/ CloseStep
    \/ \E kind \in CrashKinds : Crash(kind)
    \/ Open

Spec == Init /\ [][Next]_vars

\* Threads keep running while the process lives: nothing else is assumed.  In
\* particular neither a crash, a close nor a new call has to happen.
Fairness ==
    /\ \A w \in Writers : WF_vars(WriterStep(w))
    /\ WF_vars(ServiceStep)
    /\ WF_vars(FlushStep)
    /\ \A s \in Syncers : WF_vars(SyncReturn(s))
    /\ WF_vars(CloseStep)

FairSpec == Spec /\ Fairness

----------------------------------------------------------------------------
(* Properties.                                                             *)

\* Type correctness of the whole state.
TypeOK ==
    /\ disk \in Manifest /\ manifest \in Manifest
    /\ walFiles \subseteq Nat
    /\ walFrames \subseteq WalFrame /\ walSynced \subseteq walFrames
    /\ IsFiniteSet(walFrames) /\ IsFiniteSet(pending) /\ IsFiniteSet(group)
    /\ life \in {"open", "closing", "closed"}
    /\ inPlace \in BOOLEAN
    /\ mutable \in MemTable /\ immutables \in Seq(MemTable)
    /\ nextSequence \in Nat /\ lastVisible \in Nat /\ lastDurable \in Nat
    /\ bgError \in BOOLEAN
    /\ pending \subseteq Frame /\ group \subseteq Frame /\ target \in Nat
    /\ svc \in {"drain", "open", "append", "sync", "publish", "finalize", "fail", "left"}
    /\ svcStop \in BOOLEAN /\ svcStopped \in BOOLEAN
    /\ walFileId \in Nat
    /\ pc \in [Writers -> {"idle", "encode", "wait"}] /\ req \in [Writers -> Frame]
    /\ flushPc \in {"idle", "pick", "write", "install", "remove"} /\ flushMem \in MemTable
    /\ syncPc \in [Syncers -> {"idle", "wait"}] /\ syncTarget \in [Syncers -> Nat]
    /\ closePc \in {"idle", "sync", "join", "drain", "take", "install", "pool"}
    /\ closeMem \in MemTable
    /\ applied \subseteq Frame /\ acked \subseteq Frame
    /\ want \in [Syncers -> SUBSET Frame] /\ promised \subseteq Frame
    /\ crashes \in Nat /\ faults \in Nat /\ closes \in Nat

\* If the power failed now, would the next open() show write f, or a newer write
\* of the same keys?
Recoverable(f) ==
    \A k \in DOMAIN f.batch :
        \/ disk.tables[k].seq >= f.seq
        \/ \E g \in Replayed(disk, walSynced) : k \in DOMAIN g.batch /\ g.seq >= f.seq

\* Is write f, or a newer write of the same keys, in a table or in a synced frame
\* of a journal that the persisted manifest still asks to replay?
Logged(f) ==
    \A k \in DOMAIN f.batch :
        \/ disk.tables[k].seq >= f.seq
        \/ \E g \in walSynced : /\ g.wal >= disk.replayFromWalId
                               /\ k \in DOMAIN g.batch
                               /\ g.seq >= f.seq

\* While the database is open no flush, journal switch or journal cleanup drops the
\* last durable copy of a write() that returned success, however writers, the
\* service thread and the flush interleave.
AckedLogged == life = "open" => \A f \in acked : Logged(f)

\* A write() that returned success with lazyWrite = false survives every crash.
AckedSurvives == \A f \in acked : Recoverable(f)

\* What was visible when a successful sync() was called survives every crash.
SyncedSurvives == \A f \in promised : Recoverable(f)

\* A close() that ran to its end left everything that was visible on disk.
CloseKeepsWrites == life = "closed" => \A f \in applied : Recoverable(f)

\* While the database is open a lookup returns, for every key, the write with the
\* highest sequence among all those applied, whatever the order in which
\* concurrent writers applied them and whatever the flush is doing.
LookupIsNewest ==
    life = "open" =>
        \A k \in Keys :
            /\ \A f \in applied : k \in DOMAIN f.batch => f.seq <= Lookup(k).seq
            /\ mutable.primary[k].seq <= Lookup(k).seq
            /\ \A i \in DOMAIN immutables : immutables[i].primary[k].seq <= Lookup(k).seq
            /\ manifest.tables[k].seq <= Lookup(k).seq

\* Why that holds, as an inductive invariant.  Sequences recorded as covered bound
\* the records they cover, in memory and in the tables;
MemBounded(mem) == \A k \in Keys : mem.primary[k].seq <= mem.maxSeq

RecordsBounded ==
    /\ MemBounded(mutable) /\ MemBounded(flushMem) /\ MemBounded(closeMem)
    /\ \A i \in DOMAIN immutables : MemBounded(immutables[i])
    /\ \A k \in Keys : /\ disk.tables[k].seq <= disk.maxSequence
                       /\ manifest.tables[k].seq <= manifest.maxSequence

\* a layer that holds a key is not older than any layer below it;
LayersOrdered ==
    \A k \in Keys :
        /\ mutable.primary[k].seq # 0 =>
              /\ manifest.tables[k].seq <= mutable.primary[k].seq
              /\ \A i \in DOMAIN immutables :
                    immutables[i].primary[k].seq <= mutable.primary[k].seq
        /\ \A i \in DOMAIN immutables :
              immutables[i].primary[k].seq # 0 =>
                 /\ manifest.tables[k].seq <= immutables[i].primary[k].seq
                 /\ \A j \in DOMAIN immutables :
                       j < i => immutables[j].primary[k].seq <= immutables[i].primary[k].seq

\* the flush works on the oldest immutable memtable, and drops it only when its
\* records are in the tables;
FlushHoldsOldest ==
    flushPc \in {"write", "install", "remove"} =>
        /\ immutables # <<>>
        /\ flushMem = Head(immutables)
        /\ flushPc = "remove" =>
              \A k \in Keys : flushMem.primary[k].seq <= manifest.tables[k].seq

\* and what was applied is in some layer.
AppliedHeld ==
    \A f \in applied : \A k \in DOMAIN f.batch :
        \/ f.seq <= mutable.primary[k].seq
        \/ \E i \in DOMAIN immutables : f.seq <= immutables[i].primary[k].seq
        \/ f.seq <= manifest.tables[k].seq

LayerInv ==
    /\ RecordsBounded
    /\ closePc # "idle" => life = "closing"
    /\ life = "closed" => flushPc = "idle"
    /\ life = "open" => LayersOrdered /\ FlushHoldsOldest /\ AppliedHeld

\* The persisted log position and watermark never move backwards.
DiskMonotone == [][/\ disk'.maxSequence >= disk.maxSequence
                   /\ disk'.replayFromWalId >= disk.replayFromWalId]_vars

\* A write() that waits for durability returns, as long as no I/O call fails: a
\* request that arrives during a commit that fails is never drained.
WriterReturns == \A w \in Writers : pc[w] = "wait" ~> pc[w] = "idle" \/ faults > 0

\* A close() that was called ends, also after an I/O failure left requests behind.
CloseEnds == life = "closing" ~> life = "closed"

\* Every full memtable reaches a table, as long as no I/O call fails: nothing
\* schedules a failed flush again before the next rotation.
MemTablesFlushed == immutables # <<>> ~> immutables = <<>> \/ faults > 0
=============================================================================
