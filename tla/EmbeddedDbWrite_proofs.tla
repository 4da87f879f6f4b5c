------------------------ MODULE EmbeddedDbWrite_proofs ------------------------
(***************************************************************************)
(* Proofs about EmbeddedDbWrite, for every value of its constants.          *)
(***************************************************************************)
EXTENDS EmbeddedDbWrite, OrderTheorems, FiniteSetTheorems

\* The definitions every step of a preservation proof has to see through.
USE DEF diskVars, memVars, seqVars, svcVars, stopVars, writerVars, flushVars,
        syncVars, closeVars, boundVars

----------------------------------------------------------------------------
(* What the helper operators return.                                       *)

\* Absent records, the empty memtable and the first manifest have their types.
LEMMA EmptyTypes ==
    /\ \A w \in Nat : EmptyMem(w) \in MemTable
    /\ NewManifest \in Manifest
    /\ <<>> \in Seq(MemTable)
    /\ IsFiniteSet({})
  BY FS_EmptySet DEF EmptyMem, NoRecords, NoRecord, NewManifest, MemTable, Manifest, Record

\* The memtable left by applyBatchLockedMutable.
LEMMA ApplyBatchType ==
    ASSUME TypeOK, NEW f \in Frame
    PROVE  ApplyBatch(mutable, f) \in MemTable
<1> DEFINE fresh == {k \in DOMAIN f.batch : ~Superseded(k, f.seq)}
<1>1. /\ DOMAIN f.batch \subseteq Keys
      /\ \A k \in DOMAIN f.batch : f.batch[k] \in BOOLEAN
  BY BatchesAssumption DEF Frame
<1>2. Cardinality(fresh) \in Nat
  <2>1. fresh \in SUBSET Keys
    BY <1>1
  <2> HIDE DEF fresh
  <2> QED BY <2>1, KeysAssumption, FS_Subset, FS_CardinalityType
<1>3. CoveredWal(mutable) \in Nat
  BY DEF CoveredWal, TypeOK, MemTable, Manifest
<1>4. Max({mutable.maxSeq, f.seq}) \in Nat
  <2>1. mutable.maxSeq \in Nat /\ f.seq \in Nat
    BY DEF TypeOK, MemTable, Frame
  <2> QED BY <2>1, PairBounds
<1>5. [k \in Keys |-> IF k \in fresh THEN [seq |-> f.seq, del |-> f.batch[k]]
                                     ELSE mutable.primary[k]] \in [Keys -> Record]
  BY <1>1 DEF TypeOK, MemTable, Record, Frame
<1>6. mutable.bytes + Cardinality(fresh) \in Nat
  <2>1. mutable.bytes \in Nat
    BY DEF TypeOK, MemTable
  <2> HIDE DEF fresh
  <2> QED BY <1>2, <2>1
<1> HIDE DEF fresh
<1>7. [walId |-> CoveredWal(mutable), maxSeq |-> Max({mutable.maxSeq, f.seq}),
       bytes |-> mutable.bytes + Cardinality(fresh),
       primary |-> [k \in Keys |-> IF k \in fresh
                                   THEN [seq |-> f.seq, del |-> f.batch[k]]
                                   ELSE mutable.primary[k]]] \in MemTable
  BY <1>3, <1>4, <1>5, <1>6 DEF MemTable
<1> QED BY <1>7 DEF ApplyBatch, fresh

\* The oldest journal to replay: a lower bound of the journals in use.
LEMMA ReplayFromBounds ==
    ASSUME TypeOK
    PROVE  LET from == ReplayFrom(manifest.activeWalId, mutable, immutables)
           IN  /\ from \in Nat
               /\ from <= manifest.activeWalId /\ from <= mutable.walId
               /\ \A i \in DOMAIN immutables : from <= immutables[i].walId
<1> DEFINE S == {manifest.activeWalId, mutable.walId}
                 \cup {immutables[i].walId : i \in DOMAIN immutables}
<1>1. S \in SUBSET Nat /\ S # {}
  <2>1. \A i \in DOMAIN immutables : immutables[i] \in MemTable
    BY SeqElements DEF TypeOK
  <2>2. manifest.activeWalId \in Nat /\ mutable.walId \in Nat
    BY DEF TypeOK, MemTable, Manifest
  <2> QED BY <2>1, <2>2 DEF MemTable
<1>2. Min(S) \in S /\ \A y \in S : Min(S) <= y
  <2> HIDE DEF S
  <2> QED BY <1>1, MinBounds
<1> QED BY <1>1, <1>2 DEF ReplayFrom

\* The manifest flushMemTable_ installs.
LEMMA WithTableType ==
    ASSUME TypeOK, NEW mem \in MemTable
    PROVE  WithTable(mem) \in Manifest
<1>1. Max({manifest.maxSequence, mem.maxSeq}) \in Nat
  <2>1. manifest.maxSequence \in Nat /\ mem.maxSeq \in Nat
    BY DEF TypeOK, MemTable, Manifest
  <2> QED BY <2>1, PairBounds
<1>2. ReplayFrom(manifest.activeWalId, mutable, immutables) \in Nat
  BY ReplayFromBounds
<1>3. [k \in Keys |-> Newer(manifest.tables[k], mem.primary[k])] \in [Keys -> Record]
  BY DEF TypeOK, Newer, MemTable, Manifest
<1> QED BY <1>1, <1>2, <1>3 DEF WithTable, TypeOK, Manifest

\* The frames of a group written to one journal are finitely many frames.
LEMMA InWalFinite ==
    ASSUME NEW S \in SUBSET Frame, IsFiniteSet(S), NEW w \in Nat
    PROVE  /\ {InWal(w, f) : f \in S} \subseteq WalFrame
           /\ IsFiniteSet({InWal(w, f) : f \in S})
<1> DEFINE T == {InWal(w, f) : f \in S}
           F == [f \in S |-> InWal(w, f)]
<1>1. F \in Surjection(S, T)
  BY DEF Surjection
<1>2. IsFiniteSet(T)
  <2> HIDE DEF F, T
  <2> QED BY <1>1, FS_Surjection
<1>3. T \subseteq WalFrame
  BY DEF InWal, Frame, WalFrame
<1> QED BY <1>2, <1>3

----------------------------------------------------------------------------
(* Type correctness.                                                       *)

\* Each action in turn: the whole state keeps its type.
LEMMA TypeStep == TypeOK /\ [Next]_vars => TypeOK'
<1> SUFFICES ASSUME TypeOK, [Next]_vars PROVE TypeOK'
  OBVIOUS
<1>stutter. CASE UNCHANGED vars
  BY <1>stutter DEF TypeOK, vars
<1>begin. ASSUME NEW w \in Writers, NEW b \in Batches, BeginWrite(w, b) PROVE TypeOK'
  BY <1>begin DEF TypeOK, BeginWrite, Frame
<1>reject. ASSUME NEW w \in Writers, RejectWrite(w) PROVE TypeOK'
  BY <1>reject DEF TypeOK, RejectWrite
<1>apply. ASSUME NEW w \in Writers, ApplyEnqueue(w) PROVE TypeOK'
  <2> DEFINE mem == ApplyBatch(mutable, req[w])
  <2>1. req[w] \in Frame /\ mem \in MemTable
    BY ApplyBatchType DEF TypeOK
  <2>2. /\ manifest' \in Manifest /\ mutable' \in MemTable
        /\ immutables' \in Seq(MemTable)
    <3> HIDE DEF mem
    <3>1. StoreOrRotate(mem)
      BY <1>apply DEF ApplyEnqueue, mem
    <3>2. /\ EmptyMem(manifest.nextWalId) \in MemTable
          /\ [manifest EXCEPT !.activeWalId = manifest.nextWalId,
                              !.nextWalId = @ + 1] \in Manifest
      <4>1. /\ manifest \in Manifest
            /\ manifest.nextWalId \in Nat /\ manifest.nextWalId + 1 \in Nat
        BY DEF TypeOK, Manifest
      <4>2. EmptyMem(manifest.nextWalId) \in MemTable
        BY <4>1, EmptyTypes
      <4>3. [manifest EXCEPT !.activeWalId = manifest.nextWalId,
                             !.nextWalId = manifest.nextWalId + 1] \in Manifest
        BY <4>1 DEF Manifest
      <4> QED BY <4>2, <4>3
    <3>3. Append(immutables, mem) \in Seq(MemTable)
      BY <2>1, AppendElements DEF TypeOK
    <3> QED BY <2>1, <3>1, <3>2, <3>3 DEF StoreOrRotate, TypeOK
  <2>3. Max({lastVisible, req[w].seq}) \in Nat
    <3>1. lastVisible \in Nat /\ req[w].seq \in Nat
      BY <2>1 DEF TypeOK, Frame
    <3> QED BY <3>1, PairBounds
  <2>4. lastVisible' \in Nat
    BY <2>3, <1>apply DEF ApplyEnqueue
  <2>5. pending' \subseteq Frame /\ applied' \subseteq Frame /\ IsFiniteSet(pending')
    <3>1. pending' = pending \cup {req[w]} /\ applied' = applied \cup {req[w]}
      BY <1>apply DEF ApplyEnqueue
    <3> QED BY <2>1, <3>1, FS_AddElement DEF TypeOK
  <2>6. /\ pc' \in [Writers -> {"idle", "encode", "wait"}]
        /\ flushPc' \in {"idle", "pick", "write", "install", "remove"}
    BY <1>apply DEF ApplyEnqueue, ScheduleFlush, TypeOK
  <2>7. UNCHANGED <<diskVars, inPlace, nextSequence, lastDurable, svcVars,
                    stopVars, req, flushMem, syncVars, closeVars, boundVars,
                    bgError, acked>>
    BY <1>apply DEF ApplyEnqueue
  <2> QED BY <2>2, <2>4, <2>5, <2>6, <2>7, SMTT(30) DEF TypeOK
<1>drain. ASSUME ServiceDrain PROVE TypeOK'
  BY <1>drain, EmptyTypes, SMTT(30) DEF TypeOK, ServiceDrain, IsMax, Frame
<1>stop. ASSUME ServiceStop PROVE TypeOK'
  BY <1>stop DEF TypeOK, ServiceStop
<1>open. ASSUME CommitOpenWal PROVE TypeOK'
  <2>1. manifest.activeWalId \in Nat
    BY DEF TypeOK, Manifest
  <2>2. walFiles' \subseteq Nat
    BY <1>open, <2>1 DEF TypeOK, CommitOpenWal
  <2> QED BY <1>open, <2>1, <2>2 DEF TypeOK, CommitOpenWal
<1>append. ASSUME CommitAppend PROVE TypeOK'
  <2>1. group \in SUBSET Frame /\ IsFiniteSet(group) /\ walFileId \in Nat
    BY DEF TypeOK
  <2>2. /\ walFrames' \subseteq WalFrame /\ IsFiniteSet(walFrames')
        /\ walSynced' \subseteq walFrames'
    BY <1>append, <2>1, InWalFinite, FS_Union DEF TypeOK, CommitAppend
  <2> QED BY <1>append, <2>2 DEF TypeOK, CommitAppend
<1>sync. ASSUME CommitSync PROVE TypeOK'
  BY <1>sync DEF TypeOK, CommitSync
<1>fails. ASSUME CommitFails PROVE TypeOK'
  <2>1. PICK part \in SUBSET group :
            walFrames' = walFrames \cup {InWal(walFileId, f) : f \in part}
    BY <1>fails DEF CommitFails
  <2>2. part \in SUBSET Frame /\ IsFiniteSet(part) /\ walFileId \in Nat
    BY FS_Subset DEF TypeOK
  <2>3. /\ walFrames' \subseteq WalFrame /\ IsFiniteSet(walFrames')
        /\ walSynced \subseteq walFrames'
    BY <2>1, <2>2, InWalFinite, FS_Union DEF TypeOK
  <2> QED BY <1>fails, <2>3 DEF TypeOK, CommitFails
<1>publish. ASSUME CommitPublish PROVE TypeOK'
  <2>1. Max({lastDurable, target}) \in Nat
    <3>1. lastDurable \in Nat /\ target \in Nat
      BY DEF TypeOK
    <3> QED BY <3>1, PairBounds
  <2> QED BY <1>publish, <2>1 DEF TypeOK, CommitPublish
<1>ok. ASSUME FinalizeOk PROVE TypeOK'
  BY <1>ok, EmptyTypes DEF TypeOK, FinalizeOk, Waiting
<1>error. ASSUME FinalizeError PROVE TypeOK'
  BY <1>error, EmptyTypes DEF TypeOK, FinalizeError, Waiting
<1>pick. ASSUME FlushPick PROVE TypeOK'
  <2>1. flushMem' \in MemTable
    BY <1>pick, TailElements DEF TypeOK, FlushPick
  <2> QED BY <1>pick, <2>1 DEF TypeOK, FlushPick
<1>table. ASSUME FlushWriteTable PROVE TypeOK'
  BY <1>table DEF TypeOK, FlushWriteTable
<1>install. ASSUME FlushInstall PROVE TypeOK'
  <2>1. WithTable(flushMem) \in Manifest
    BY WithTableType DEF TypeOK
  <2>2. /\ walFiles' \subseteq walFiles /\ walFrames' \subseteq walFrames
        /\ walSynced' \subseteq walFrames'
    BY <1>install DEF TypeOK, FlushInstall, RemoveWalFiles, KeptWalFiles
  <2>3. /\ IsFiniteSet(walFrames') /\ walFrames' \subseteq WalFrame
        /\ walFiles' \subseteq Nat
    BY <2>2, FS_Subset DEF TypeOK
  <2>4. /\ disk' = WithTable(flushMem) /\ manifest' = WithTable(flushMem)
        /\ inPlace' = FALSE /\ flushPc' = "remove"
        /\ UNCHANGED <<mutable, immutables, seqVars, svcVars, stopVars, writerVars,
                       flushMem, syncVars, closeVars, boundVars, bgError, pending,
                       applied, acked>>
    BY <1>install DEF FlushInstall, PersistOk
  <2> QED BY <2>1, <2>2, <2>3, <2>4, ZenonT(60) DEF TypeOK
<1>flushFails. ASSUME FlushFails PROVE TypeOK'
  <2>1. WithTable(flushMem) \in Manifest
    BY WithTableType DEF TypeOK
  <2> QED BY <1>flushFails, <2>1 DEF TypeOK, FlushFails, PersistFail
<1>remove. ASSUME FlushRemove PROVE TypeOK'
  <2>1. immutables' \in Seq(MemTable)
    BY <1>remove, TailElements DEF TypeOK, FlushRemove
  <2> QED BY <1>remove, <2>1 DEF TypeOK, FlushRemove
<1>call. ASSUME NEW s \in Syncers, SyncCall(s) PROVE TypeOK'
  BY <1>call DEF TypeOK, SyncCall
<1>return. ASSUME NEW s \in Syncers, SyncReturn(s) PROVE TypeOK'
  BY <1>return DEF TypeOK, SyncReturn
<1>closing. ASSUME CloseBegin PROVE TypeOK'
  BY <1>closing DEF TypeOK, CloseBegin
<1>closeStop. ASSUME CloseStopService PROVE TypeOK'
  BY <1>closeStop DEF TypeOK, CloseStopService
<1>join. ASSUME CloseJoin PROVE TypeOK'
  BY <1>join DEF TypeOK, CloseJoin
<1>closeDrain. ASSUME CloseDrain PROVE TypeOK'
  BY <1>closeDrain, EmptyTypes DEF TypeOK, CloseDrain, Waiting
<1>take. ASSUME CloseTake PROVE TypeOK'
  <2>1. UnflushedMems \subseteq MemTable
    BY SeqElements DEF UnflushedMems, TypeOK
  <2>2. \A mem \in MergedMems(UnflushedMems) : mem \in MemTable
    BY <2>1 DEF MergedMems, MemTable
  <2>3. closeMem' \in MemTable
    BY <1>take, <2>2 DEF CloseTake, TypeOK
  <2>4. disk' \in Manifest /\ inPlace' \in BOOLEAN /\ faults' \in Nat
    <3>1. CASE UNCHANGED <<disk, inPlace, faults>>
      BY <3>1 DEF TypeOK
    <3>2. CASE PersistOk(manifest) /\ UNCHANGED faults
      BY <3>2 DEF PersistOk, TypeOK
    <3>3. CASE PersistFail(manifest)
      BY <3>3 DEF PersistFail, TypeOK
    <3> QED BY <1>take, <3>1, <3>2, <3>3 DEF CloseTake
  <2>5. mutable' \in MemTable /\ immutables' \in Seq(MemTable)
    BY <1>take, EmptyTypes DEF CloseTake, TypeOK, Manifest
  <2> QED BY <1>take, <2>3, <2>4, <2>5 DEF TypeOK, CloseTake
<1>closeInstall. ASSUME CloseInstall PROVE TypeOK'
  <2>1. WithTable(closeMem) \in Manifest
    BY WithTableType DEF TypeOK
  <2> QED BY <1>closeInstall, <2>1, ZenonT(60) DEF TypeOK, CloseInstall, PersistOk
<1>closeFails. ASSUME CloseInstallFails PROVE TypeOK'
  <2>1. WithTable(closeMem) \in Manifest
    BY WithTableType DEF TypeOK
  <2> QED BY <1>closeFails, <2>1 DEF TypeOK, CloseInstallFails, PersistFail
<1>reset. ASSUME CloseReset PROVE TypeOK'
  <2>1. EmptyMem(0) \in MemTable
    BY EmptyTypes
  <2> QED BY <1>reset, <2>1, EmptyTypes DEF TypeOK, CloseReset, ForgetState
<1>crash. ASSUME NEW kind \in CrashKinds, Crash(kind) PROVE TypeOK'
  <2>1. /\ walFrames' \subseteq walFrames /\ walSynced' \subseteq walFrames'
    BY <1>crash DEF TypeOK, Crash
  <2>2. IsFiniteSet(walFrames') /\ walFrames' \subseteq WalFrame
    BY <2>1, FS_Subset DEF TypeOK
  <2>3. EmptyMem(0) \in MemTable
    BY EmptyTypes
  <2>4. /\ ForgetState /\ crashes' = crashes + 1
        /\ pc' = [w \in Writers |-> "idle"] /\ syncPc' = [s \in Syncers |-> "idle"]
        /\ want' = [s \in Syncers |-> {}] /\ applied' = {}
        /\ UNCHANGED <<disk, walFiles, req, syncTarget, promised, acked, faults, closes>>
    BY <1>crash DEF Crash
  <2>5. /\ want' \in [Syncers -> SUBSET Frame] /\ syncPc' \in [Syncers -> {"idle", "wait"}]
        /\ pc' \in [Writers -> {"idle", "encode", "wait"}]
    BY <2>4
  <2>6. /\ manifest' \in Manifest /\ mutable' \in MemTable /\ immutables' \in Seq(MemTable)
        /\ flushMem' \in MemTable /\ closeMem' \in MemTable
        /\ pending' = {} /\ group' = {} /\ IsFiniteSet(pending') /\ IsFiniteSet(group')
    BY <2>3, <2>4, EmptyTypes DEF ForgetState
  <2>7. crashes' \in Nat /\ applied' \subseteq Frame
    BY <2>4 DEF TypeOK
  <2> QED BY <2>1, <2>2, <2>4, <2>5, <2>6, <2>7 DEF TypeOK, ForgetState
<1>reopen. ASSUME Open PROVE TypeOK'
  <2> DEFINE frames == Replayed(disk, walFrames)
  <2>1. frames \subseteq walFrames /\ frames \subseteq WalFrame
    BY DEF Replayed, TypeOK
  <2>2. PICK top \in {disk.maxSequence} \cup {g.seq : g \in frames},
             oldest \in {disk.activeWalId} \cup {g.wal : g \in frames},
             lastFile \in {0} \cup walFiles,
             records \in ReplayedRecords(frames) :
          LET active == Max({disk.activeWalId, IF lastFile = 0 THEN 1 ELSE lastFile})
              from   == Min({active, oldest})
          IN  /\ mutable' = [walId   |-> oldest,
                             maxSeq  |-> IF frames = {} THEN 0 ELSE top,
                             bytes   |-> Cardinality({op \in frames \X Keys :
                                              op[2] \in DOMAIN op[1].batch}),
                             primary |-> records]
              /\ manifest' = [disk EXCEPT !.activeWalId = active,
                                          !.nextWalId = Max({@, lastFile + 1}),
                                          !.replayFromWalId = from]
              /\ nextSequence' = top + 1 /\ lastVisible' = top /\ lastDurable' = top
              /\ walFileId' = active
              /\ RemoveWalFiles(KeptWalFiles(walFiles \cup {active}, from, active))
    BY <1>reopen, ZenonT(60) DEF Open
  <2> DEFINE active == Max({disk.activeWalId, IF lastFile = 0 THEN 1 ELSE lastFile})
             from   == Min({active, oldest})
             ops    == {op \in frames \X Keys : op[2] \in DOMAIN op[1].batch}
  <2>3. top \in Nat /\ oldest \in Nat /\ lastFile \in Nat
    BY <2>1 DEF TypeOK, Manifest, WalFrame
  <2>4. active \in Nat
    <3>1. disk.activeWalId \in Nat /\ (IF lastFile = 0 THEN 1 ELSE lastFile) \in Nat
      BY <2>3 DEF TypeOK, Manifest
    <3> QED BY <3>1, PairBounds
  <2>5. from \in Nat
    <3> HIDE DEF active
    <3> QED BY <2>3, <2>4, PairBounds
  <2>6. Max({disk.nextWalId, lastFile + 1}) \in Nat
    <3>1. disk.nextWalId \in Nat /\ lastFile + 1 \in Nat
      BY <2>3 DEF TypeOK, Manifest
    <3> QED BY <3>1, PairBounds
  <2>7. Cardinality(ops) \in Nat
    <3>1. IsFiniteSet(frames)
      BY <2>1, FS_Subset DEF TypeOK
    <3>2. IsFiniteSet(frames \X Keys) /\ ops \in SUBSET (frames \X Keys)
      <4> HIDE DEF frames
      <4> QED BY <3>1, KeysAssumption, FS_Product
    <3> HIDE DEF ops, frames
    <3> QED BY <3>2, FS_Subset, FS_CardinalityType
  <2>8. records \in [Keys -> Record]
    <3> DEFINE R == {NoRecord} \cup [seq : {g.seq : g \in frames}, del : BOOLEAN]
    <3>1. records \in [Keys -> R]
      BY DEF ReplayedRecords
    <3>2. R \subseteq Record
      <4>1. {g.seq : g \in frames} \subseteq Nat
        BY <2>1 DEF WalFrame
      <4>2. NoRecord \in Record
        BY DEF NoRecord, Record
      <4>3. [seq : {g.seq : g \in frames}, del : BOOLEAN] \subseteq Record
        BY <4>1 DEF Record
      <4> QED BY <4>2, <4>3
    <3> HIDE DEF R
    <3> QED BY <3>1, <3>2
  <2> HIDE DEF frames
  <2>9. mutable' \in MemTable
    <3>1. mutable' = [walId |-> oldest, maxSeq |-> IF frames = {} THEN 0 ELSE top,
                      bytes |-> Cardinality(ops), primary |-> records]
      BY <2>2
    <3> HIDE DEF ops
    <3> QED BY <2>3, <2>7, <2>8, <3>1 DEF MemTable
  <2>10. manifest' \in Manifest
    <3>1. manifest' = [disk EXCEPT !.activeWalId = active,
                                   !.nextWalId = Max({@, lastFile + 1}),
                                   !.replayFromWalId = from]
      BY <2>2
    <3> HIDE DEF active, from
    <3> QED BY <2>4, <2>5, <2>6, <3>1 DEF TypeOK, Manifest
  <2>11. /\ walFiles' \subseteq walFiles \cup {active} /\ walFrames' \subseteq walFrames
         /\ walSynced' \subseteq walFrames' /\ walFileId' = active
         /\ nextSequence' = top + 1 /\ lastVisible' = top /\ lastDurable' = top
    <3>1. /\ RemoveWalFiles(KeptWalFiles(walFiles \cup {active}, from, active))
          /\ walFileId' = active
          /\ nextSequence' = top + 1 /\ lastVisible' = top /\ lastDurable' = top
      BY <2>2
    <3> HIDE DEF active, from
    <3> QED BY <3>1 DEF RemoveWalFiles, KeptWalFiles, TypeOK
  <2>12. /\ IsFiniteSet(walFrames') /\ walFrames' \subseteq WalFrame
         /\ walFiles' \subseteq Nat
    BY <2>4, <2>11, FS_Subset DEF TypeOK
  <2>13. applied' \subseteq Frame
    <3>1. applied' = {FrameOf(g) : g \in frames}
      BY <1>reopen DEF Open, frames
    <3> QED BY <2>1, <3>1 DEF FrameOf, Frame, WalFrame
  <2>14. /\ inPlace' = TRUE /\ immutables' = <<>> /\ life' = "open" /\ svc' = "drain"
         /\ svcStop' = FALSE /\ svcStopped' = FALSE
         /\ UNCHANGED <<disk, bgError, pending, group, target, writerVars, flushVars,
                        syncVars, closePc, closeMem, boundVars, acked>>
    BY <1>reopen, ZenonT(60) DEF Open
  <2> HIDE DEF active
  <2>15. nextSequence' \in Nat /\ immutables' \in Seq(MemTable) /\ walFileId' \in Nat
    BY <2>3, <2>4, <2>11, <2>14, EmptyTypes
  <2> QED BY <2>3, <2>9, <2>10, <2>11, <2>12, <2>13, <2>14, <2>15 DEF TypeOK
<1> QED
  BY <1>stutter, <1>begin, <1>reject, <1>apply, <1>drain, <1>stop, <1>open, <1>append,
     <1>sync, <1>fails, <1>publish, <1>ok, <1>error, <1>pick, <1>table, <1>install,
     <1>flushFails, <1>remove, <1>call, <1>return, <1>closing, <1>closeStop, <1>join,
     <1>closeDrain, <1>take, <1>closeInstall, <1>closeFails, <1>reset, <1>crash,
     <1>reopen
     DEF Next, WriterStep, ServiceStep, FlushStep, CloseStep

\* SwEmbeddedDb's state keeps its types in every behaviour: any number of writers,
\* any batches, crashes, I/O failures and calls of close().
THEOREM TypeCorrect == Spec => []TypeOK
<1>1. Init => TypeOK
  <2> SUFFICES ASSUME Init PROVE TypeOK
    OBVIOUS
  <2>1. (CHOOSE b \in Batches : TRUE) \in Batches
    BY BatchesAssumption
  <2>2. req \in [Writers -> Frame]
    BY <2>1 DEF Init, Frame
  <2>3. EmptyMem(0) \in MemTable
    BY EmptyTypes
  <2>4. walFiles \subseteq Nat /\ walFrames \subseteq WalFrame /\ IsFiniteSet(walFrames)
    BY EmptyTypes DEF Init
  <2> QED BY <2>2, <2>3, <2>4, EmptyTypes DEF Init, TypeOK
<1> QED BY <1>1, TypeStep, PTL DEF Spec

----------------------------------------------------------------------------
(* A lookup returns the newest write.                                      *)

\* The numbers in a memtable, a manifest and a frame.
LEMMA FieldTypes ==
    /\ \A mem \in MemTable : /\ mem.maxSeq \in Nat /\ mem.walId \in Nat
                             /\ \A k \in Keys : mem.primary[k].seq \in Nat
    /\ \A m \in Manifest : /\ m.maxSequence \in Nat /\ m.replayFromWalId \in Nat
                           /\ \A k \in Keys : m.tables[k].seq \in Nat
    /\ \A f \in Frame : f.seq \in Nat /\ DOMAIN f.batch \subseteq Keys
    /\ \A g \in WalFrame : g.seq \in Nat /\ g.wal \in Nat /\ DOMAIN g.batch \subseteq Keys
  BY BatchesAssumption DEF MemTable, Manifest, Record, Frame, WalFrame

\* Every layer of the current state.
LEMMA LayerTypes ==
    ASSUME TypeOK
    PROVE  /\ DOMAIN immutables = 1..Len(immutables) /\ Len(immutables) \in Nat
           /\ \A k \in Keys :
                 /\ mutable.primary[k].seq \in Nat /\ flushMem.primary[k].seq \in Nat
                 /\ manifest.tables[k].seq \in Nat /\ disk.tables[k].seq \in Nat
                 /\ \A i \in DOMAIN immutables : immutables[i].primary[k].seq \in Nat
<1>1. /\ DOMAIN immutables = 1..Len(immutables) /\ Len(immutables) \in Nat
      /\ \A i \in DOMAIN immutables : immutables[i] \in MemTable
  BY SeqElements DEF TypeOK
<1>2. /\ mutable \in MemTable /\ flushMem \in MemTable
      /\ manifest \in Manifest /\ disk \in Manifest
  BY DEF TypeOK
<1> QED BY <1>1, <1>2, FieldTypes

\* The record lookupPrimaryLocked_ finds is at least as new as every layer's.
LEMMA LookupNewestLayer ==
    ASSUME TypeOK, LayersOrdered, NEW k \in Keys
    PROVE  /\ Lookup(k).seq \in Nat
           /\ mutable.primary[k].seq <= Lookup(k).seq
           /\ \A i \in DOMAIN immutables : immutables[i].primary[k].seq <= Lookup(k).seq
           /\ manifest.tables[k].seq <= Lookup(k).seq
<1> DEFINE holding == {i \in DOMAIN immutables : immutables[i].primary[k].seq # 0}
<1>1. /\ mutable.primary[k].seq \in Nat /\ manifest.tables[k].seq \in Nat
      /\ DOMAIN immutables = 1..Len(immutables) /\ Len(immutables) \in Nat
      /\ \A i \in DOMAIN immutables : immutables[i].primary[k].seq \in Nat
  BY LayerTypes
<1>2. CASE mutable.primary[k].seq # 0
  BY <1>1, <1>2 DEF Lookup, LayersOrdered
<1>3. CASE mutable.primary[k].seq = 0 /\ holding # {}
  <2>1. Max(holding) \in holding /\ \A i \in holding : Max(holding) >= i
    <3>1. holding \in SUBSET (1..Len(immutables))
      BY <1>1
    <3> HIDE DEF holding
    <3> QED BY <1>1, <1>3, <3>1, MaxPosition
  <2>2. Lookup(k) = immutables[Max(holding)].primary[k]
    BY <1>3 DEF Lookup
  <2> DEFINE top == Max(holding)
  <2>6. Lookup(k) = immutables[top].primary[k]
    BY <2>2
  <2>3. /\ top \in DOMAIN immutables /\ immutables[top].primary[k].seq # 0
        /\ \A i \in DOMAIN immutables : immutables[i].primary[k].seq # 0 => i <= top
    BY <1>1, <2>1
  <2> HIDE DEF top
  <2>4. \A i \in DOMAIN immutables :
            immutables[i].primary[k].seq <= immutables[top].primary[k].seq
    <3> TAKE i \in DOMAIN immutables
    <3>1. CASE immutables[i].primary[k].seq = 0
      BY <1>1, <2>3, <3>1
    <3>2. CASE immutables[i].primary[k].seq # 0 /\ i = top
      BY <1>1, <3>2
    <3>3. CASE immutables[i].primary[k].seq # 0 /\ i < top
      BY <2>3, <3>3 DEF LayersOrdered
    <3> QED BY <1>1, <2>3, <3>1, <3>2, <3>3
  <2>5. manifest.tables[k].seq <= immutables[top].primary[k].seq
    BY <2>3 DEF LayersOrdered
  <2> QED BY <1>1, <1>3, <2>6, <2>3, <2>4, <2>5
<1>4. CASE mutable.primary[k].seq = 0 /\ holding = {}
  <2>1. Lookup(k) = manifest.tables[k]
    BY <1>4 DEF Lookup
  <2>2. \A i \in DOMAIN immutables : immutables[i].primary[k].seq = 0
    BY <1>4
  <2> QED BY <1>1, <1>4, <2>1, <2>2
<1> QED BY <1>2, <1>3, <1>4

\* So, while the database is open, the inductive invariant implies the property.
LEMMA LayersImplyNewest == TypeOK /\ LayerInv => LookupIsNewest
<1> SUFFICES ASSUME TypeOK, LayerInv, life = "open", NEW k \in Keys
             PROVE  /\ \A f \in applied : k \in DOMAIN f.batch => f.seq <= Lookup(k).seq
                    /\ mutable.primary[k].seq <= Lookup(k).seq
                    /\ \A i \in DOMAIN immutables :
                          immutables[i].primary[k].seq <= Lookup(k).seq
                    /\ manifest.tables[k].seq <= Lookup(k).seq
  BY DEF LookupIsNewest
<1>1. /\ Lookup(k).seq \in Nat
      /\ mutable.primary[k].seq <= Lookup(k).seq
      /\ \A i \in DOMAIN immutables : immutables[i].primary[k].seq <= Lookup(k).seq
      /\ manifest.tables[k].seq <= Lookup(k).seq
  BY LookupNewestLayer DEF LayerInv
<1>2. ASSUME NEW f \in applied, k \in DOMAIN f.batch PROVE f.seq <= Lookup(k).seq
  <2>1. f.seq \in Nat
    BY FieldTypes DEF TypeOK
  <2>2. /\ mutable.primary[k].seq \in Nat /\ manifest.tables[k].seq \in Nat
        /\ \A i \in DOMAIN immutables : immutables[i].primary[k].seq \in Nat
    BY LayerTypes
  <2>3. \/ f.seq <= mutable.primary[k].seq
        \/ \E i \in DOMAIN immutables : f.seq <= immutables[i].primary[k].seq
        \/ f.seq <= manifest.tables[k].seq
    BY <1>2 DEF LayerInv, AppliedHeld
  <2> QED BY <1>1, <2>1, <2>2, <2>3
<1> QED BY <1>1, <1>2

\* The part of the state LayerInv is about.
layerVars == <<disk, manifest, mutable, immutables, flushPc, flushMem, closePc,
               closeMem, life, applied>>

\* A step that leaves the layers alone keeps them in order.
LEMMA LayerUnchanged == LayerInv /\ UNCHANGED layerVars => LayerInv'
  BY DEF LayerInv, layerVars, RecordsBounded, MemBounded, LayersOrdered,
         FlushHoldsOldest, AppliedHeld

\* A table is added: each key keeps the newer of the two records.
LEMMA WithTableNewer ==
    ASSUME TypeOK, NEW mem \in MemTable, NEW k \in Keys
    PROVE  /\ WithTable(mem).tables[k] \in {manifest.tables[k], mem.primary[k]}
           /\ manifest.tables[k].seq <= WithTable(mem).tables[k].seq
           /\ mem.primary[k].seq <= WithTable(mem).tables[k].seq
<1>1. manifest.tables[k].seq \in Nat /\ mem.primary[k].seq \in Nat
  BY FieldTypes DEF TypeOK
<1>2. WithTable(mem).tables[k] = Newer(manifest.tables[k], mem.primary[k])
  BY DEF WithTable, TypeOK, Manifest
<1> QED BY <1>1, <1>2 DEF Newer

\* The manifest with a table added still bounds the sequences in its tables.
LEMMA WithTableBounded ==
    ASSUME TypeOK, RecordsBounded, NEW mem \in MemTable, MemBounded(mem)
    PROVE  \A k \in Keys : WithTable(mem).tables[k].seq <= WithTable(mem).maxSequence
<1> TAKE k \in Keys
<1>1. /\ manifest.maxSequence \in Nat /\ mem.maxSeq \in Nat
      /\ manifest.tables[k].seq \in Nat /\ mem.primary[k].seq \in Nat
  BY FieldTypes DEF TypeOK
<1>2. WithTable(mem).maxSequence = Max({manifest.maxSequence, mem.maxSeq})
  BY DEF WithTable, TypeOK, Manifest
<1>3. /\ Max({manifest.maxSequence, mem.maxSeq}) \in Nat
      /\ manifest.maxSequence <= Max({manifest.maxSequence, mem.maxSeq})
      /\ mem.maxSeq <= Max({manifest.maxSequence, mem.maxSeq})
  BY <1>1, PairBounds
<1>4. manifest.tables[k].seq <= manifest.maxSequence /\ mem.primary[k].seq <= mem.maxSeq
  BY DEF RecordsBounded, MemBounded
<1>5. WithTable(mem).tables[k] \in {manifest.tables[k], mem.primary[k]}
  BY WithTableNewer
<1> QED BY <1>1, <1>2, <1>3, <1>4, <1>5

\* The records of a batch go on top: applyBatchLockedMutable stores an operation
\* only when no layer holds a newer record of its key.
LEMMA ApplyOnTop ==
    ASSUME TypeOK, LayersOrdered, RecordsBounded, NEW f \in Frame
    PROVE  LET mem == ApplyBatch(mutable, f)
           IN  /\ mem \in MemTable /\ MemBounded(mem)
               /\ \A k \in Keys :
                     /\ mutable.primary[k].seq <= mem.primary[k].seq
                     /\ k \in DOMAIN f.batch => \/ f.seq <= mem.primary[k].seq
                                                \/ f.seq <= Lookup(k).seq
                     /\ mem.primary[k].seq # 0 =>
                           /\ manifest.tables[k].seq <= mem.primary[k].seq
                           /\ \A i \in DOMAIN immutables :
                                 immutables[i].primary[k].seq <= mem.primary[k].seq
<1> DEFINE mem == ApplyBatch(mutable, f)
           fresh == {k \in DOMAIN f.batch : ~Superseded(k, f.seq)}
<1>1. mem \in MemTable
  BY ApplyBatchType
<1>2. /\ f.seq \in Nat /\ DOMAIN f.batch \subseteq Keys
      /\ mutable.maxSeq \in Nat
  BY FieldTypes DEF TypeOK
<1>3. /\ mem.maxSeq \in Nat /\ mutable.maxSeq <= mem.maxSeq /\ f.seq <= mem.maxSeq
  <2>1. mem.maxSeq = Max({mutable.maxSeq, f.seq})
    BY DEF ApplyBatch
  <2> QED BY <1>2, <2>1, PairBounds
<1>4. ASSUME NEW k \in Keys
      PROVE  /\ mem.primary[k].seq = IF k \in fresh THEN f.seq ELSE mutable.primary[k].seq
             /\ mutable.primary[k].seq \in Nat /\ Lookup(k).seq \in Nat
  <2>1. mem.primary[k] = IF k \in fresh THEN [seq |-> f.seq, del |-> f.batch[k]]
                                        ELSE mutable.primary[k]
    BY DEF ApplyBatch
  <2> QED BY <2>1, LayerTypes, LookupNewestLayer
<1>5. ASSUME NEW k \in DOMAIN f.batch PROVE k \in fresh <=> ~(Lookup(k).seq > f.seq)
  BY DEF Superseded
<1> HIDE DEF mem, fresh
<1>6. MemBounded(mem)
  <2> SUFFICES ASSUME NEW k \in Keys PROVE mem.primary[k].seq <= mem.maxSeq
    BY DEF MemBounded
  <2>1. mutable.primary[k].seq <= mutable.maxSeq
    BY DEF RecordsBounded, MemBounded
  <2> QED BY <1>2, <1>3, <1>4, <2>1
<1>7. ASSUME NEW k \in Keys
      PROVE  /\ mutable.primary[k].seq <= mem.primary[k].seq
             /\ k \in DOMAIN f.batch => \/ f.seq <= mem.primary[k].seq
                                        \/ f.seq <= Lookup(k).seq
             /\ mem.primary[k].seq # 0 =>
                   /\ manifest.tables[k].seq <= mem.primary[k].seq
                   /\ \A i \in DOMAIN immutables :
                         immutables[i].primary[k].seq <= mem.primary[k].seq
  <2>1. /\ mutable.primary[k].seq <= Lookup(k).seq
        /\ \A i \in DOMAIN immutables : immutables[i].primary[k].seq <= Lookup(k).seq
        /\ manifest.tables[k].seq <= Lookup(k).seq
    BY LookupNewestLayer
  <2>2. /\ manifest.tables[k].seq \in Nat
        /\ \A i \in DOMAIN immutables : immutables[i].primary[k].seq \in Nat
    BY LayerTypes
  <2>3. CASE k \in fresh
    <3>1. k \in DOMAIN f.batch
      BY <2>3 DEF fresh
    <3>2. Lookup(k).seq <= f.seq
      BY <1>2, <1>4, <1>5, <2>3, <3>1
    <3> QED BY <1>2, <1>4, <2>1, <2>2, <2>3, <3>2
  <2>4. CASE k \notin fresh
    <3>1. k \in DOMAIN f.batch => f.seq <= Lookup(k).seq
      BY <1>2, <1>4, <1>5, <2>4
    <3>2. mem.primary[k].seq = mutable.primary[k].seq
      BY <1>4, <2>4
    <3> QED BY <1>4, <3>1, <3>2 DEF LayersOrdered
  <2> QED BY <2>3, <2>4
<1> QED BY <1>1, <1>6, <1>7 DEF mem

\* ApplyEnqueue: the mutable memtable grows and, when it is full, becomes the
\* youngest immutable one.
LEMMA LayerApply ==
    ASSUME TypeOK, TypeOK', LayerInv, NEW w \in Writers, ApplyEnqueue(w)
    PROVE  LayerInv'
<1> DEFINE mem == ApplyBatch(mutable, req[w])
<1>1. req[w] \in Frame /\ life = "open" /\ closePc = "idle"
  BY DEF TypeOK, ApplyEnqueue, LayerInv
<1>2. /\ mem \in MemTable /\ MemBounded(mem)
      /\ \A k \in Keys :
            /\ mutable.primary[k].seq <= mem.primary[k].seq
            /\ k \in DOMAIN req[w].batch => \/ req[w].seq <= mem.primary[k].seq
                                            \/ req[w].seq <= Lookup(k).seq
            /\ mem.primary[k].seq # 0 =>
                  /\ manifest.tables[k].seq <= mem.primary[k].seq
                  /\ \A i \in DOMAIN immutables :
                        immutables[i].primary[k].seq <= mem.primary[k].seq
  BY <1>1, ApplyOnTop DEF LayerInv
<1>3. /\ StoreOrRotate(mem) /\ ScheduleFlush(mem.bytes >= MemTableBytes)
      /\ applied' = applied \cup {req[w]}
      /\ UNCHANGED <<disk, flushMem, closePc, closeMem, life>>
  BY DEF ApplyEnqueue
<1> HIDE DEF mem
<1>4. manifest'.tables = manifest.tables /\ manifest'.maxSequence = manifest.maxSequence
  BY <1>3 DEF StoreOrRotate, TypeOK, Manifest
<1> DEFINE n == Len(immutables)
<1>5. \/ mutable' = mem /\ immutables' = immutables
      \/ /\ immutables' = Append(immutables, mem)
         /\ mutable'.primary = NoRecords /\ mutable'.maxSeq = 0
         /\ DOMAIN immutables' = 1..(n + 1) /\ immutables'[n + 1] = mem
         /\ \A i \in 1..n : immutables'[i] = immutables[i]
  <2>1. CASE mutable' = mem /\ immutables' = immutables
    BY <2>1
  <2>2. CASE immutables' = Append(immutables, mem) /\ mutable' = EmptyMem(manifest.nextWalId)
    <3>1. mutable'.primary = NoRecords /\ mutable'.maxSeq = 0
      BY <2>2 DEF EmptyMem
    <3>2. immutables \in Seq(MemTable) /\ DOMAIN immutables = 1..n
      BY SeqElements DEF TypeOK
    <3>3. /\ DOMAIN Append(immutables, mem) = 1..(n + 1)
          /\ Append(immutables, mem)[n + 1] = mem
          /\ \A i \in DOMAIN immutables : Append(immutables, mem)[i] = immutables[i]
      BY <1>2, <3>2, AppendElements
    <3> HIDE DEF n
    <3> QED BY <2>2, <3>1, <3>2, <3>3
  <2> QED BY <1>3, <2>1, <2>2 DEF StoreOrRotate
<1>6. /\ DOMAIN immutables = 1..n /\ n \in Nat
      /\ \A k \in Keys : NoRecords[k].seq = 0
  BY LayerTypes DEF NoRecords, NoRecord
<1>7. ASSUME NEW k \in Keys
      PROVE  /\ mem.primary[k].seq \in Nat /\ mutable.primary[k].seq \in Nat
             /\ manifest.tables[k].seq \in Nat /\ Lookup(k).seq \in Nat
             /\ \A i \in 1..n : immutables[i].primary[k].seq \in Nat
             /\ \/ Lookup(k).seq <= mutable.primary[k].seq
                \/ \E i \in 1..n : Lookup(k).seq <= immutables[i].primary[k].seq
                \/ Lookup(k).seq <= manifest.tables[k].seq
  <2>1. /\ mem.primary[k].seq \in Nat /\ mutable.primary[k].seq \in Nat
        /\ manifest.tables[k].seq \in Nat
        /\ \A i \in 1..n : immutables[i].primary[k].seq \in Nat
    BY <1>2, <1>6, FieldTypes, LayerTypes
  <2>2. Lookup(k).seq \in Nat
    BY <1>1, LookupNewestLayer DEF LayerInv
  <2>3. \/ Lookup(k) = mutable.primary[k] \/ Lookup(k) = manifest.tables[k]
        \/ \E i \in 1..n : Lookup(k) = immutables[i].primary[k]
    <3> DEFINE holding == {i \in DOMAIN immutables : immutables[i].primary[k].seq # 0}
    <3>1. CASE mutable.primary[k].seq # 0
      BY <3>1 DEF Lookup
    <3>2. CASE mutable.primary[k].seq = 0 /\ holding # {}
      <4>1. Lookup(k) = immutables[Max(holding)].primary[k]
        BY <3>2 DEF Lookup
      <4>2. holding \in SUBSET (1..n)
        BY <1>6
      <4>3. Max(holding) \in holding
        <5> HIDE DEF holding
        <5> QED BY <1>6, <3>2, <4>2, MaxPosition
      <4> QED BY <4>1, <4>2, <4>3
    <3>3. CASE mutable.primary[k].seq = 0 /\ holding = {}
      BY <3>3 DEF Lookup
    <3> QED BY <3>1, <3>2, <3>3
  <2> QED BY <2>1, <2>2, <2>3
<1>8. RecordsBounded'
  <2>1. MemBounded(mutable') /\ \A i \in DOMAIN immutables' : MemBounded(immutables'[i])
    <3>1. \A i \in 1..n : MemBounded(immutables[i])
      BY <1>6 DEF LayerInv, RecordsBounded
    <3>2. CASE mutable' = mem /\ immutables' = immutables
      BY <1>2, <1>6, <3>1, <3>2
    <3>3. CASE /\ mutable'.primary = NoRecords /\ mutable'.maxSeq = 0
               /\ DOMAIN immutables' = 1..(n + 1) /\ immutables'[n + 1] = mem
               /\ \A i \in 1..n : immutables'[i] = immutables[i]
      <4>1. MemBounded(mutable')
        BY <1>6, <3>3 DEF MemBounded
      <4>2. \A i \in 1..(n + 1) : i \in 1..n \/ i = n + 1
        BY <1>6
      <4> QED BY <1>2, <3>1, <3>3, <4>1, <4>2
    <3> QED BY <1>5, <3>2, <3>3
  <2> QED BY <1>3, <1>4, <2>1 DEF LayerInv, RecordsBounded, MemBounded
<1>9. LayersOrdered'
  <2> SUFFICES ASSUME NEW k \in Keys
      PROVE /\ mutable'.primary[k].seq # 0 =>
                 /\ manifest'.tables[k].seq <= mutable'.primary[k].seq
                 /\ \A i \in DOMAIN immutables' :
                       immutables'[i].primary[k].seq <= mutable'.primary[k].seq
            /\ \A i \in DOMAIN immutables' :
                 immutables'[i].primary[k].seq # 0 =>
                    /\ manifest'.tables[k].seq <= immutables'[i].primary[k].seq
                    /\ \A j \in DOMAIN immutables' :
                          j < i => immutables'[j].primary[k].seq
                                     <= immutables'[i].primary[k].seq
    BY DEF LayersOrdered
  <2>1. \A i \in 1..n : immutables[i].primary[k].seq # 0 =>
            /\ manifest.tables[k].seq <= immutables[i].primary[k].seq
            /\ \A j \in 1..n :
                  j < i => immutables[j].primary[k].seq <= immutables[i].primary[k].seq
    BY <1>1, <1>6 DEF LayerInv, LayersOrdered
  <2>2. mem.primary[k].seq # 0 =>
            /\ manifest.tables[k].seq <= mem.primary[k].seq
            /\ \A i \in 1..n : immutables[i].primary[k].seq <= mem.primary[k].seq
    BY <1>2, <1>6
  <2>3. CASE mutable' = mem /\ immutables' = immutables
    BY <1>4, <1>6, <2>1, <2>2, <2>3
  <2>4. CASE /\ mutable'.primary = NoRecords
             /\ DOMAIN immutables' = 1..(n + 1) /\ immutables'[n + 1] = mem
             /\ \A i \in 1..n : immutables'[i] = immutables[i]
    <3>1. mutable'.primary[k].seq = 0
      BY <1>6, <2>4
    <3>2. ASSUME NEW i \in 1..(n + 1), immutables'[i].primary[k].seq # 0
          PROVE  /\ manifest'.tables[k].seq <= immutables'[i].primary[k].seq
                 /\ \A j \in 1..(n + 1) :
                       j < i => immutables'[j].primary[k].seq
                                  <= immutables'[i].primary[k].seq
      <4>1. CASE i \in 1..n
        <5>1. \A j \in 1..(n + 1) : j < i => j \in 1..n
          BY <1>6, <4>1
        <5> QED BY <1>4, <2>1, <2>4, <3>2, <4>1, <5>1
      <4>2. CASE i = n + 1
        <5>1. \A j \in 1..(n + 1) : j < i => j \in 1..n
          BY <1>6, <4>2
        <5> QED BY <1>4, <2>2, <2>4, <3>2, <4>2, <5>1
      <4> QED BY <1>6, <4>1, <4>2
    <3> QED BY <2>4, <3>1, <3>2
  <2> QED BY <1>5, <2>3, <2>4
<1>10. FlushHoldsOldest'
  <2>1. flushPc' \in {"write", "install", "remove"} => flushPc' = flushPc
    BY <1>3 DEF ScheduleFlush
  <2>2. immutables # <<>> => immutables' # <<>> /\ Head(immutables') = Head(immutables)
    <3>1. CASE immutables' = immutables
      BY <3>1
    <3>2. CASE immutables' = Append(immutables, mem)
      <4>1. immutables \in Seq(MemTable)
        BY DEF TypeOK
      <4> QED BY <1>2, <3>2, <4>1, AppendHead
    <3> QED BY <1>5, <3>1, <3>2
  <2> QED BY <1>1, <1>3, <1>4, <2>1, <2>2 DEF FlushHoldsOldest, LayerInv
<1>11. AppliedHeld'
  <2> SUFFICES ASSUME NEW f \in applied', NEW k \in DOMAIN f.batch
      PROVE \/ f.seq <= mutable'.primary[k].seq
            \/ \E i \in DOMAIN immutables' : f.seq <= immutables'[i].primary[k].seq
            \/ f.seq <= manifest'.tables[k].seq
    BY DEF AppliedHeld
  <2>1. f.seq \in Nat /\ k \in Keys
    BY FieldTypes DEF TypeOK
  <2>2. \/ f.seq <= mem.primary[k].seq
        \/ f.seq <= mutable.primary[k].seq
        \/ \E i \in 1..n : f.seq <= immutables[i].primary[k].seq
        \/ f.seq <= manifest.tables[k].seq
    <3>1. CASE f \in applied
      BY <1>1, <1>6, <3>1 DEF LayerInv, AppliedHeld
    <3>2. CASE f = req[w]
      BY <1>2, <1>7, <2>1, <3>2
    <3> QED BY <1>3, <3>1, <3>2
  <2>3. \/ f.seq <= mem.primary[k].seq
        \/ \E i \in 1..n : f.seq <= immutables[i].primary[k].seq
        \/ f.seq <= manifest.tables[k].seq
    BY <1>2, <1>7, <2>1, <2>2
  <2>4. CASE mutable' = mem /\ immutables' = immutables
    BY <1>4, <1>6, <2>3, <2>4
  <2>5. CASE /\ DOMAIN immutables' = 1..(n + 1) /\ immutables'[n + 1] = mem
             /\ \A i \in 1..n : immutables'[i] = immutables[i]
    <3>1. n + 1 \in DOMAIN immutables' /\ \A i \in 1..n : i \in DOMAIN immutables'
      BY <1>6, <2>5
    <3> QED BY <1>4, <2>3, <2>5, <3>1
  <2> QED BY <1>5, <2>4, <2>5
<1> QED BY <1>1, <1>3, <1>8, <1>9, <1>10, <1>11 DEF LayerInv

\* FlushInstall: the records of the oldest immutable memtable join the tables.
LEMMA LayerInstall ==
    ASSUME TypeOK, LayerInv, FlushInstall
    PROVE  LayerInv'
<1> DEFINE m == WithTable(flushMem)
<1>1. /\ flushPc = "install" /\ flushPc' = "remove" /\ disk' = m /\ manifest' = m
      /\ UNCHANGED <<mutable, immutables, flushMem, closePc, closeMem, life, applied>>
  BY DEF FlushInstall, PersistOk
<1>2. /\ flushMem \in MemTable /\ MemBounded(flushMem)
      /\ \A k \in Keys : m.tables[k].seq <= m.maxSequence
  BY WithTableBounded DEF TypeOK, LayerInv, RecordsBounded
<1>3. \A k \in Keys : /\ m.tables[k] \in {manifest.tables[k], flushMem.primary[k]}
                      /\ manifest.tables[k].seq <= m.tables[k].seq
                      /\ flushMem.primary[k].seq <= m.tables[k].seq
  BY <1>2, WithTableNewer
<1> HIDE DEF m
<1>4. RecordsBounded'
  BY <1>1, <1>2 DEF LayerInv, RecordsBounded, MemBounded
<1>5. CASE life # "open"
  BY <1>1, <1>4, <1>5 DEF LayerInv
<1>6. CASE life = "open"
  <2>1. /\ LayersOrdered /\ FlushHoldsOldest /\ AppliedHeld /\ closePc = "idle"
        /\ immutables # <<>> /\ flushMem = Head(immutables)
    BY <1>1, <1>6 DEF LayerInv, FlushHoldsOldest
  <2>2. flushMem = immutables[1] /\ 1 \in DOMAIN immutables
    BY <2>1, TailElements DEF TypeOK
  <2>3. LayersOrdered'
    <3> SUFFICES ASSUME NEW k \in Keys
        PROVE /\ mutable.primary[k].seq # 0 =>
                   /\ m.tables[k].seq <= mutable.primary[k].seq
                   /\ \A i \in DOMAIN immutables :
                         immutables[i].primary[k].seq <= mutable.primary[k].seq
              /\ \A i \in DOMAIN immutables :
                   immutables[i].primary[k].seq # 0 =>
                      /\ m.tables[k].seq <= immutables[i].primary[k].seq
                      /\ \A j \in DOMAIN immutables :
                            j < i => immutables[j].primary[k].seq
                                       <= immutables[i].primary[k].seq
      BY <1>1 DEF LayersOrdered
    <3>1. /\ mutable.primary[k].seq # 0 =>
               /\ manifest.tables[k].seq <= mutable.primary[k].seq
               /\ \A i \in DOMAIN immutables :
                     immutables[i].primary[k].seq <= mutable.primary[k].seq
          /\ \A i \in DOMAIN immutables :
               immutables[i].primary[k].seq # 0 =>
                  /\ manifest.tables[k].seq <= immutables[i].primary[k].seq
                  /\ \A j \in DOMAIN immutables :
                        j < i => immutables[j].primary[k].seq
                                   <= immutables[i].primary[k].seq
      BY <2>1 DEF LayersOrdered
    <3>2. \A i \in DOMAIN immutables : i = 1 \/ 1 < i
      BY LayerTypes
    <3>3. /\ m.tables[k].seq = manifest.tables[k].seq \/ m.tables[k].seq = immutables[1].primary[k].seq
      BY <1>3, <2>2
    <3>4. mutable.primary[k].seq # 0 => m.tables[k].seq <= mutable.primary[k].seq
      BY <2>2, <3>1, <3>3
    <3>5. ASSUME NEW i \in DOMAIN immutables, immutables[i].primary[k].seq # 0
          PROVE  m.tables[k].seq <= immutables[i].primary[k].seq
      <4>1. CASE m.tables[k].seq = manifest.tables[k].seq
        BY <3>1, <3>5, <4>1
      <4>2. CASE m.tables[k].seq = immutables[1].primary[k].seq /\ 1 < i
        BY <2>2, <3>1, <3>5, <4>2
      <4>3. CASE m.tables[k].seq = immutables[1].primary[k].seq /\ i = 1
        BY <3>5, <4>3, LayerTypes
      <4> QED BY <3>2, <3>3, <4>1, <4>2, <4>3
    <3> QED BY <3>1, <3>4, <3>5
  <2>4. FlushHoldsOldest'
    BY <1>1, <1>3, <2>1 DEF FlushHoldsOldest
  <2>5. AppliedHeld'
    <3> SUFFICES ASSUME NEW f \in applied, NEW k \in DOMAIN f.batch
        PROVE \/ f.seq <= mutable.primary[k].seq
              \/ \E i \in DOMAIN immutables : f.seq <= immutables[i].primary[k].seq
              \/ f.seq <= m.tables[k].seq
      BY <1>1 DEF AppliedHeld
    <3>1. f.seq \in Nat /\ k \in Keys
      BY FieldTypes DEF TypeOK
    <3>2. manifest.tables[k].seq \in Nat /\ m.tables[k].seq \in Nat
      BY <1>3, <2>2, <3>1, LayerTypes
    <3> QED BY <1>3, <2>1, <3>1, <3>2 DEF AppliedHeld
  <2> QED BY <1>1, <1>4, <2>1, <2>3, <2>4, <2>5 DEF LayerInv
<1> QED BY <1>5, <1>6

\* FlushRemove: the oldest memtable goes, its records being in the tables.
LEMMA LayerRemove ==
    ASSUME TypeOK, LayerInv, FlushRemove
    PROVE  LayerInv'
<1>1. /\ flushPc = "remove" /\ flushPc' = "pick"
      /\ immutables' \in {immutables, Tail(immutables)}
      /\ immutables' # immutables => immutables # <<>> /\ immutables' = Tail(immutables)
      /\ UNCHANGED <<disk, manifest, mutable, flushMem, closePc, closeMem, life, applied>>
  BY DEF FlushRemove
<1> DEFINE n == Len(immutables)
<1>2. CASE immutables' = immutables
  BY <1>1, <1>2 DEF LayerInv, RecordsBounded, MemBounded, LayersOrdered,
                    FlushHoldsOldest, AppliedHeld
<1>3. CASE immutables' # immutables
  <2>1. /\ immutables # <<>> /\ immutables' = Tail(immutables)
        /\ Head(immutables) = immutables[1]
        /\ DOMAIN immutables = 1..n /\ n \in Nat
        /\ DOMAIN immutables' = 1..(n - 1)
        /\ \A i \in DOMAIN immutables' : immutables'[i] = immutables[i + 1]
    BY <1>1, <1>3, TailElements, SeqElements DEF TypeOK
  <2> HIDE DEF n
  <2>2. \A i \in DOMAIN immutables' : i + 1 \in DOMAIN immutables
    BY <2>1
  <2>3. \A i \in DOMAIN immutables : i = 1 \/ i - 1 \in DOMAIN immutables'
    BY <2>1
  <2>4. RecordsBounded'
    BY <1>1, <2>1, <2>2 DEF LayerInv, RecordsBounded, MemBounded
  <2>5. CASE life = "open"
    <3>1. LayersOrdered'
      <4>1. \A i, j \in DOMAIN immutables' : j < i => j + 1 < i + 1
        BY <2>1
      <4> QED BY <1>1, <2>1, <2>2, <2>5, <4>1 DEF LayerInv, LayersOrdered
    <3>2. AppliedHeld'
      <4> SUFFICES ASSUME NEW f \in applied, NEW k \in DOMAIN f.batch
          PROVE \/ f.seq <= mutable.primary[k].seq
                \/ \E i \in DOMAIN immutables' : f.seq <= immutables'[i].primary[k].seq
                \/ f.seq <= manifest.tables[k].seq
        BY <1>1 DEF AppliedHeld
      <4>1. f.seq \in Nat /\ k \in Keys
        BY FieldTypes DEF TypeOK
      <4>2. immutables[1].primary[k].seq <= manifest.tables[k].seq
        BY <1>1, <2>1, <2>5, <4>1 DEF LayerInv, FlushHoldsOldest
      <4>3. 1 \in DOMAIN immutables
        BY <2>1, TailElements DEF TypeOK
      <4>4. /\ immutables[1].primary[k].seq \in Nat /\ manifest.tables[k].seq \in Nat
        BY <4>1, <4>3, LayerTypes
      <4>5. CASE f.seq <= immutables[1].primary[k].seq
        BY <4>1, <4>2, <4>4, <4>5
      <4>6. ASSUME NEW i \in DOMAIN immutables, i # 1, f.seq <= immutables[i].primary[k].seq
            PROVE  \E j \in DOMAIN immutables' : f.seq <= immutables'[j].primary[k].seq
        <5>1. i - 1 \in DOMAIN immutables' /\ immutables'[i - 1] = immutables[(i - 1) + 1]
          BY <2>1, <2>3, <4>6
        <5>2. (i - 1) + 1 = i
          BY <2>1
        <5> QED BY <4>6, <5>1, <5>2
      <4> QED BY <2>5, <4>5, <4>6 DEF LayerInv, AppliedHeld
    <3>3. FlushHoldsOldest'
      BY <1>1 DEF FlushHoldsOldest
    <3> QED BY <1>1, <2>4, <2>5, <3>1, <3>2, <3>3 DEF LayerInv
  <2>6. CASE life # "open"
    BY <1>1, <2>4, <2>6 DEF LayerInv
  <2> QED BY <2>5, <2>6
<1> QED BY <1>2, <1>3

\* Open: the replayed frames are all newer than the tables.
LEMMA LayerOpen ==
    ASSUME TypeOK, TypeOK', LayerInv, Open
    PROVE  LayerInv'
<1> DEFINE frames == Replayed(disk, walFrames)
           of(k) == {g \in frames : k \in DOMAIN g.batch}
<1>1. PICK top \in {disk.maxSequence} \cup {g.seq : g \in frames},
           records \in ReplayedRecords(frames) :
          /\ IsMax(top, {disk.maxSequence} \cup {g.seq : g \in frames})
          /\ mutable'.primary = records
          /\ mutable'.maxSeq = IF frames = {} THEN 0 ELSE top
          /\ manifest'.tables = disk.tables /\ manifest'.maxSequence = disk.maxSequence
  <2>1. PICK top \in {disk.maxSequence} \cup {g.seq : g \in frames},
             oldest \in {disk.activeWalId} \cup {g.wal : g \in frames},
             lastFile \in {0} \cup walFiles,
             records \in ReplayedRecords(frames) :
          LET active == Max({disk.activeWalId, IF lastFile = 0 THEN 1 ELSE lastFile})
              from   == Min({active, oldest})
          IN  /\ IsMax(top, {disk.maxSequence} \cup {g.seq : g \in frames})
              /\ mutable' = [walId   |-> oldest,
                             maxSeq  |-> IF frames = {} THEN 0 ELSE top,
                             bytes   |-> Cardinality({op \in frames \X Keys :
                                              op[2] \in DOMAIN op[1].batch}),
                             primary |-> records]
              /\ manifest' = [disk EXCEPT !.activeWalId = active,
                                          !.nextWalId = Max({@, lastFile + 1}),
                                          !.replayFromWalId = from]
    BY ZenonT(60) DEF Open
  <2> HIDE DEF frames
  <2>2. manifest'.tables = disk.tables /\ manifest'.maxSequence = disk.maxSequence
    BY <2>1 DEF TypeOK, Manifest
  <2>3. /\ mutable'.primary = records
        /\ mutable'.maxSeq = IF frames = {} THEN 0 ELSE top
    BY <2>1
  <2>4. IsMax(top, {disk.maxSequence} \cup {g.seq : g \in frames})
    BY <2>1
  <2> WITNESS top \in {disk.maxSequence} \cup {g.seq : g \in frames},
              records \in ReplayedRecords(frames)
  <2> QED BY <2>2, <2>3, <2>4
<1>2. /\ immutables' = <<>> /\ life = "closed" /\ life' = "open"
      /\ applied' = {FrameOf(g) : g \in frames}
      /\ UNCHANGED <<disk, flushPc, flushMem, closePc, closeMem>>
  BY DEF Open
<1>3. \A g \in frames : /\ g \in WalFrame /\ g.seq \in Nat /\ disk.maxSequence < g.seq
                        /\ g.seq <= top
  BY <1>1, FieldTypes DEF Replayed, IsMax, TypeOK
<1>4. ASSUME NEW k \in Keys
      PROVE  /\ of(k) = {} => records[k].seq = 0
             /\ of(k) # {} => \E g \in of(k) : /\ records[k].seq = g.seq
                                               /\ \A h \in of(k) : h.seq <= g.seq
  BY DEF ReplayedRecords, NoRecord
<1>5. top \in Nat /\ disk.maxSequence \in Nat /\ \A k \in Keys : disk.tables[k].seq \in Nat
  BY <1>1, <1>3, FieldTypes DEF TypeOK
<1> HIDE DEF frames
<1>6. RecordsBounded'
  <2>1. MemBounded(mutable')
    <3> SUFFICES ASSUME NEW k \in Keys PROVE records[k].seq <= mutable'.maxSeq
      BY <1>1 DEF MemBounded
    <3>1. CASE of(k) = {}
      BY <1>1, <1>4, <1>5, <3>1
    <3>2. CASE of(k) # {}
      <4>1. frames # {}
        BY <3>2
      <4> QED BY <1>1, <1>3, <1>4, <3>2, <4>1
    <3> QED BY <3>1, <3>2
  <2>2. \A k \in Keys : manifest'.tables[k].seq <= manifest'.maxSequence
    BY <1>1 DEF LayerInv, RecordsBounded
  <2>3. DOMAIN immutables' = {}
    BY <1>2
  <2> QED BY <1>2, <2>1, <2>2, <2>3 DEF LayerInv, RecordsBounded, MemBounded
<1>7. LayersOrdered'
  <2>1. DOMAIN immutables' = {}
    BY <1>2
  <2> SUFFICES ASSUME NEW k \in Keys, records[k].seq # 0
               PROVE  disk.tables[k].seq <= records[k].seq
    BY <1>1, <2>1 DEF LayersOrdered
  <2>2. PICK g \in frames : records[k].seq = g.seq
    BY <1>4
  <2>3. disk.tables[k].seq <= disk.maxSequence
    BY DEF LayerInv, RecordsBounded
  <2> QED BY <1>3, <1>5, <2>2, <2>3
<1>8. FlushHoldsOldest'
  BY <1>2 DEF LayerInv, FlushHoldsOldest
<1>9. AppliedHeld'
  <2> SUFFICES ASSUME NEW g \in frames, NEW k \in DOMAIN g.batch
               PROVE  g.seq <= records[k].seq
    BY <1>1, <1>2 DEF AppliedHeld, FrameOf
  <2>1. k \in Keys /\ g \in of(k)
    BY <1>3, FieldTypes
  <2> QED BY <1>3, <1>4, <2>1
<1>10. closePc' = "idle"
  BY <1>2 DEF LayerInv
<1> QED BY <1>2, <1>6, <1>7, <1>8, <1>9, <1>10 DEF LayerInv

\* Leaving the open state: only the bounds on sequences remain to be kept.
LEMMA LayerForget ==
    ASSUME LayerInv, ForgetState, UNCHANGED disk
    PROVE  LayerInv'
<1>1. MemBounded(EmptyMem(0)) /\ \A k \in Keys : NewManifest.tables[k].seq = 0
  BY DEF MemBounded, EmptyMem, NoRecords, NoRecord, NewManifest
<1>2. /\ mutable' = EmptyMem(0) /\ flushMem' = EmptyMem(0) /\ closeMem' = EmptyMem(0)
      /\ immutables' = <<>> /\ manifest' = NewManifest /\ NewManifest.maxSequence = 0
      /\ life' = "closed" /\ closePc' = "idle" /\ flushPc' = "idle"
  BY DEF ForgetState, NewManifest
<1>3. DOMAIN immutables' = {}
  BY <1>2
<1>4. RecordsBounded'
  BY <1>1, <1>2, <1>3 DEF LayerInv, RecordsBounded, MemBounded
<1> QED BY <1>2, <1>4 DEF LayerInv

\* Each action in turn keeps the layers in order.
LEMMA LayerStep ==
    ASSUME TypeOK, TypeOK', LayerInv, [Next]_vars
    PROVE  LayerInv'
<1>same. CASE UNCHANGED layerVars
  BY <1>same, LayerUnchanged
<1>stutter. CASE UNCHANGED vars
  BY <1>stutter, LayerUnchanged DEF vars, layerVars
<1>begin. ASSUME NEW w \in Writers, NEW b \in Batches, BeginWrite(w, b) PROVE LayerInv'
  BY <1>begin, <1>same DEF BeginWrite, layerVars
<1>reject. ASSUME NEW w \in Writers, RejectWrite(w) PROVE LayerInv'
  BY <1>reject, <1>same DEF RejectWrite, layerVars
<1>apply. ASSUME NEW w \in Writers, ApplyEnqueue(w) PROVE LayerInv'
  BY <1>apply, LayerApply
<1>service. ASSUME ServiceStep PROVE LayerInv'
  <2>1. UNCHANGED layerVars
    BY <1>service DEF ServiceStep, ServiceDrain, ServiceStop, CommitOpenWal, CommitAppend,
       CommitSync, CommitFails, CommitPublish, FinalizeOk, FinalizeError, layerVars
  <2> QED BY <1>same, <2>1
<1>pick. ASSUME FlushPick PROVE LayerInv'
  <2>1. /\ flushPc = "pick"
        /\ \/ flushPc' = "idle" /\ flushMem' = flushMem
           \/ /\ flushPc' = "write" /\ flushMem' = Head(immutables)
              /\ immutables # <<>> /\ life # "closing"
        /\ UNCHANGED <<disk, manifest, mutable, immutables, closePc, closeMem, life, applied>>
    BY <1>pick DEF FlushPick
  <2>2. immutables # <<>> => MemBounded(Head(immutables))
    BY TailElements DEF LayerInv, RecordsBounded, TypeOK
  <2>3. RecordsBounded'
    BY <2>1, <2>2 DEF LayerInv, RecordsBounded, MemBounded
  <2>4. life = "open" => LayersOrdered' /\ AppliedHeld' /\ FlushHoldsOldest'
    BY <2>1 DEF LayerInv, LayersOrdered, AppliedHeld, FlushHoldsOldest
  <2> QED BY <2>1, <2>3, <2>4 DEF LayerInv
<1>table. ASSUME FlushWriteTable PROVE LayerInv'
  BY <1>table DEF FlushWriteTable, LayerInv, RecordsBounded, MemBounded, LayersOrdered,
                  FlushHoldsOldest, AppliedHeld
<1>install. ASSUME FlushInstall PROVE LayerInv'
  BY <1>install, LayerInstall
<1>flushFails. ASSUME FlushFails PROVE LayerInv'
  <2>1. \A k \in Keys :
            WithTable(flushMem).tables[k].seq <= WithTable(flushMem).maxSequence
    BY WithTableBounded DEF LayerInv, RecordsBounded, TypeOK
  <2>2. /\ disk' = disk \/ disk' = WithTable(flushMem)
        /\ flushPc # "idle" /\ flushPc' = "idle"
        /\ UNCHANGED <<manifest, mutable, immutables, flushMem, closePc, closeMem, life,
                       applied>>
    BY <1>flushFails DEF FlushFails, PersistFail
  <2>3. RecordsBounded'
    BY <2>1, <2>2 DEF LayerInv, RecordsBounded, MemBounded
  <2>4. life = "open" => LayersOrdered' /\ AppliedHeld' /\ FlushHoldsOldest'
    BY <2>2 DEF LayerInv, LayersOrdered, AppliedHeld, FlushHoldsOldest
  <2> QED BY <2>2, <2>3, <2>4 DEF LayerInv
<1>remove. ASSUME FlushRemove PROVE LayerInv'
  BY <1>remove, LayerRemove
<1>syncers. ASSUME NEW s \in Syncers, SyncCall(s) \/ SyncReturn(s) PROVE LayerInv'
  BY <1>syncers, <1>same DEF SyncCall, SyncReturn, layerVars
<1>closing. ASSUME CloseBegin PROVE LayerInv'
  <2>1. RecordsBounded'
    BY <1>closing DEF CloseBegin, LayerInv, RecordsBounded, MemBounded
  <2> QED BY <1>closing, <2>1 DEF CloseBegin, LayerInv
<1>stopping. ASSUME CloseStopService \/ CloseJoin \/ CloseDrain PROVE LayerInv'
  <2>1. /\ UNCHANGED <<disk, manifest, mutable, immutables, flushPc, flushMem, closeMem,
                       life, applied>>
        /\ closePc # "idle"
    BY <1>stopping DEF CloseStopService, CloseJoin, CloseDrain
  <2> QED BY <2>1 DEF LayerInv, RecordsBounded, MemBounded
<1>take. ASSUME CloseTake PROVE LayerInv'
  <2>1. /\ closePc = "take" /\ life = "closing"
        /\ immutables' = <<>> /\ mutable' = EmptyMem(manifest.activeWalId)
        /\ disk' \in {disk, manifest}
        /\ closeMem' = closeMem \/ closeMem' \in MergedMems(UnflushedMems)
        /\ UNCHANGED <<manifest, flushPc, flushMem, life, applied>>
    BY <1>take, SMTT(30) DEF CloseTake, PersistOk, PersistFail, LayerInv
  <2>2. MemBounded(EmptyMem(manifest.activeWalId))
    BY DEF MemBounded, EmptyMem, NoRecords, NoRecord
  <2>3. \A p \in UnflushedMems : p \in MemTable /\ MemBounded(p)
    <3>1. mutable \in MemTable /\ MemBounded(mutable)
      BY DEF LayerInv, RecordsBounded, TypeOK
    <3>2. immutables \in Seq(MemTable)
      BY DEF TypeOK
    <3>3. \A i \in DOMAIN immutables : immutables[i] \in MemTable
      BY <3>2, SeqElements
    <3>4. \A i \in DOMAIN immutables : MemBounded(immutables[i])
      BY DEF LayerInv, RecordsBounded
    <3> QED BY <3>1, <3>3, <3>4 DEF UnflushedMems
  <2>4. \A mem \in MergedMems(UnflushedMems) : MemBounded(mem)
    <3> SUFFICES ASSUME NEW mem \in MergedMems(UnflushedMems), NEW k \in Keys
                 PROVE  mem.primary[k].seq <= mem.maxSeq
      BY DEF MemBounded
    <3>1. /\ \E p \in UnflushedMems : mem.primary[k] = p.primary[k]
          /\ \A p \in UnflushedMems : p.maxSeq <= mem.maxSeq
          /\ \E p \in UnflushedMems : mem.maxSeq = p.maxSeq
      BY DEF MergedMems
    <3> QED BY <2>3, <3>1, FieldTypes DEF MemBounded
  <2>5. DOMAIN immutables' = {}
    BY <2>1
  <2>6. RecordsBounded'
    BY <2>1, <2>2, <2>4, <2>5 DEF LayerInv, RecordsBounded, MemBounded
  <2> QED BY <2>1, <2>6 DEF LayerInv
<1>closeInstall. ASSUME CloseInstall \/ CloseInstallFails PROVE LayerInv'
  <2>1. /\ closePc = "install" /\ life = "closing"
        /\ disk' \in {disk, WithTable(closeMem)}
        /\ manifest' \in {manifest, WithTable(closeMem)}
        /\ UNCHANGED <<mutable, immutables, flushPc, flushMem, closeMem, life, applied>>
    BY <1>closeInstall DEF CloseInstall, CloseInstallFails, PersistOk, PersistFail, LayerInv
  <2>2. \A k \in Keys :
            WithTable(closeMem).tables[k].seq <= WithTable(closeMem).maxSequence
    BY WithTableBounded DEF LayerInv, RecordsBounded, TypeOK
  <2>3. RecordsBounded'
    BY <2>1, <2>2 DEF LayerInv, RecordsBounded, MemBounded
  <2> QED BY <2>1, <2>3 DEF LayerInv
<1>reset. ASSUME CloseReset PROVE LayerInv'
  BY <1>reset, LayerForget DEF CloseReset
<1>crash. ASSUME NEW kind \in CrashKinds, Crash(kind) PROVE LayerInv'
  BY <1>crash, LayerForget DEF Crash
<1>reopen. ASSUME Open PROVE LayerInv'
  BY <1>reopen, LayerOpen
<1> QED
  BY <1>stutter, <1>begin, <1>reject, <1>apply, <1>service, <1>pick, <1>table, <1>install,
     <1>flushFails, <1>remove, <1>syncers, <1>closing, <1>stopping, <1>take,
     <1>closeInstall, <1>reset, <1>crash, <1>reopen
     DEF Next, WriterStep, FlushStep, CloseStep

\* The layers are in order in every reachable state.
LEMMA LayersHold == Spec => []LayerInv
<1>1. Init => LayerInv
  <2> SUFFICES ASSUME Init PROVE LayerInv
    OBVIOUS
  <2>1. MemBounded(EmptyMem(0)) /\ \A k \in Keys : NewManifest.tables[k].seq = 0
    BY DEF MemBounded, EmptyMem, NoRecords, NoRecord, NewManifest
  <2>2. NewManifest.maxSequence = 0 /\ DOMAIN immutables = {}
    BY DEF Init, NewManifest
  <2> QED BY <2>1, <2>2 DEF Init, LayerInv, RecordsBounded
<1>2. TypeOK /\ TypeOK' /\ LayerInv /\ [Next]_vars => LayerInv'
  BY LayerStep
<1> QED BY <1>1, <1>2, TypeCorrect, PTL DEF Spec

\* lookupPrimaryLocked_ returns the write with the highest sequence among those
\* applied, for any number of concurrent writers whose batches are applied out of
\* sequence order, through rotations, flushes, failures, crashes and reopenings.
THEOREM LookupCorrect == Spec => []LookupIsNewest
  BY TypeCorrect, LayersHold, LayersImplyNewest, PTL

=============================================================================
