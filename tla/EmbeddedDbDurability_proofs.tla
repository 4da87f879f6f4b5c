--------------------- MODULE EmbeddedDbDurability_proofs ---------------------
(***************************************************************************)
(* Proofs about EmbeddedDbWrite: what is on disk, in which journal, and     *)
(* what a crash or a close() leaves of it.                                  *)
(***************************************************************************)
EXTENDS EmbeddedDbWrite_proofs

USE DEF diskVars, memVars, seqVars, svcVars, stopVars, writerVars, flushVars,
        syncVars, closeVars, boundVars

----------------------------------------------------------------------------
(* The inductive invariants.                                               *)

\* Journal ids: the persisted manifest asks to replay from a journal no younger
\* than the oldest one a memtable covers, and frames are in files that exist.
JournalInv ==
    /\ 1 <= disk.replayFromWalId
    /\ disk.replayFromWalId <= disk.activeWalId /\ disk.activeWalId <= disk.nextWalId
    /\ \A g \in walFrames : g.wal \in walFiles
    /\ svc \in {"append", "sync", "publish", "finalize"} => walFileId \in walFiles
    /\ life # "closed" =>
          /\ disk.replayFromWalId <= mutable.walId
          /\ mutable.walId <= manifest.activeWalId
          /\ \A i \in DOMAIN immutables :
                /\ disk.replayFromWalId <= immutables[i].walId
                /\ immutables[i].walId <= manifest.activeWalId
          /\ manifest.replayFromWalId <= manifest.activeWalId
          /\ manifest.activeWalId <= manifest.nextWalId
          /\ \/ disk.replayFromWalId <= manifest.replayFromWalId
             \/ immutables # <<>> /\ flushPc # "remove"
             \/ closePc \in {"install", "pool"}

\* The counters of calls and failures.
CountInv ==
    /\ faults <= MaxFaults /\ closes <= MaxCloses
    /\ life = "closing" => closes > 0
    /\ life = "closing" <=> closePc # "idle"

\* What close() does to the memtables, with the background flush still running.
TakenInv ==
    life = "closing" =>
        IF closePc \in {"install", "pool"}
        THEN immutables = <<>> /\ \A k \in Keys : mutable.primary[k].seq = 0
        ELSE FlushHoldsOldest

\* A manifest replaced in place by a persist that failed is ahead of manifest_, but
\* only by the memtable that the next flush takes again.
AheadInv ==
    /\ life # "closed" =>
          /\ manifest.maxSequence <= disk.maxSequence
          /\ \A k \in Keys : manifest.tables[k].seq <= disk.tables[k].seq
    /\ life = "open" =>
          /\ \/ disk.maxSequence <= manifest.maxSequence
             \/ immutables # <<>> /\ disk.maxSequence <= Head(immutables).maxSeq
          /\ \A k \in Keys :
                \/ disk.tables[k].seq <= manifest.tables[k].seq
                \/ /\ immutables # <<>>
                   /\ disk.tables[k].seq <= Head(immutables).primary[k].seq
          /\ flushPc = "remove" => flushMem.maxSeq <= manifest.maxSequence
    /\ life # "closed" /\ faults = 0 =>
          /\ disk.maxSequence <= manifest.maxSequence
          /\ \A k \in Keys : disk.tables[k].seq <= manifest.tables[k].seq

\* The write f, or a newer one of each of its keys, is in the tables on disk.
TablesCover(f) == \A k \in DOMAIN f.batch : f.seq <= disk.tables[k].seq

\* As long as no I/O call failed, close() loses nothing that was applied.
ClosingInv ==
    faults = 0 =>
        /\ life = "closing" =>
              \A f \in applied : \A k \in DOMAIN f.batch :
                 \/ f.seq <= mutable.primary[k].seq
                 \/ \E i \in DOMAIN immutables : f.seq <= immutables[i].primary[k].seq
                 \/ f.seq <= manifest.tables[k].seq
                 \/ closePc = "install" /\ f.seq <= closeMem.primary[k].seq
        /\ life = "closed" => \A f \in applied : TablesCover(f)

\* Each key of f is in the tables, or in a memtable that protects journal w.
HeldFrom(f, w) ==
    \A k \in DOMAIN f.batch :
        \/ f.seq <= disk.tables[k].seq
        \/ f.seq <= mutable.primary[k].seq /\ mutable.walId <= w
        \/ \E i \in DOMAIN immutables : /\ f.seq <= immutables[i].primary[k].seq
                                        /\ immutables[i].walId <= w

\* The write-service thread works on applied requests, in a journal that the
\* memtables holding them protect, and its group is in that journal once written.
ServiceInv ==
    /\ pending \cup group \subseteq applied
    /\ life = "closed" => pending = {} /\ group = {}
    /\ life = "open" /\ svc \in {"append", "sync", "publish", "finalize"} =>
          /\ \A f \in group : HeldFrom(f, walFileId)
          /\ svc = "sync" => \A f \in group : InWal(walFileId, f) \in walFrames
          /\ svc \in {"publish", "finalize"} =>
                \A f \in group : InWal(walFileId, f) \in walSynced

\* The write f is in the tables, or in a synced frame that is kept as long as it is
\* needed.
Kept(f) == \/ TablesCover(f)
           \/ \E g \in walSynced : FrameOf(g) = f /\ HeldFrom(f, g.wal)

\* Acknowledged writes before the first crash, when no final flush failed.
AckedInv ==
    crashes = 0 /\ (faults = 0 \/ closes = 0) =>
        /\ life = "closed" => \A f \in acked : TablesCover(f)
        /\ life # "closed" => \A f \in acked : f \in applied \/ TablesCover(f)
        /\ life = "open" => \A f \in acked : Kept(f)

----------------------------------------------------------------------------
(* One writer: sequences are applied in order, so a watermark covers what is *)
(* below it.                                                                 *)

\* A flush that raises the watermark to f.seq puts f into the tables.
Ordered(f) ==
    \A k \in DOMAIN f.batch :
        \/ f.seq <= disk.tables[k].seq
        \/ /\ disk.maxSequence < f.seq
           /\ \A i \in DOMAIN immutables :
                 f.seq <= immutables[i].maxSeq =>
                    \E j \in 1..i : f.seq <= immutables[j].primary[k].seq

\* Everything in memory or covered by the tables has a sequence below n.
Below(n) ==
    /\ disk.maxSequence < n /\ mutable.maxSeq < n
    /\ \A i \in DOMAIN immutables : immutables[i].maxSeq < n

\* A sequence a writer has taken is above everything applied before.
FreshInv ==
    /\ life = "closed" => \A w \in Writers : pc[w] = "idle"
    /\ life = "open" =>
          /\ Below(nextSequence)
          /\ \A w \in Writers : pc[w] = "encode" => /\ Below(req[w].seq)
                                                    /\ req[w].seq < nextSequence
          /\ \A f \in applied : Ordered(f)

\* What the next open() finds of f in a journal.
Replayable(f) ==
    \/ TablesCover(f)
    \/ /\ disk.maxSequence < f.seq
       /\ \E g \in walSynced : FrameOf(g) = f /\ disk.replayFromWalId <= g.wal

\* The write f survives a crash.
Durable(f) == IF life = "closed" THEN Replayable(f) ELSE Ordered(f) /\ Kept(f)

\* The service thread has a group to write.
Committing == svc \in {"open", "append", "sync", "publish", "finalize"}

\* What sync() relies on: the durable cursor covers every applied write below it,
\* and what the service thread has not written yet is above the cursor it will set.
SyncInv ==
    /\ life = "closed" =>
          /\ walSynced = walFrames /\ svc = "left" /\ ~bgError
          /\ \A s \in Syncers : want[s] = {}
    /\ life = "open" =>
          /\ bgError => svc = "left"
          /\ svc = "drain" => group = {}
          /\ \A f \in applied : /\ f.seq <= lastVisible
                                /\ f.seq <= lastDurable => Kept(f)
                                /\ ~bgError /\ svc # "fail" =>
                                      f \in pending \cup group \/ Kept(f)
          /\ \A f \in group : f.seq <= target
          /\ Committing => /\ \A f \in pending : target < f.seq
                           /\ \A w \in Writers : pc[w] = "encode" => target < req[w].seq
                           /\ target < nextSequence
          /\ lastDurable < nextSequence
          /\ \A f \in applied : f.seq < nextSequence
          /\ \A w \in Writers : pc[w] = "encode" =>
                /\ lastDurable < req[w].seq
                /\ \A f \in applied : f.seq < req[w].seq
          /\ \A s \in Syncers : \A f \in want[s] : f \in applied /\ f.seq <= syncTarget[s]

----------------------------------------------------------------------------
(* Lemmas about the steps.                                                 *)

\* The fields of the manifests and memtables of a state are naturals.
LEMMA WalTypes ==
    ASSUME TypeOK
    PROVE  /\ disk.replayFromWalId \in Nat /\ disk.activeWalId \in Nat
           /\ disk.nextWalId \in Nat /\ disk.maxSequence \in Nat
           /\ manifest.replayFromWalId \in Nat /\ manifest.activeWalId \in Nat
           /\ manifest.nextWalId \in Nat /\ manifest.maxSequence \in Nat
           /\ mutable.walId \in Nat /\ mutable.maxSeq \in Nat
           /\ flushMem.maxSeq \in Nat /\ closeMem.maxSeq \in Nat
           /\ DOMAIN immutables = 1..Len(immutables) /\ Len(immutables) \in Nat
           /\ \A i \in DOMAIN immutables : /\ immutables[i] \in MemTable
                                           /\ immutables[i].walId \in Nat
                                           /\ immutables[i].maxSeq \in Nat
<1>1. /\ DOMAIN immutables = 1..Len(immutables) /\ Len(immutables) \in Nat
      /\ \A i \in DOMAIN immutables : immutables[i] \in MemTable
  BY SeqElements DEF TypeOK
<1>2. /\ disk \in Manifest /\ manifest \in Manifest /\ mutable \in MemTable
      /\ flushMem \in MemTable /\ closeMem \in MemTable
  BY DEF TypeOK
<1> QED BY <1>1, <1>2 DEF Manifest, MemTable

\* A step that leaves the database open changes tables and memtables in one of four
\* ways only.
LEMMA OpenSteps ==
    ASSUME TypeOK, LayerInv, CountInv, [Next]_vars, life = "open", life' = "open"
    PROVE  \/ UNCHANGED <<disk, manifest, mutable, immutables>>
           \/ \E w \in Writers : ApplyEnqueue(w)
           \/ FlushInstall \/ FlushFails \/ FlushRemove
<1> DEFINE Goal == \/ UNCHANGED <<disk, manifest, mutable, immutables>>
                   \/ \E w \in Writers : ApplyEnqueue(w)
                   \/ FlushInstall \/ FlushFails \/ FlushRemove
<1>1. closePc = "idle"
  BY DEF CountInv
<1>2. ASSUME UNCHANGED vars PROVE Goal
  BY <1>2 DEF vars
<1>3. ASSUME NEW w \in Writers, NEW b \in Batches, BeginWrite(w, b) PROVE Goal
  BY <1>3 DEF BeginWrite
<1>4. ASSUME NEW w \in Writers, WriterStep(w) PROVE Goal
  BY <1>4 DEF WriterStep, RejectWrite
<1>5. ASSUME ServiceStep PROVE Goal
  BY <1>5 DEF ServiceStep, ServiceDrain, ServiceStop, CommitOpenWal, CommitAppend,
     CommitSync, CommitFails, CommitPublish, FinalizeOk, FinalizeError
<1>6. ASSUME FlushStep PROVE Goal
  BY <1>6 DEF FlushStep, FlushPick, FlushWriteTable
<1>7. ASSUME NEW s \in Syncers, SyncCall(s) \/ SyncReturn(s) PROVE Goal
  BY <1>7 DEF SyncCall, SyncReturn
<1>8. ASSUME CloseBegin \/ CloseStep PROVE FALSE
  BY <1>1, <1>8 DEF CloseBegin, CloseStep, CloseStopService, CloseJoin, CloseDrain,
     CloseTake, CloseInstall, CloseInstallFails, CloseReset
<1>9. ASSUME NEW kind \in CrashKinds, Crash(kind) PROVE FALSE
  BY <1>9 DEF Crash, ForgetState
<1>10. ASSUME Open PROVE FALSE
  BY <1>10 DEF Open
<1> QED BY <1>2, <1>3, <1>4, <1>5, <1>6, <1>7, <1>8, <1>9, <1>10 DEF Next

\* The journal to replay from, in the manifest flushMemTable_ persists: below every
\* journal in use, and one of them.
LEMMA WithTableJournals ==
    ASSUME TypeOK, JournalInv, life # "closed", NEW mem \in MemTable
    PROVE  LET m == WithTable(mem)
           IN  /\ m.activeWalId = manifest.activeWalId /\ m.nextWalId = manifest.nextWalId
               /\ m.replayFromWalId \in Nat
               /\ disk.replayFromWalId <= m.replayFromWalId
               /\ m.replayFromWalId <= manifest.activeWalId
               /\ m.replayFromWalId <= mutable.walId
               /\ \A i \in DOMAIN immutables : m.replayFromWalId <= immutables[i].walId
<1> DEFINE S == {manifest.activeWalId, mutable.walId}
                 \cup {immutables[i].walId : i \in DOMAIN immutables}
           from == ReplayFrom(manifest.activeWalId, mutable, immutables)
<1>1. /\ WithTable(mem).activeWalId = manifest.activeWalId
      /\ WithTable(mem).nextWalId = manifest.nextWalId
      /\ WithTable(mem).replayFromWalId = from
  BY DEF WithTable, TypeOK, Manifest
<1>2. S \in SUBSET Nat /\ S # {} /\ \A x \in S : disk.replayFromWalId <= x
  <2>1. /\ manifest.activeWalId \in Nat /\ mutable.walId \in Nat
        /\ \A i \in DOMAIN immutables : immutables[i].walId \in Nat
    BY WalTypes
  <2>2. /\ disk.replayFromWalId <= manifest.activeWalId
        /\ disk.replayFromWalId <= mutable.walId
        /\ \A i \in DOMAIN immutables : disk.replayFromWalId <= immutables[i].walId
    BY WalTypes DEF JournalInv
  <2>3. S \in SUBSET Nat /\ S # {}
    BY <2>1
  <2> QED BY <2>2, <2>3
<1>3. from \in S
  <2>1. from = Min(S)
    BY DEF ReplayFrom
  <2> HIDE DEF S, from
  <2> QED BY <1>2, <2>1, MinBounds
<1>4. /\ from \in Nat /\ from <= manifest.activeWalId /\ from <= mutable.walId
      /\ \A i \in DOMAIN immutables : from <= immutables[i].walId
  BY ReplayFromBounds
<1> HIDE DEF S, from
<1> QED BY <1>1, <1>2, <1>3, <1>4

\* The watermark and the tables of that manifest.
LEMMA WithTableGrows ==
    ASSUME TypeOK, NEW mem \in MemTable
    PROVE  LET m == WithTable(mem)
           IN  /\ m.maxSequence \in {manifest.maxSequence, mem.maxSeq}
               /\ manifest.maxSequence <= m.maxSequence /\ mem.maxSeq <= m.maxSequence
               /\ \A k \in Keys :
                     /\ m.tables[k].seq \in {manifest.tables[k].seq, mem.primary[k].seq}
                     /\ manifest.tables[k].seq <= m.tables[k].seq
                     /\ mem.primary[k].seq <= m.tables[k].seq
<1>1. WithTable(mem).maxSequence = Max({manifest.maxSequence, mem.maxSeq})
  BY DEF WithTable, TypeOK, Manifest
<1>2. manifest.maxSequence \in Nat /\ mem.maxSeq \in Nat
  BY FieldTypes DEF TypeOK
<1>3. /\ WithTable(mem).maxSequence \in {manifest.maxSequence, mem.maxSeq}
      /\ manifest.maxSequence <= WithTable(mem).maxSequence
      /\ mem.maxSeq <= WithTable(mem).maxSequence
  BY <1>1, <1>2, PairBounds
<1>4. ASSUME NEW k \in Keys
      PROVE  /\ WithTable(mem).tables[k] \in {manifest.tables[k], mem.primary[k]}
             /\ manifest.tables[k].seq <= WithTable(mem).tables[k].seq
             /\ mem.primary[k].seq <= WithTable(mem).tables[k].seq
  BY WithTableNewer
<1> QED BY <1>3, <1>4

\* Applying a batch leaves the memtable in the journals it covered.
LEMMA ApplyWal ==
    ASSUME TypeOK, JournalInv, life = "open", NEW f \in Frame
    PROVE  ApplyBatch(mutable, f).walId = mutable.walId
<1>1. CoveredWal(mutable) = mutable.walId
  BY WalTypes DEF CoveredWal, JournalInv
<1> QED BY <1>1 DEF ApplyBatch

\* What open() makes of the directory: every frame above the watermark, in a journal
\* that the manifest asks to replay, is applied again and stays in its journal.
LEMMA OpenEffect ==
    ASSUME TypeOK, TypeOK', JournalInv, Open
    PROVE  LET frames == Replayed(disk, walFrames)
           IN  /\ manifest'.tables = disk.tables
               /\ manifest'.maxSequence = disk.maxSequence
               /\ disk.replayFromWalId <= mutable'.walId
               /\ mutable'.walId <= manifest'.activeWalId
               /\ disk.replayFromWalId <= manifest'.replayFromWalId
               /\ manifest'.replayFromWalId <= manifest'.activeWalId
               /\ manifest'.activeWalId <= manifest'.nextWalId
               /\ walFrames' = {g \in walFrames : g.wal \in walFiles'}
               /\ walSynced' = {g \in walSynced : g.wal \in walFiles'}
               /\ \A g \in frames :
                     /\ mutable'.walId <= g.wal /\ g.wal \in walFiles'
                     /\ \A k \in DOMAIN g.batch : g.seq <= mutable'.primary[k].seq
                     /\ g.seq <= lastVisible'
               /\ nextSequence' = lastVisible' + 1 /\ lastDurable' = lastVisible'
               /\ disk.maxSequence <= lastVisible' /\ mutable'.maxSeq <= lastVisible'
<1> DEFINE frames == Replayed(disk, walFrames)
<1>1. \A g \in frames : /\ g \in WalFrame /\ g.seq \in Nat /\ g.wal \in Nat
                        /\ disk.replayFromWalId <= g.wal /\ disk.maxSequence < g.seq
                        /\ g.wal \in walFiles
  BY FieldTypes DEF Replayed, TypeOK, JournalInv
<1>2. PICK top \in {disk.maxSequence} \cup {g.seq : g \in frames},
           oldest \in {disk.activeWalId} \cup {g.wal : g \in frames},
           lastFile \in {0} \cup walFiles,
           records \in ReplayedRecords(frames) :
        LET active == Max({disk.activeWalId, IF lastFile = 0 THEN 1 ELSE lastFile})
            from   == Min({active, oldest})
        IN  /\ IsMax(top, {disk.maxSequence} \cup {g.seq : g \in frames})
            /\ IsMin(oldest, {disk.activeWalId} \cup {g.wal : g \in frames})
            /\ mutable' = [walId   |-> oldest,
                           maxSeq  |-> IF frames = {} THEN 0 ELSE top,
                           bytes   |-> Cardinality({op \in frames \X Keys :
                                            op[2] \in DOMAIN op[1].batch}),
                           primary |-> records]
            /\ manifest' = [disk EXCEPT !.activeWalId = active,
                                        !.nextWalId = Max({@, lastFile + 1}),
                                        !.replayFromWalId = from]
            /\ nextSequence' = top + 1 /\ lastVisible' = top /\ lastDurable' = top
            /\ RemoveWalFiles(KeptWalFiles(walFiles \cup {active}, from, active))
  BY ZenonT(60) DEF Open
<1> DEFINE active == Max({disk.activeWalId, IF lastFile = 0 THEN 1 ELSE lastFile})
           from   == Min({active, oldest})
           next   == Max({disk.nextWalId, lastFile + 1})
<1>3. /\ top \in Nat /\ oldest \in Nat /\ lastFile \in Nat
      /\ disk.activeWalId \in Nat /\ disk.nextWalId \in Nat
      /\ disk.maxSequence \in Nat /\ disk.replayFromWalId \in Nat
  <2>1. /\ disk.activeWalId \in Nat /\ disk.nextWalId \in Nat
        /\ disk.maxSequence \in Nat /\ disk.replayFromWalId \in Nat
    BY WalTypes
  <2>2. walFiles \subseteq Nat
    BY DEF TypeOK
  <2> HIDE DEF frames
  <2> QED BY <1>1, <2>1, <2>2
<1> HIDE DEF frames
<1>4. /\ active \in Nat /\ disk.activeWalId <= active /\ lastFile <= active
      /\ active = disk.activeWalId \/ active = 1 \/ active = lastFile
  <2> DEFINE last == IF lastFile = 0 THEN 1 ELSE lastFile
  <2>1. last \in Nat /\ lastFile <= last /\ (last = 1 \/ last = lastFile)
    BY <1>3
  <2>2. active = Max({disk.activeWalId, last})
    OBVIOUS
  <2> HIDE DEF last, active
  <2> QED BY <1>3, <2>1, <2>2, PairBounds
<1>5. next \in Nat /\ disk.nextWalId <= next /\ lastFile + 1 <= next
  BY <1>3, PairBounds
<1>6. /\ disk.replayFromWalId <= oldest /\ oldest <= disk.activeWalId
      /\ \A g \in frames : oldest <= g.wal
  <2>1. IsMin(oldest, {disk.activeWalId} \cup {g.wal : g \in frames})
    BY <1>2
  <2>2. oldest = disk.activeWalId \/ \E g \in frames : oldest = g.wal
    OBVIOUS
  <2> QED BY <1>1, <1>3, <2>1, <2>2 DEF IsMin, JournalInv
<1> HIDE DEF active, next
<1>7. from \in {active, oldest} /\ from <= active /\ from <= oldest
  BY <1>3, <1>4, PairBounds
<1> HIDE DEF from
<1>8. /\ mutable'.walId = oldest /\ mutable'.primary = records
      /\ mutable'.maxSeq = IF frames = {} THEN 0 ELSE top
  BY <1>2
<1>9. /\ manifest'.tables = disk.tables /\ manifest'.maxSequence = disk.maxSequence
      /\ manifest'.activeWalId = active /\ manifest'.nextWalId = next
      /\ manifest'.replayFromWalId = from
  <2>1. manifest' = [disk EXCEPT !.activeWalId = active, !.nextWalId = next,
                                 !.replayFromWalId = from]
    BY <1>2 DEF active, next, from
  <2>2. disk \in Manifest
    BY DEF TypeOK
  <2> QED BY <2>1, <2>2 DEF Manifest
<1>10. active <= next
  <2>1. 1 <= disk.activeWalId /\ disk.activeWalId <= disk.nextWalId
    BY <1>3 DEF JournalInv
  <2> QED BY <1>3, <1>4, <1>5, <2>1
<1>11. /\ walFiles' = {i \in walFiles \cup {active} : i >= from \/ i = active}
       /\ walFrames' = {g \in walFrames : g.wal \in walFiles'}
       /\ walSynced' = {g \in walSynced : g.wal \in walFiles'}
  <2>1. RemoveWalFiles(KeptWalFiles(walFiles \cup {active}, from, active))
    BY <1>2 DEF active, from
  <2> QED BY <2>1 DEF RemoveWalFiles, KeptWalFiles
<1>12. \A g \in frames : g.wal \in walFiles' /\ g.seq <= top
  <2>1. IsMax(top, {disk.maxSequence} \cup {g.seq : g \in frames})
    BY <1>2
  <2> TAKE g \in frames
  <2>2. g.seq <= top
    BY <2>1 DEF IsMax
  <2>3. from <= g.wal
    BY <1>1, <1>3, <1>4, <1>6, <1>7
  <2> QED BY <1>1, <1>3, <1>4, <1>7, <1>11, <2>2, <2>3
<1>13. ASSUME NEW g \in frames, NEW k \in DOMAIN g.batch PROVE g.seq <= records[k].seq
  <2>1. k \in Keys
    BY <1>1, FieldTypes
  <2>2. PICK h \in {h \in frames : k \in DOMAIN h.batch} :
            /\ records[k] = [seq |-> h.seq, del |-> h.batch[k]]
            /\ \A i \in {h2 \in frames : k \in DOMAIN h2.batch} : i.seq <= h.seq
    BY <2>1 DEF ReplayedRecords
  <2> QED BY <2>2
<1>14. disk.maxSequence <= top
  BY <1>2 DEF IsMax
<1>15. /\ nextSequence' = top + 1 /\ lastVisible' = top /\ lastDurable' = top
  BY <1>2
<1>16. mutable'.maxSeq <= top
  BY <1>3, <1>8
<1>17. /\ from <= active /\ disk.replayFromWalId <= from /\ oldest <= active
  BY <1>3, <1>4, <1>6, <1>7
<1> QED BY <1>6, <1>8, <1>9, <1>10, <1>11, <1>12, <1>13, <1>14, <1>15, <1>16, <1>17
           DEF frames

\* ApplyEnqueue: the memtable grows, keeps its journals and, when full, becomes the
\* youngest immutable one.
LEMMA ApplyEffect ==
    ASSUME TypeOK, LayerInv, JournalInv, NEW w \in Writers, ApplyEnqueue(w)
    PROVE  /\ req[w] \in Frame /\ life = "open" /\ pc[w] = "encode"
           /\ manifest'.tables = manifest.tables
           /\ manifest'.maxSequence = manifest.maxSequence
           /\ manifest'.replayFromWalId = manifest.replayFromWalId
           /\ manifest.activeWalId <= manifest'.activeWalId
           /\ manifest'.activeWalId <= manifest'.nextWalId
           /\ UNCHANGED <<diskVars, inPlace, lastDurable, flushMem, closeVars, boundVars,
                          nextSequence, acked, promised, want, syncTarget, svc, group,
                          target, walFileId, req, bgError>>
           /\ pending' = pending \cup {req[w]} /\ applied' = applied \cup {req[w]}
           /\ \E mem \in MemTable :
                 /\ mem.walId = mutable.walId
                 /\ mem.maxSeq \in {mutable.maxSeq, req[w].seq}
                 /\ mutable.maxSeq <= mem.maxSeq /\ req[w].seq <= mem.maxSeq
                 /\ \A k \in Keys :
                       /\ mutable.primary[k].seq <= mem.primary[k].seq
                       /\ k \in DOMAIN req[w].batch => \/ req[w].seq <= mem.primary[k].seq
                                                       \/ req[w].seq <= Lookup(k).seq
                 /\ \/ mutable' = mem /\ immutables' = immutables
                    \/ /\ immutables' = Append(immutables, mem)
                       /\ DOMAIN immutables' = 1..(Len(immutables) + 1)
                       /\ immutables'[Len(immutables) + 1] = mem
                       /\ \A i \in DOMAIN immutables : immutables'[i] = immutables[i]
                       /\ mutable'.walId = manifest'.activeWalId
                       /\ mutable'.maxSeq = 0
                       /\ \A k \in Keys : mutable'.primary[k].seq = 0
<1> DEFINE mem == ApplyBatch(mutable, req[w])
<1>1. req[w] \in Frame /\ life = "open" /\ pc[w] = "encode"
  BY DEF ApplyEnqueue, TypeOK
<1>2. /\ mem \in MemTable
      /\ \A k \in Keys :
            /\ mutable.primary[k].seq <= mem.primary[k].seq
            /\ k \in DOMAIN req[w].batch => \/ req[w].seq <= mem.primary[k].seq
                                            \/ req[w].seq <= Lookup(k).seq
  BY <1>1, ApplyOnTop DEF LayerInv
<1>3. mem.walId = mutable.walId
  BY <1>1, ApplyWal
<1>4. /\ mem.maxSeq \in {mutable.maxSeq, req[w].seq}
      /\ mutable.maxSeq <= mem.maxSeq /\ req[w].seq <= mem.maxSeq
  <2>1. mem.maxSeq = Max({mutable.maxSeq, req[w].seq})
    BY DEF ApplyBatch
  <2>2. mutable.maxSeq \in Nat /\ req[w].seq \in Nat
    BY <1>1, FieldTypes DEF TypeOK
  <2> HIDE DEF mem
  <2> QED BY <2>1, <2>2, PairBounds
<1>5. StoreOrRotate(mem)
  BY DEF ApplyEnqueue
<1>6. /\ UNCHANGED <<diskVars, inPlace, lastDurable, flushMem, closeVars, boundVars,
                     nextSequence, acked, promised, want, syncTarget, svc, group,
                     target, walFileId, req, bgError>>
      /\ pending' = pending \cup {req[w]} /\ applied' = applied \cup {req[w]}
  BY DEF ApplyEnqueue
<1> HIDE DEF mem
<1>7. /\ manifest.activeWalId \in Nat /\ manifest.nextWalId \in Nat
      /\ manifest.activeWalId <= manifest.nextWalId
  BY <1>1, WalTypes DEF JournalInv
<1>8. CASE mutable' = mem /\ UNCHANGED <<manifest, immutables>>
  <2> QED BY <1>1, <1>2, <1>3, <1>4, <1>6, <1>7, <1>8
<1>9. CASE /\ immutables' = Append(immutables, mem)
           /\ manifest' = [manifest EXCEPT !.activeWalId = manifest.nextWalId,
                                           !.nextWalId = @ + 1]
           /\ mutable' = EmptyMem(manifest.nextWalId)
  <2>1. /\ manifest'.tables = manifest.tables
        /\ manifest'.maxSequence = manifest.maxSequence
        /\ manifest'.replayFromWalId = manifest.replayFromWalId
        /\ manifest'.activeWalId = manifest.nextWalId
        /\ manifest'.nextWalId = manifest.nextWalId + 1
    BY <1>9 DEF TypeOK, Manifest
  <2>2. /\ mutable'.walId = manifest.nextWalId /\ mutable'.maxSeq = 0
        /\ \A k \in Keys : mutable'.primary[k].seq = 0
    BY <1>9 DEF EmptyMem, NoRecords, NoRecord
  <2>3. immutables \in Seq(MemTable)
    BY DEF TypeOK
  <2>4. /\ DOMAIN immutables' = 1..(Len(immutables) + 1)
        /\ immutables'[Len(immutables) + 1] = mem
        /\ \A i \in DOMAIN immutables : immutables'[i] = immutables[i]
    BY <1>2, <1>9, <2>3, AppendElements
  <2>5. manifest.activeWalId <= manifest'.activeWalId
        /\ manifest'.activeWalId <= manifest'.nextWalId
    BY <1>7, <2>1
  <2> QED BY <1>1, <1>2, <1>3, <1>4, <1>6, <1>9, <2>1, <2>2, <2>4, <2>5
<1> QED BY <1>5, <1>8, <1>9 DEF StoreOrRotate

\* The flush persists a manifest, the same one whether it succeeds or fails, and only
\* removes journals below the one to replay from.
LEMMA FlushEffect ==
    ASSUME TypeOK, FlushInstall \/ FlushFails
    PROVE  /\ disk' \in {disk, WithTable(flushMem)}
           /\ \/ /\ manifest' = WithTable(flushMem) /\ disk' = WithTable(flushMem)
                 /\ flushPc = "install" /\ flushPc' = "remove" /\ faults' = faults
              \/ /\ manifest' = manifest /\ flushPc' = "idle" /\ faults' = faults + 1
                 /\ flushPc \in {"write", "install"}
           /\ UNCHANGED <<mutable, immutables, flushMem, closeVars, crashes, closes,
                          applied, acked, pending, group, target, svc, walFileId,
                          nextSequence, lastVisible, lastDurable, pc, req, syncVars, bgError>>
           /\ \/ UNCHANGED <<walFiles, walFrames, walSynced>>
              \/ /\ walFiles' = {i \in walFiles : \/ i >= disk'.replayFromWalId
                                                  \/ i = walFileId}
                 /\ walFrames' = {g \in walFrames : g.wal \in walFiles'}
                 /\ walSynced' = {g \in walSynced : g.wal \in walFiles'}
<1>1. CASE FlushInstall
  <2>1. /\ disk' = WithTable(flushMem) /\ manifest' = WithTable(flushMem)
        /\ flushPc = "install" /\ flushPc' = "remove"
        /\ UNCHANGED <<mutable, immutables, flushMem, closeVars, boundVars,
                       applied, acked, pending, group, target, svc, walFileId,
                       nextSequence, lastVisible, lastDurable, pc, req, syncVars, bgError>>
    BY <1>1 DEF FlushInstall, PersistOk
  <2>2. \/ UNCHANGED <<walFiles, walFrames, walSynced>>
        \/ /\ walFiles' = {i \in walFiles : \/ i >= WithTable(flushMem).replayFromWalId
                                            \/ i = walFileId}
           /\ walFrames' = {g \in walFrames : g.wal \in walFiles'}
           /\ walSynced' = {g \in walSynced : g.wal \in walFiles'}
    BY <1>1 DEF FlushInstall, RemoveWalFiles, KeptWalFiles
  <2> HIDE DEF WithTable
  <2> QED BY <2>1, <2>2
<1>2. CASE FlushFails
  <2>1. /\ disk' \in {disk, WithTable(flushMem)} /\ manifest' = manifest
        /\ disk' # disk => flushPc = "install"
        /\ flushPc \in {"write", "install"} /\ flushPc' = "idle" /\ faults' = faults + 1
        /\ UNCHANGED <<walFiles, walFrames, walSynced, mutable, immutables, flushMem,
                       closeVars, crashes, closes, applied, acked, pending, group, target,
                       svc, walFileId, nextSequence, lastVisible, lastDurable, pc, req,
                       syncVars, bgError>>
    BY <1>2 DEF FlushFails, PersistFail
  <2>2. faults \in Nat
    BY DEF TypeOK
  <2> QED BY <2>1, <2>2
<1> QED BY <1>1, <1>2

\* FlushRemove: the oldest immutable memtable goes, or nothing.
LEMMA RemoveEffect ==
    ASSUME TypeOK, FlushRemove
    PROVE  /\ flushPc = "remove" /\ flushPc' = "pick"
           /\ UNCHANGED <<diskVars, manifest, mutable, flushMem, closeVars, boundVars,
                          applied, acked, pending, group, target, svc, walFileId,
                          seqVars, pc, req, syncVars, bgError>>
           /\ \/ immutables' = immutables
              \/ /\ immutables # <<>> /\ 1 \in DOMAIN immutables
                 /\ Head(immutables) = immutables[1]
                 /\ DOMAIN immutables' = 1..(Len(immutables) - 1)
                 /\ \A i \in DOMAIN immutables' : /\ i + 1 \in DOMAIN immutables
                                                  /\ immutables'[i] = immutables[i + 1]
                 /\ \A i \in DOMAIN immutables :
                       i = 1 \/ (/\ i - 1 \in DOMAIN immutables'
                                 /\ immutables'[i - 1] = immutables[i])
<1>1. /\ flushPc = "remove" /\ flushPc' = "pick"
      /\ UNCHANGED <<diskVars, manifest, mutable, flushMem, closeVars, boundVars,
                     applied, acked, pending, group, target, svc, walFileId,
                     seqVars, pc, req, syncVars, bgError>>
      /\ \/ immutables' = immutables
         \/ immutables # <<>> /\ immutables' = Tail(immutables)
  BY DEF FlushRemove
<1>2. ASSUME immutables # <<>>, immutables' = Tail(immutables)
      PROVE  /\ 1 \in DOMAIN immutables
             /\ Head(immutables) = immutables[1]
             /\ DOMAIN immutables' = 1..(Len(immutables) - 1)
             /\ \A i \in DOMAIN immutables' : /\ i + 1 \in DOMAIN immutables
                                              /\ immutables'[i] = immutables[i + 1]
             /\ \A i \in DOMAIN immutables :
                   i = 1 \/ (/\ i - 1 \in DOMAIN immutables'
                             /\ immutables'[i - 1] = immutables[i])
  <2>1. immutables \in Seq(MemTable)
    BY DEF TypeOK
  <2>2. /\ 1 \in DOMAIN immutables /\ Head(immutables) = immutables[1]
        /\ DOMAIN immutables' = 1..(Len(immutables) - 1)
        /\ \A i \in DOMAIN immutables' : /\ i + 1 \in DOMAIN immutables
                                         /\ immutables'[i] = immutables[i + 1]
        /\ DOMAIN immutables = 1..Len(immutables) /\ Len(immutables) \in Nat
    BY <1>2, <2>1, TailElements, SeqElements
  <2>3. ASSUME NEW i \in DOMAIN immutables, i # 1
        PROVE  i - 1 \in DOMAIN immutables' /\ immutables'[i - 1] = immutables[i]
    <3>1. i - 1 \in DOMAIN immutables' /\ (i - 1) + 1 = i
      BY <2>2, <2>3
    <3> QED BY <2>2, <3>1
  <2> QED BY <2>2, <2>3
<1> QED BY <1>1, <1>2

\* When close() finds no memtable to flush there is no record in memory.
LEMMA NothingUnflushed ==
    ASSUME TypeOK, UnflushedMems = {}
    PROVE  immutables = <<>> /\ \A k \in Keys : mutable.primary[k].seq = 0
<1>1. immutables = <<>>
  <2>1. SUFFICES ASSUME immutables # <<>> PROVE FALSE
    OBVIOUS
  <2>2. 1 \in DOMAIN immutables
    BY <2>1, TailElements DEF TypeOK
  <2>3. immutables[1] \in UnflushedMems
    BY <2>2 DEF UnflushedMems
  <2> QED BY <2>3
<1>2. IsEmptyMem(mutable)
  BY DEF UnflushedMems
<1> QED BY <1>1, <1>2 DEF IsEmptyMem

\* CloseTake: the memtables are emptied into closeMem, or the manifest is persisted.
LEMMA TakeEffect ==
    ASSUME TypeOK, CloseTake
    PROVE  /\ closePc = "take" /\ immutables' = <<>> /\ DOMAIN immutables' = {}
           /\ mutable'.walId = manifest.activeWalId
           /\ \A k \in Keys : mutable'.primary[k].seq = 0
           /\ closePc' \in {"install", "pool"}
           /\ UNCHANGED <<walFiles, walFrames, walSynced, manifest, seqVars, svcVars,
                          writerVars, flushVars, syncVars, life, crashes, closes,
                          bgError, pending, applied, acked>>
           /\ \/ /\ closePc' = "install" /\ closeMem' \in MergedMems(UnflushedMems)
                 /\ UNCHANGED <<disk, faults>>
              \/ /\ closePc' = "pool" /\ UnflushedMems = {} /\ disk' \in {disk, manifest}
                 /\ (disk' = manifest /\ faults' = faults) \/ faults' = faults + 1
<1>1. /\ mutable' = EmptyMem(manifest.activeWalId) /\ immutables' = <<>>
      /\ closePc = "take"
      /\ UNCHANGED <<walFiles, walFrames, walSynced, manifest, seqVars, svcVars,
                     writerVars, flushVars, syncVars, life, crashes, closes,
                     bgError, pending, applied, acked>>
  BY DEF CloseTake
<1>2. \/ /\ closePc' = "install" /\ closeMem' \in MergedMems(UnflushedMems)
         /\ UNCHANGED <<disk, faults>>
      \/ /\ closePc' = "pool" /\ UnflushedMems = {} /\ disk' \in {disk, manifest}
         /\ (disk' = manifest /\ faults' = faults) \/ faults' = faults + 1
  <2>1. CASE /\ UnflushedMems # {}
             /\ \E mem \in MergedMems(UnflushedMems) : closeMem' = mem
             /\ closePc' = "install"
             /\ UNCHANGED <<disk, inPlace, faults>>
    BY <2>1
  <2>2. CASE /\ UnflushedMems = {}
             /\ \/ PersistOk(manifest) /\ UNCHANGED faults
                \/ PersistFail(manifest)
             /\ closePc' = "pool"
             /\ UNCHANGED closeMem
    BY <2>2 DEF PersistOk, PersistFail
  <2> QED BY <2>1, <2>2 DEF CloseTake
<1>3. /\ EmptyMem(manifest.activeWalId).walId = manifest.activeWalId
      /\ \A k \in Keys : EmptyMem(manifest.activeWalId).primary[k].seq = 0
  BY DEF EmptyMem, NoRecords, NoRecord
<1>4. DOMAIN <<>> = {}
  OBVIOUS
<1> QED BY <1>1, <1>2, <1>3, <1>4

\* close() installs its merged memtable, or fails to.
LEMMA CloseInstallEffect ==
    ASSUME TypeOK, CloseInstall \/ CloseInstallFails
    PROVE  /\ closePc = "install" /\ closePc' = "pool"
           /\ disk' \in {disk, WithTable(closeMem)}
           /\ \/ /\ manifest' = WithTable(closeMem) /\ disk' = WithTable(closeMem)
                 /\ faults' = faults
              \/ manifest' = manifest /\ faults' = faults + 1
           /\ UNCHANGED <<walFiles, walFrames, walSynced, mutable, immutables, seqVars,
                          svcVars, writerVars, flushVars, syncVars, life, closeMem,
                          crashes, closes, bgError, pending, applied, acked>>
  BY DEF CloseInstall, CloseInstallFails, PersistOk, PersistFail

----------------------------------------------------------------------------
(* Journals.                                                               *)

\* The state JournalInv is about.
journalVars == <<disk, walFiles, walFrames, life, mutable, immutables, manifest, closePc,
                 svc, walFileId, flushPc>>

\* Each action in turn keeps the journals that are needed, and in order.
LEMMA JournalStep ==
    ASSUME TypeOK, TypeOK', LayerInv, CountInv, TakenInv, JournalInv, [Next]_vars
    PROVE  JournalInv'
<1>types. /\ disk.replayFromWalId \in Nat /\ disk.activeWalId \in Nat
          /\ disk.nextWalId \in Nat /\ manifest.activeWalId \in Nat
          /\ manifest.replayFromWalId \in Nat /\ manifest.nextWalId \in Nat
          /\ mutable.walId \in Nat
          /\ \A i \in DOMAIN immutables : immutables[i].walId \in Nat
  BY WalTypes
<1>same. CASE UNCHANGED journalVars
  BY <1>same DEF JournalInv, journalVars
<1>stutter. CASE UNCHANGED vars
  BY <1>stutter, <1>same DEF vars, journalVars
<1>begin. ASSUME NEW w \in Writers, NEW b \in Batches, BeginWrite(w, b) PROVE JournalInv'
  BY <1>begin, <1>same DEF BeginWrite, journalVars
<1>reject. ASSUME NEW w \in Writers, RejectWrite(w) PROVE JournalInv'
  BY <1>reject, <1>same DEF RejectWrite, journalVars
<1>apply. ASSUME NEW w \in Writers, ApplyEnqueue(w) PROVE JournalInv'
  <2>1. PICK mem \in MemTable :
            /\ mem.walId = mutable.walId
            /\ \/ mutable' = mem /\ immutables' = immutables
               \/ /\ immutables' = Append(immutables, mem)
                  /\ DOMAIN immutables' = 1..(Len(immutables) + 1)
                  /\ immutables'[Len(immutables) + 1] = mem
                  /\ \A i \in DOMAIN immutables : immutables'[i] = immutables[i]
                  /\ mutable'.walId = manifest'.activeWalId
    BY <1>apply, ApplyEffect
  <2>2. /\ life = "open" /\ life' = "open" /\ closePc' = closePc /\ closePc = "idle"
        /\ manifest'.replayFromWalId = manifest.replayFromWalId
        /\ manifest.activeWalId <= manifest'.activeWalId
        /\ manifest'.activeWalId <= manifest'.nextWalId
        /\ UNCHANGED <<disk, walFiles, walFrames, svc, walFileId>>
    BY <1>apply, ApplyEffect DEF CountInv
  <2>3. /\ manifest'.activeWalId \in Nat /\ manifest'.nextWalId \in Nat
        /\ DOMAIN immutables = 1..Len(immutables) /\ Len(immutables) \in Nat
    <3>1. manifest' \in Manifest
      BY DEF TypeOK
    <3> QED BY <3>1, WalTypes DEF Manifest
  <2>4. /\ disk.replayFromWalId <= mutable.walId /\ mutable.walId <= manifest.activeWalId
        /\ \A i \in DOMAIN immutables :
              /\ disk.replayFromWalId <= immutables[i].walId
              /\ immutables[i].walId <= manifest.activeWalId
    BY <2>2 DEF JournalInv
  <2>5. /\ disk.replayFromWalId <= mutable'.walId
        /\ mutable'.walId <= manifest'.activeWalId
    BY <1>types, <2>1, <2>2, <2>3, <2>4
  <2>6. \A i \in DOMAIN immutables' :
              /\ disk.replayFromWalId <= immutables'[i].walId
              /\ immutables'[i].walId <= manifest'.activeWalId
    <3> TAKE i \in DOMAIN immutables'
    <3>1. \/ i \in DOMAIN immutables /\ immutables'[i] = immutables[i]
          \/ immutables'[i] = mem
      BY <2>1, <2>3
    <3> QED BY <1>types, <2>1, <2>2, <2>3, <2>4, <3>1
  <2>7. /\ immutables # <<>> => immutables' # <<>>
        /\ flushPc # "remove" => flushPc' # "remove"
    BY <1>apply, <2>1, <2>3 DEF ApplyEnqueue, ScheduleFlush
  <2>8. manifest'.replayFromWalId <= manifest'.activeWalId
    BY <1>types, <2>2, <2>3 DEF JournalInv
  <2> QED BY <2>2, <2>5, <2>6, <2>7, <2>8 DEF JournalInv
<1>service. ASSUME ServiceStep PROVE JournalInv'
  <2>1. UNCHANGED <<disk, life, mutable, immutables, manifest, closePc, flushPc>>
    BY <1>service DEF ServiceStep, ServiceDrain, ServiceStop, CommitOpenWal, CommitAppend,
       CommitSync, CommitFails, CommitPublish, FinalizeOk, FinalizeError
  <2>2. ASSUME CommitAppend \/ CommitFails PROVE \A g \in walFrames' : g.wal \in walFiles'
    <3>1. PICK part \in SUBSET group :
              /\ walFrames' = walFrames \cup {InWal(walFileId, f) : f \in part}
              /\ part # {} => svc = "append"
              /\ walFiles' = walFiles
      BY <2>2 DEF CommitAppend, CommitFails
    <3> QED BY <3>1 DEF JournalInv, InWal
  <2>3. ASSUME ~(CommitAppend \/ CommitFails)
        PROVE  walFrames' = walFrames /\ walFiles \subseteq walFiles'
    BY <1>service, <2>3 DEF ServiceStep, ServiceDrain, ServiceStop, CommitOpenWal,
       CommitSync, CommitPublish, FinalizeOk, FinalizeError
  <2>4. svc' \in {"append", "sync", "publish", "finalize"} => walFileId' \in walFiles'
    BY <1>service DEF ServiceStep, ServiceDrain, ServiceStop, CommitOpenWal, CommitAppend,
       CommitSync, CommitFails, CommitPublish, FinalizeOk, FinalizeError, JournalInv
  <2>5. \A g \in walFrames' : g.wal \in walFiles'
    BY <2>2, <2>3 DEF JournalInv
  <2> QED BY <2>1, <2>4, <2>5 DEF JournalInv
<1>flush. ASSUME FlushPick \/ FlushWriteTable PROVE JournalInv'
  <2>1. /\ UNCHANGED <<disk, walFiles, walFrames, life, mutable, immutables, manifest,
                       closePc, svc, walFileId>>
        /\ flushPc' # "remove"
    BY <1>flush DEF FlushPick, FlushWriteTable
  <2> QED BY <2>1 DEF JournalInv
<1>install. ASSUME FlushInstall \/ FlushFails PROVE JournalInv'
  <2> DEFINE m == WithTable(flushMem)
  <2>1. life # "closed" /\ flushMem \in MemTable
    BY <1>install, FlushEffect DEF LayerInv, TypeOK
  <2>2. /\ m.activeWalId = manifest.activeWalId /\ m.nextWalId = manifest.nextWalId
        /\ m.replayFromWalId \in Nat
        /\ disk.replayFromWalId <= m.replayFromWalId
        /\ m.replayFromWalId <= manifest.activeWalId
        /\ m.replayFromWalId <= mutable.walId
        /\ \A i \in DOMAIN immutables : m.replayFromWalId <= immutables[i].walId
    BY <2>1, WithTableJournals
  <2>3. /\ disk' \in {disk, m}
        /\ \/ manifest' = m /\ disk' = m
           \/ manifest' = manifest /\ flushPc' = "idle"
        /\ UNCHANGED <<mutable, immutables, closePc, life, svc, walFileId>>
        /\ \/ UNCHANGED <<walFiles, walFrames, walSynced>>
           \/ /\ walFiles' = {i \in walFiles : i >= disk'.replayFromWalId \/ i = walFileId}
              /\ walFrames' = {g \in walFrames : g.wal \in walFiles'}
    BY <1>install, FlushEffect
  <2> HIDE DEF m
  <2>4. /\ \A g \in walFrames' : g.wal \in walFiles'
        /\ svc' \in {"append", "sync", "publish", "finalize"} => walFileId' \in walFiles'
    BY <2>3 DEF JournalInv
  <2>5. /\ 1 <= disk'.replayFromWalId
        /\ disk'.replayFromWalId <= disk'.activeWalId
        /\ disk'.activeWalId <= disk'.nextWalId
        /\ disk'.replayFromWalId <= mutable.walId
        /\ \A i \in DOMAIN immutables : disk'.replayFromWalId <= immutables[i].walId
    BY <1>types, <2>1, <2>2, <2>3 DEF JournalInv
  <2>6. /\ manifest'.activeWalId = manifest.activeWalId
        /\ manifest'.nextWalId = manifest.nextWalId
        /\ manifest'.replayFromWalId <= manifest.activeWalId
    BY <1>types, <2>1, <2>2, <2>3 DEF JournalInv
  <2>7. \/ disk'.replayFromWalId <= manifest'.replayFromWalId
        \/ immutables # <<>> /\ flushPc' # "remove"
        \/ closePc \in {"install", "pool"}
    <3>1. CASE manifest' = m /\ disk' = m
      BY <2>2, <3>1
    <3>2. CASE manifest' = manifest /\ flushPc' = "idle"
      <4>1. flushPc \in {"write", "install"}
        BY <1>install, FlushEffect
      <4>2. life = "open" => immutables # <<>>
        BY <4>1 DEF LayerInv, FlushHoldsOldest
      <4>3. life = "closing" => immutables # <<>> \/ closePc \in {"install", "pool"}
        BY <4>1 DEF TakenInv, FlushHoldsOldest
      <4> QED BY <2>1, <3>2, <4>2, <4>3 DEF TypeOK
    <3> QED BY <2>3, <3>1, <3>2
  <2> QED BY <2>1, <2>3, <2>4, <2>5, <2>6, <2>7 DEF JournalInv
<1>remove. ASSUME FlushRemove PROVE JournalInv'
  <2>1. /\ UNCHANGED <<disk, walFiles, walFrames, life, mutable, manifest, closePc, svc,
                       walFileId>>
        /\ flushPc = "remove"
    BY <1>remove, RemoveEffect
  <2>2. \A i \in DOMAIN immutables' : \E j \in DOMAIN immutables :
            immutables'[i] = immutables[j]
    BY <1>remove, RemoveEffect
  <2>3. life # "closed" => \/ disk.replayFromWalId <= manifest.replayFromWalId
                           \/ closePc \in {"install", "pool"}
    BY <2>1 DEF JournalInv
  <2> QED BY <2>1, <2>2, <2>3 DEF JournalInv
<1>syncers. ASSUME NEW s \in Syncers, SyncCall(s) \/ SyncReturn(s) PROVE JournalInv'
  BY <1>syncers, <1>same DEF SyncCall, SyncReturn, journalVars
<1>closing. ASSUME CloseBegin \/ CloseStopService \/ CloseJoin \/ CloseDrain
            PROVE  JournalInv'
  <2>1. /\ UNCHANGED <<disk, walFiles, walFrames, mutable, immutables, manifest,
                       svc, walFileId, flushPc>>
        /\ life # "closed" /\ closePc \notin {"install", "pool"}
    BY <1>closing DEF CloseBegin, CloseStopService, CloseJoin, CloseDrain, CountInv
  <2> QED BY <2>1 DEF JournalInv
<1>take. ASSUME CloseTake PROVE JournalInv'
  <2>1. /\ life = "closing" /\ life' = "closing" /\ closePc' \in {"install", "pool"}
        /\ mutable'.walId = manifest.activeWalId /\ DOMAIN immutables' = {}
        /\ UNCHANGED <<walFiles, walFrames, manifest, svc, walFileId>>
        /\ disk' \in {disk, manifest}
        /\ disk' # disk => UnflushedMems = {}
    BY <1>take, TakeEffect DEF CountInv, TypeOK
  <2>2. UnflushedMems = {} => immutables = <<>>
    BY NothingUnflushed
  <2>3. CASE disk' = disk
    BY <1>types, <2>1, <2>3 DEF JournalInv
  <2>4. CASE disk' = manifest /\ disk' # disk
    <3>1. disk.replayFromWalId <= manifest.replayFromWalId
      BY <1>take, <2>1, <2>2, <2>4 DEF JournalInv, CloseTake
    <3> QED BY <1>types, <2>1, <2>4, <3>1 DEF JournalInv
  <2> QED BY <2>1, <2>3, <2>4
<1>closeInstall. ASSUME CloseInstall \/ CloseInstallFails PROVE JournalInv'
  <2> DEFINE m == WithTable(closeMem)
  <2>1. /\ closePc = "install" /\ life = "closing" /\ closeMem \in MemTable
        /\ closePc' = "pool"
        /\ disk' \in {disk, m} /\ manifest' \in {manifest, m}
        /\ UNCHANGED <<walFiles, walFrames, mutable, immutables, life, svc, walFileId>>
    BY <1>closeInstall, CloseInstallEffect DEF CountInv, TypeOK
  <2>2. /\ m.activeWalId = manifest.activeWalId /\ m.nextWalId = manifest.nextWalId
        /\ m.replayFromWalId \in Nat
        /\ disk.replayFromWalId <= m.replayFromWalId
        /\ m.replayFromWalId <= manifest.activeWalId
        /\ m.replayFromWalId <= mutable.walId
        /\ \A i \in DOMAIN immutables : m.replayFromWalId <= immutables[i].walId
    BY <2>1, WithTableJournals
  <2> HIDE DEF m
  <2> QED BY <1>types, <2>1, <2>2 DEF JournalInv
<1>forget. ASSUME CloseReset \/ \E kind \in CrashKinds : Crash(kind) PROVE JournalInv'
  <2>1. /\ life' = "closed" /\ svc' = "left" /\ UNCHANGED <<disk, walFiles>>
        /\ walFrames' \subseteq walFrames
    BY <1>forget DEF CloseReset, Crash, ForgetState, TypeOK
  <2> QED BY <2>1 DEF JournalInv
<1>reopen. ASSUME Open PROVE JournalInv'
  <2>1. /\ immutables' = <<>> /\ svc' = "drain" /\ disk' = disk
    BY <1>reopen, ZenonT(60) DEF Open
  <2>2. DOMAIN immutables' = {}
    BY <2>1
  <2>3. /\ disk.replayFromWalId <= mutable'.walId
        /\ mutable'.walId <= manifest'.activeWalId
        /\ disk.replayFromWalId <= manifest'.replayFromWalId
        /\ manifest'.replayFromWalId <= manifest'.activeWalId
        /\ manifest'.activeWalId <= manifest'.nextWalId
        /\ walFrames' = {g \in walFrames : g.wal \in walFiles'}
    BY <1>reopen, OpenEffect
  <2> QED BY <2>1, <2>2, <2>3 DEF JournalInv
<1> QED
  BY <1>stutter, <1>begin, <1>reject, <1>apply, <1>service, <1>flush, <1>install,
     <1>remove, <1>syncers, <1>closing, <1>take, <1>closeInstall, <1>forget, <1>reopen
     DEF Next, WriterStep, FlushStep, CloseStep

----------------------------------------------------------------------------
(* What close() takes, and how far the disk may be ahead of the memory.    *)

\* The counters stay within their bounds; close() runs while the database is closing.
LEMMA CountStep ==
    ASSUME TypeOK, CountInv, [Next]_vars
    PROVE  CountInv'
<1>bounds. /\ faults \in Nat /\ closes \in Nat /\ MaxFaults \in Nat /\ MaxCloses \in Nat
           /\ life \in {"open", "closing", "closed"}
  BY BoundsAssumption DEF TypeOK
<1>same. CASE UNCHANGED <<faults, closes, life, closePc>>
  BY <1>same DEF CountInv
<1>stutter. CASE UNCHANGED vars
  BY <1>stutter, <1>same DEF vars
<1>writers. ASSUME NEW w \in Writers, WriterStep(w) \/ \E b \in Batches : BeginWrite(w, b)
            PROVE  CountInv'
  BY <1>writers, <1>same DEF WriterStep, BeginWrite, RejectWrite, ApplyEnqueue
<1>service. ASSUME ServiceStep PROVE CountInv'
  <2>1. /\ UNCHANGED <<closes, life, closePc>>
        /\ faults' = faults \/ (faults < MaxFaults /\ faults' = faults + 1)
    BY <1>service DEF ServiceStep, ServiceDrain, ServiceStop, CommitOpenWal, CommitAppend,
       CommitSync, CommitFails, CommitPublish, FinalizeOk, FinalizeError
  <2> QED BY <1>bounds, <2>1 DEF CountInv
<1>flush. ASSUME FlushStep PROVE CountInv'
  <2>1. /\ UNCHANGED <<closes, life, closePc>>
        /\ faults' = faults \/ (faults < MaxFaults /\ faults' = faults + 1)
    BY <1>flush DEF FlushStep, FlushPick, FlushWriteTable, FlushInstall, FlushFails,
       PersistFail, FlushRemove
  <2> QED BY <1>bounds, <2>1 DEF CountInv
<1>syncers. ASSUME NEW s \in Syncers, SyncCall(s) \/ SyncReturn(s) PROVE CountInv'
  BY <1>syncers, <1>same DEF SyncCall, SyncReturn
<1>closing. ASSUME CloseBegin PROVE CountInv'
  BY <1>bounds, <1>closing DEF CloseBegin, CountInv
<1>close. ASSUME CloseStopService \/ CloseJoin \/ CloseDrain \/ CloseTake
                 \/ CloseInstall \/ CloseInstallFails
          PROVE  CountInv'
  <2>1. /\ UNCHANGED <<closes, life>> /\ closePc # "idle" /\ closePc' # "idle"
        /\ faults' = faults \/ (faults < MaxFaults /\ faults' = faults + 1)
    BY <1>close DEF CloseStopService, CloseJoin, CloseDrain, CloseTake, CloseInstall,
       CloseInstallFails, PersistFail
  <2> QED BY <1>bounds, <2>1 DEF CountInv
<1>forget. ASSUME CloseReset \/ \E kind \in CrashKinds : Crash(kind) PROVE CountInv'
  BY <1>forget DEF CloseReset, Crash, ForgetState, CountInv
<1>reopen. ASSUME Open PROVE CountInv'
  BY <1>reopen DEF Open, CountInv
<1> QED
  BY <1>stutter, <1>writers, <1>service, <1>flush, <1>syncers, <1>closing, <1>close,
     <1>forget, <1>reopen DEF Next, CloseStep

\* close() takes the memtables away from a flush that is still running: each action
\* keeps what either of them relies on.
LEMMA TakenStep ==
    ASSUME TypeOK, LayerInv, CountInv, TakenInv, [Next]_vars
    PROVE  TakenInv'
<1>same. CASE UNCHANGED <<life, closePc, immutables, mutable, flushPc, flushMem, manifest>>
  BY <1>same DEF TakenInv, FlushHoldsOldest
<1>stutter. CASE UNCHANGED vars
  BY <1>stutter, <1>same DEF vars
<1>writers. ASSUME NEW w \in Writers, WriterStep(w) \/ \E b \in Batches : BeginWrite(w, b)
            PROVE  TakenInv'
  <2>1. CASE ApplyEnqueue(w)
    BY <2>1 DEF ApplyEnqueue, TakenInv
  <2>2. CASE RejectWrite(w) \/ \E b \in Batches : BeginWrite(w, b)
    BY <1>same, <2>2 DEF BeginWrite, RejectWrite
  <2> QED BY <1>writers, <2>1, <2>2 DEF WriterStep
<1>service. ASSUME ServiceStep PROVE TakenInv'
  <2>1. UNCHANGED <<life, closePc, immutables, mutable, flushPc, flushMem, manifest>>
    BY <1>service DEF ServiceStep, ServiceDrain, ServiceStop, CommitOpenWal, CommitAppend,
       CommitSync, CommitFails, CommitPublish, FinalizeOk, FinalizeError
  <2> QED BY <1>same, <2>1
<1>flush. ASSUME FlushPick \/ FlushWriteTable PROVE TakenInv'
  <2>1. /\ UNCHANGED <<life, closePc, immutables, mutable, manifest>>
        /\ \/ life = "closing" => flushPc' = "idle"
           \/ flushPc = "write" /\ flushPc' = "install" /\ flushMem' = flushMem
    BY <1>flush DEF FlushPick, FlushWriteTable
  <2> QED BY <2>1 DEF TakenInv, FlushHoldsOldest
<1>install. ASSUME FlushInstall \/ FlushFails PROVE TakenInv'
  <2>1. /\ UNCHANGED <<life, closePc, immutables, mutable, flushMem>>
        /\ flushPc \in {"write", "install"}
        /\ \/ flushPc' = "idle"
           \/ flushPc' = "remove" /\ manifest' = WithTable(flushMem)
    BY <1>install, FlushEffect
  <2>2. \A k \in Keys : flushMem.primary[k].seq <= WithTable(flushMem).tables[k].seq
    BY WithTableGrows DEF TypeOK
  <2> QED BY <2>1, <2>2 DEF TakenInv, FlushHoldsOldest
<1>remove. ASSUME FlushRemove PROVE TakenInv'
  <2>1. /\ UNCHANGED <<life, closePc, mutable>> /\ flushPc' = "pick"
        /\ immutables = <<>> => immutables' = <<>>
    BY <1>remove DEF FlushRemove
  <2> QED BY <2>1 DEF TakenInv, FlushHoldsOldest
<1>syncers. ASSUME NEW s \in Syncers, SyncCall(s) \/ SyncReturn(s) PROVE TakenInv'
  BY <1>syncers, <1>same DEF SyncCall, SyncReturn
<1>closing. ASSUME CloseBegin PROVE TakenInv'
  BY <1>closing DEF CloseBegin, TakenInv, LayerInv, FlushHoldsOldest
<1>stopping. ASSUME CloseStopService \/ CloseJoin \/ CloseDrain PROVE TakenInv'
  <2>1. /\ UNCHANGED <<life, immutables, mutable, flushPc, flushMem, manifest>>
        /\ closePc \notin {"install", "pool"} /\ closePc' \notin {"install", "pool"}
    BY <1>stopping DEF CloseStopService, CloseJoin, CloseDrain
  <2> QED BY <2>1 DEF TakenInv, FlushHoldsOldest
<1>take. ASSUME CloseTake PROVE TakenInv'
  BY <1>take, TakeEffect DEF TakenInv
<1>closeInstall. ASSUME CloseInstall \/ CloseInstallFails PROVE TakenInv'
  BY <1>closeInstall, CloseInstallEffect DEF TakenInv
<1>forget. ASSUME CloseReset \/ \E kind \in CrashKinds : Crash(kind) PROVE TakenInv'
  BY <1>forget DEF CloseReset, Crash, ForgetState, TakenInv
<1>reopen. ASSUME Open PROVE TakenInv'
  BY <1>reopen DEF Open, TakenInv
<1> QED
  BY <1>stutter, <1>writers, <1>service, <1>flush, <1>install, <1>remove, <1>syncers,
     <1>closing, <1>stopping, <1>take, <1>closeInstall, <1>forget, <1>reopen
     DEF Next, FlushStep, CloseStep

\* The disk is never behind manifest_, and ahead of it only by the oldest memtable.
LEMMA AheadStep ==
    ASSUME TypeOK, TypeOK', LayerInv, CountInv, JournalInv, AheadInv, [Next]_vars
    PROVE  AheadInv'
<1>types. /\ disk.maxSequence \in Nat /\ manifest.maxSequence \in Nat
          /\ flushMem.maxSeq \in Nat /\ closeMem.maxSeq \in Nat /\ faults \in Nat
          /\ \A k \in Keys : /\ disk.tables[k].seq \in Nat /\ manifest.tables[k].seq \in Nat
                             /\ flushMem.primary[k].seq \in Nat
  BY WalTypes, LayerTypes DEF TypeOK
<1>same. CASE UNCHANGED <<disk, manifest, life, immutables, flushPc, flushMem, faults>>
  BY <1>same DEF AheadInv
<1>stutter. CASE UNCHANGED vars
  BY <1>stutter, <1>same DEF vars
<1>begin. ASSUME NEW w \in Writers, NEW b \in Batches, BeginWrite(w, b) PROVE AheadInv'
  BY <1>begin, <1>same DEF BeginWrite
<1>reject. ASSUME NEW w \in Writers, RejectWrite(w) PROVE AheadInv'
  BY <1>reject, <1>same DEF RejectWrite
<1>apply. ASSUME NEW w \in Writers, ApplyEnqueue(w) PROVE AheadInv'
  <2>1. /\ manifest'.tables = manifest.tables
        /\ manifest'.maxSequence = manifest.maxSequence
        /\ UNCHANGED <<disk, life, flushMem, faults>>
        /\ flushPc' = "remove" => flushPc = "remove"
    BY <1>apply, ApplyEffect DEF ApplyEnqueue, ScheduleFlush
  <2>2. PICK mem \in MemTable : immutables' = immutables \/ immutables' = Append(immutables, mem)
    BY <1>apply, ApplyEffect
  <2>3. immutables # <<>> => immutables' # <<>> /\ Head(immutables') = Head(immutables)
    BY <2>2, AppendHead DEF TypeOK
  <2> QED BY <2>1, <2>3 DEF AheadInv
<1>service. ASSUME ServiceStep PROVE AheadInv'
  <2>1. /\ UNCHANGED <<disk, manifest, life, immutables, flushPc, flushMem>>
        /\ faults' = faults \/ faults' = faults + 1
    BY <1>service DEF ServiceStep, ServiceDrain, ServiceStop, CommitOpenWal, CommitAppend,
       CommitSync, CommitFails, CommitPublish, FinalizeOk, FinalizeError
  <2> QED BY <1>types, <2>1 DEF AheadInv
<1>flush. ASSUME FlushPick \/ FlushWriteTable PROVE AheadInv'
  <2>1. /\ UNCHANGED <<disk, manifest, life, immutables, faults>> /\ flushPc' # "remove"
    BY <1>flush DEF FlushPick, FlushWriteTable
  <2> QED BY <2>1 DEF AheadInv
<1>install. ASSUME FlushInstall \/ FlushFails PROVE AheadInv'
  <2> DEFINE m == WithTable(flushMem)
  <2>1. /\ UNCHANGED <<life, immutables, flushMem>> /\ disk' \in {disk, m}
        /\ \/ manifest' = m /\ disk' = m
           \/ manifest' = manifest /\ flushPc' = "idle" /\ faults' = faults + 1
        /\ flushPc \in {"write", "install"}
    BY <1>install, FlushEffect
  <2>2. /\ m.maxSequence \in {manifest.maxSequence, flushMem.maxSeq}
        /\ manifest.maxSequence <= m.maxSequence /\ flushMem.maxSeq <= m.maxSequence
        /\ \A k \in Keys :
              /\ m.tables[k].seq \in {manifest.tables[k].seq, flushMem.primary[k].seq}
              /\ manifest.tables[k].seq <= m.tables[k].seq
    BY WithTableGrows DEF TypeOK
  <2>3. life = "open" => immutables # <<>> /\ flushMem = Head(immutables)
    BY <2>1 DEF LayerInv, FlushHoldsOldest
  <2> HIDE DEF m
  <2>4. CASE manifest' = m /\ disk' = m
    BY <1>types, <2>1, <2>2, <2>4 DEF AheadInv
  <2>5. CASE manifest' = manifest /\ flushPc' = "idle" /\ faults' = faults + 1
    <3>1. /\ faults' # 0
      BY <1>types, <2>5
    <3>2. CASE disk' = disk
      BY <2>1, <2>5, <3>1, <3>2 DEF AheadInv
    <3>3. CASE disk' = m
      BY <1>types, <2>1, <2>2, <2>3, <2>5, <3>1, <3>3 DEF AheadInv
    <3> QED BY <2>1, <3>2, <3>3
  <2> QED BY <2>1, <2>4, <2>5
<1>remove. ASSUME FlushRemove PROVE AheadInv'
  <2>1. /\ UNCHANGED <<disk, manifest, life, faults>> /\ flushPc' = "pick"
        /\ flushPc = "remove"
    BY <1>remove, RemoveEffect
  <2>2. ASSUME life = "open"
        PROVE  /\ disk.maxSequence <= manifest.maxSequence
               /\ \A k \in Keys : disk.tables[k].seq <= manifest.tables[k].seq
    <3>1. /\ flushMem = Head(immutables) /\ flushMem.maxSeq <= manifest.maxSequence
          /\ \A k \in Keys : flushMem.primary[k].seq <= manifest.tables[k].seq
      BY <2>1, <2>2 DEF LayerInv, FlushHoldsOldest, AheadInv
    <3> QED BY <1>types, <2>2, <3>1 DEF AheadInv
  <2> QED BY <2>1, <2>2 DEF AheadInv
<1>syncers. ASSUME NEW s \in Syncers, SyncCall(s) \/ SyncReturn(s) PROVE AheadInv'
  BY <1>syncers, <1>same DEF SyncCall, SyncReturn
<1>closing. ASSUME CloseBegin \/ CloseStopService \/ CloseJoin \/ CloseDrain
            PROVE  AheadInv'
  <2>1. /\ UNCHANGED <<disk, manifest, faults>> /\ life # "closed" /\ life' = "closing"
    BY <1>closing DEF CloseBegin, CloseStopService, CloseJoin, CloseDrain, CountInv
  <2> QED BY <2>1 DEF AheadInv
<1>take. ASSUME CloseTake PROVE AheadInv'
  <2>1. /\ life = "closing" /\ life' = "closing" /\ manifest' = manifest
        /\ disk' \in {disk, manifest}
        /\ faults' = faults \/ faults' = faults + 1
    BY <1>take, TakeEffect DEF CountInv
  <2> QED BY <1>types, <2>1 DEF AheadInv
<1>closeInstall. ASSUME CloseInstall \/ CloseInstallFails PROVE AheadInv'
  <2> DEFINE m == WithTable(closeMem)
  <2>1. /\ life = "closing" /\ life' = "closing" /\ disk' \in {disk, m}
        /\ \/ manifest' = m /\ disk' = m
           \/ manifest' = manifest /\ faults' = faults + 1
    BY <1>closeInstall, CloseInstallEffect DEF CountInv
  <2>2. /\ m.maxSequence \in {manifest.maxSequence, closeMem.maxSeq}
        /\ manifest.maxSequence <= m.maxSequence
        /\ \A k \in Keys : manifest.tables[k].seq <= m.tables[k].seq
    BY WithTableGrows DEF TypeOK
  <2>3. m \in Manifest
    BY WithTableType DEF TypeOK
  <2>4. m.maxSequence \in Nat /\ \A k \in Keys : m.tables[k].seq \in Nat
    BY <2>3, FieldTypes
  <2> HIDE DEF m
  <2> QED BY <1>types, <2>1, <2>2, <2>4 DEF AheadInv
<1>forget. ASSUME CloseReset \/ \E kind \in CrashKinds : Crash(kind) PROVE AheadInv'
  BY <1>forget DEF CloseReset, Crash, ForgetState, AheadInv
<1>reopen. ASSUME Open PROVE AheadInv'
  <2>1. /\ manifest'.tables = disk.tables /\ manifest'.maxSequence = disk.maxSequence
    BY <1>reopen, OpenEffect
  <2>2. disk' = disk /\ flushPc' = flushPc /\ life = "closed"
    BY <1>reopen DEF Open
  <2>3. flushPc' = "idle"
    BY <2>2 DEF LayerInv
  <2> QED BY <1>types, <2>1, <2>2, <2>3 DEF AheadInv
<1> QED
  BY <1>stutter, <1>begin, <1>reject, <1>apply, <1>service, <1>flush, <1>install,
     <1>remove, <1>syncers, <1>closing, <1>take, <1>closeInstall, <1>forget, <1>reopen
     DEF Next, WriterStep, FlushStep, CloseStep

\* The part of the invariant that does not mention the history variables.
BaseInv == JournalInv /\ CountInv /\ TakenInv /\ AheadInv

\* It holds in every reachable state.
LEMMA BaseHolds == Spec => []BaseInv
<1>1. Init => BaseInv
  <2> SUFFICES ASSUME Init PROVE BaseInv
    OBVIOUS
  <2>1. /\ disk.replayFromWalId = 1 /\ disk.activeWalId = 1 /\ disk.nextWalId = 2
    BY DEF Init, NewManifest
  <2>2. JournalInv
    BY <2>1 DEF Init, JournalInv
  <2>3. CountInv
    BY BoundsAssumption DEF Init, CountInv
  <2>4. TakenInv /\ AheadInv
    BY DEF Init, TakenInv, AheadInv
  <2> QED BY <2>2, <2>3, <2>4 DEF BaseInv
<1>2. TypeOK /\ TypeOK' /\ LayerInv /\ BaseInv /\ [Next]_vars => BaseInv'
  BY JournalStep, CountStep, TakenStep, AheadStep DEF BaseInv
<1> QED BY <1>1, <1>2, TypeCorrect, LayersHold, PTL DEF Spec

\* Only flushes and close() write a manifest.
LEMMA DiskWriters ==
    ASSUME [Next]_vars
    PROVE  \/ disk' = disk
           \/ FlushInstall \/ FlushFails
           \/ CloseTake \/ CloseInstall \/ CloseInstallFails
<1> SUFFICES ASSUME ~(FlushInstall \/ FlushFails), ~CloseTake,
                    ~(CloseInstall \/ CloseInstallFails)
             PROVE  disk' = disk
  OBVIOUS
<1>1. CASE UNCHANGED vars
  BY <1>1 DEF vars
<1>2. ASSUME NEW w \in Writers, WriterStep(w) \/ \E b \in Batches : BeginWrite(w, b)
      PROVE  disk' = disk
  BY <1>2 DEF WriterStep, BeginWrite, RejectWrite, ApplyEnqueue
<1>3. ASSUME ServiceStep PROVE disk' = disk
  BY <1>3 DEF ServiceStep, ServiceDrain, ServiceStop, CommitOpenWal, CommitAppend,
     CommitSync, CommitFails, CommitPublish, FinalizeOk, FinalizeError
<1>4. ASSUME FlushStep PROVE disk' = disk
  BY <1>4 DEF FlushStep, FlushPick, FlushWriteTable, FlushRemove
<1>5. ASSUME NEW s \in Syncers, SyncCall(s) \/ SyncReturn(s) PROVE disk' = disk
  BY <1>5 DEF SyncCall, SyncReturn
<1>6. ASSUME CloseBegin \/ CloseStep PROVE disk' = disk
  BY <1>6 DEF CloseBegin, CloseStep, CloseStopService, CloseJoin, CloseDrain, CloseReset
<1>7. ASSUME NEW kind \in CrashKinds, Crash(kind) PROVE disk' = disk
  BY <1>7 DEF Crash
<1>8. ASSUME Open PROVE disk' = disk
  BY <1>8, ZenonT(60) DEF Open
<1> QED BY <1>1, <1>2, <1>3, <1>4, <1>5, <1>6, <1>7, <1>8 DEF Next

\* A step that persists a manifest never lowers the journal to replay from and, unless
\* both a failed persist and a close() are possible, never lowers the watermark.
LEMMA MonotoneStep ==
    ASSUME MaxFaults = 0 \/ MaxCloses = 0,
           TypeOK, TypeOK', LayerInv, BaseInv, [Next]_vars
    PROVE  /\ disk'.maxSequence >= disk.maxSequence
           /\ disk'.replayFromWalId >= disk.replayFromWalId
<1> DEFINE Goal == /\ disk'.maxSequence >= disk.maxSequence
                   /\ disk'.replayFromWalId >= disk.replayFromWalId
<1>types. /\ disk.maxSequence \in Nat /\ manifest.maxSequence \in Nat
          /\ disk.replayFromWalId \in Nat /\ faults \in Nat /\ closes \in Nat
          /\ manifest.replayFromWalId \in Nat
          /\ flushMem.maxSeq \in Nat /\ closeMem.maxSeq \in Nat
          /\ flushMem \in MemTable /\ closeMem \in MemTable
  BY WalTypes DEF TypeOK
<1>same. CASE disk' = disk
  BY <1>same, <1>types
<1>closing. life = "closing" => MaxFaults = 0
  BY <1>types, BoundsAssumption DEF BaseInv, CountInv
<1>none. MaxFaults = 0 => faults = 0 /\ faults' = 0
  <2>1. CountInv'
    BY CountStep DEF BaseInv
  <2>2. faults' \in Nat
    BY DEF TypeOK
  <2> QED BY <1>types, <2>1, <2>2 DEF BaseInv, CountInv
<1>install. ASSUME FlushInstall \/ FlushFails PROVE Goal
  <2> DEFINE m == WithTable(flushMem)
  <2>1. /\ disk' \in {disk, m} /\ life # "closed" /\ flushPc \in {"write", "install"}
    BY <1>install, FlushEffect DEF LayerInv
  <2>2. /\ manifest.maxSequence <= m.maxSequence /\ flushMem.maxSeq <= m.maxSequence
        /\ m.maxSequence \in Nat
    BY <1>types, WithTableGrows
  <2>3. disk.replayFromWalId <= m.replayFromWalId /\ m.replayFromWalId \in Nat
    BY <1>types, <2>1, WithTableJournals DEF BaseInv
  <2> HIDE DEF m
  <2>4. disk.maxSequence <= m.maxSequence
    <3>1. CASE life = "open"
      <4>1. flushMem = Head(immutables)
        BY <2>1, <3>1 DEF LayerInv, FlushHoldsOldest
      <4> QED BY <1>types, <2>2, <3>1, <4>1 DEF BaseInv, AheadInv
    <3>2. CASE life = "closing"
      BY <1>types, <1>closing, <1>none, <2>2, <3>2 DEF BaseInv, AheadInv
    <3> QED BY <2>1, <3>1, <3>2 DEF TypeOK
  <2> QED BY <1>types, <2>1, <2>2, <2>3, <2>4
<1>take. ASSUME CloseTake PROVE Goal
  <2>1. /\ life = "closing" /\ disk' \in {disk, manifest}
        /\ disk' # disk => UnflushedMems = {}
        /\ closePc \notin {"install", "pool"}
    BY <1>take, TakeEffect DEF BaseInv, CountInv
  <2>2. CASE disk' = manifest /\ disk' # disk
    <3>1. immutables = <<>>
      BY <2>1, <2>2, NothingUnflushed
    <3>2. disk.replayFromWalId <= manifest.replayFromWalId
      BY <2>1, <3>1 DEF BaseInv, JournalInv
    <3>3. disk.maxSequence <= manifest.maxSequence
      BY <1>closing, <1>none, <2>1 DEF BaseInv, AheadInv
    <3> QED BY <1>types, <2>2, <3>2, <3>3
  <2> QED BY <1>same, <2>1, <2>2
<1>closeInstall. ASSUME CloseInstall \/ CloseInstallFails PROVE Goal
  <2> DEFINE m == WithTable(closeMem)
  <2>1. disk' \in {disk, m} /\ life = "closing"
    BY <1>closeInstall, CloseInstallEffect DEF BaseInv, CountInv
  <2>2. manifest.maxSequence <= m.maxSequence /\ m.maxSequence \in Nat
    BY <1>types, WithTableGrows
  <2>3. disk.replayFromWalId <= m.replayFromWalId /\ m.replayFromWalId \in Nat
    BY <1>types, <2>1, WithTableJournals DEF BaseInv
  <2> HIDE DEF m
  <2>4. disk.maxSequence <= m.maxSequence
    BY <1>types, <1>closing, <1>none, <2>1, <2>2 DEF BaseInv, AheadInv
  <2> QED BY <1>types, <2>1, <2>2, <2>3, <2>4
<1> QED BY <1>same, <1>install, <1>take, <1>closeInstall, DiskWriters

\* The manifest on disk never goes back to an older journal or a lower watermark, for
\* any number of writers, crashes and calls, when no I/O call fails or close() is never
\* called.  (With both it can: a final flush that fails after it replaced the manifest
\* in place is followed by the background flush, which persists the older state.)
THEOREM DiskNeverMovesBack ==
    ASSUME MaxFaults = 0 \/ MaxCloses = 0
    PROVE  Spec => DiskMonotone
<1>1. TypeOK /\ TypeOK' /\ LayerInv /\ BaseInv /\ [Next]_vars
         => [/\ disk'.maxSequence >= disk.maxSequence
             /\ disk'.replayFromWalId >= disk.replayFromWalId]_vars
  BY MonotoneStep DEF BaseInv
<1> QED BY <1>1, TypeCorrect, LayersHold, BaseHolds, PTL DEF Spec, DiskMonotone

----------------------------------------------------------------------------
(* close() loses nothing.                                                  *)

\* The memtable close() flushes holds the records of all it was merged from.
LEMMA MergedHolds ==
    ASSUME NEW mem \in MergedMems(UnflushedMems), NEW k \in Keys
    PROVE  /\ \A i \in DOMAIN immutables :
                 immutables[i].primary[k].seq <= mem.primary[k].seq
           /\ \/ mutable.primary[k].seq = 0
              \/ mutable.primary[k].seq <= mem.primary[k].seq
<1>1. \A p \in UnflushedMems : p.primary[k].seq <= mem.primary[k].seq
  BY DEF MergedMems
<1>2. \A i \in DOMAIN immutables : immutables[i] \in UnflushedMems
  BY DEF UnflushedMems
<1>3. mutable.primary[k].seq = 0 \/ mutable \in UnflushedMems
  BY DEF UnflushedMems, IsEmptyMem
<1> QED BY <1>1, <1>2, <1>3

\* Each step of close(), and each step of the threads that still run, keeps every
\* applied write in a place that reaches the tables.
LEMMA ClosingStep ==
    ASSUME TypeOK, TypeOK', LayerInv, BaseInv, ClosingInv, [Next]_vars
    PROVE  ClosingInv'
<1> DEFINE Held(f, k) ==
        \/ f.seq <= mutable.primary[k].seq
        \/ \E i \in DOMAIN immutables : f.seq <= immutables[i].primary[k].seq
        \/ f.seq <= manifest.tables[k].seq
        \/ closePc = "install" /\ f.seq <= closeMem.primary[k].seq
<1>types. /\ faults \in Nat
          /\ \A f \in applied : \A k \in DOMAIN f.batch : f.seq \in Nat /\ k \in Keys
          /\ \A k \in Keys :
                /\ mutable.primary[k].seq \in Nat /\ flushMem.primary[k].seq \in Nat
                /\ manifest.tables[k].seq \in Nat /\ disk.tables[k].seq \in Nat
                /\ closeMem.primary[k].seq \in Nat
                /\ manifest'.tables[k].seq \in Nat
                /\ \A i \in DOMAIN immutables : immutables[i].primary[k].seq \in Nat
  <2>1. closeMem \in MemTable /\ manifest' \in Manifest /\ applied \subseteq Frame
        /\ faults \in Nat
    BY DEF TypeOK
  <2> QED BY <2>1, FieldTypes, LayerTypes
<1>held. faults = 0 /\ life = "closing" => \A f \in applied : \A k \in DOMAIN f.batch : Held(f, k)
  BY DEF ClosingInv
<1>same. CASE UNCHANGED <<faults, life, applied, disk, manifest, mutable, immutables,
                          closePc, closeMem>>
  BY <1>same DEF ClosingInv, TablesCover
<1>stutter. CASE UNCHANGED vars
  BY <1>stutter, <1>same DEF vars
<1>writers. ASSUME NEW w \in Writers, WriterStep(w) \/ \E b \in Batches : BeginWrite(w, b)
            PROVE  ClosingInv'
  <2>1. CASE ApplyEnqueue(w)
    BY <2>1 DEF ApplyEnqueue, ClosingInv
  <2>2. CASE RejectWrite(w) \/ \E b \in Batches : BeginWrite(w, b)
    BY <1>same, <2>2 DEF BeginWrite, RejectWrite
  <2> QED BY <1>writers, <2>1, <2>2 DEF WriterStep
<1>service. ASSUME ServiceStep PROVE ClosingInv'
  <2>1. /\ UNCHANGED <<life, applied, disk, manifest, mutable, immutables, closePc, closeMem>>
        /\ faults' = faults \/ faults' = faults + 1
    BY <1>service DEF ServiceStep, ServiceDrain, ServiceStop, CommitOpenWal, CommitAppend,
       CommitSync, CommitFails, CommitPublish, FinalizeOk, FinalizeError
  <2>2. faults' = 0 => faults = 0
    BY <1>types, <2>1
  <2> QED BY <2>1, <2>2 DEF ClosingInv, TablesCover
<1>flush. ASSUME FlushPick \/ FlushWriteTable PROVE ClosingInv'
  BY <1>flush, <1>same DEF FlushPick, FlushWriteTable
<1>install. ASSUME FlushInstall \/ FlushFails PROVE ClosingInv'
  <2>1. /\ life # "closed" /\ UNCHANGED <<life, applied, mutable, immutables, closePc, closeMem>>
        /\ \/ manifest' = WithTable(flushMem) /\ faults' = faults
           \/ faults' = faults + 1
    BY <1>install, FlushEffect DEF LayerInv
  <2>2. \A k \in Keys : manifest.tables[k].seq <= WithTable(flushMem).tables[k].seq
    BY WithTableGrows DEF TypeOK
  <2>3. ASSUME faults' = 0, life' = "closing", NEW f \in applied, NEW k \in DOMAIN f.batch
        PROVE  Held(f, k)'
    <3>1. faults = 0 /\ manifest' = WithTable(flushMem)
      BY <1>types, <2>1, <2>3
    <3>2. Held(f, k)
      BY <1>held, <2>1, <2>3, <3>1
    <3>3. /\ manifest.tables[k].seq <= manifest'.tables[k].seq /\ f.seq \in Nat
          /\ manifest.tables[k].seq \in Nat /\ manifest'.tables[k].seq \in Nat
      BY <1>types, <2>2, <2>3, <3>1
    <3> QED BY <2>1, <3>2, <3>3
  <2> QED BY <2>1, <2>3 DEF ClosingInv
<1>remove. ASSUME FlushRemove PROVE ClosingInv'
  <2>1. /\ flushPc = "remove" /\ life # "closed"
        /\ UNCHANGED <<life, applied, mutable, manifest, closePc, closeMem, faults>>
    BY <1>remove, RemoveEffect DEF LayerInv
  <2>2. CASE immutables' = immutables
    BY <2>1, <2>2 DEF ClosingInv
  <2>3. CASE immutables' # immutables
    <3>1. /\ immutables # <<>> /\ Head(immutables) = immutables[1]
          /\ \A i \in DOMAIN immutables :
                i = 1 \/ (/\ i - 1 \in DOMAIN immutables'
                          /\ immutables'[i - 1] = immutables[i])
      BY <1>remove, <2>3, RemoveEffect
    <3>2. ASSUME faults = 0, life = "closing", NEW f \in applied, NEW k \in DOMAIN f.batch
          PROVE  Held(f, k)'
      <4>1. \A kk \in Keys : flushMem.primary[kk].seq <= manifest.tables[kk].seq
            /\ flushMem = Head(immutables)
        BY <2>1, <3>1, <3>2 DEF BaseInv, TakenInv, FlushHoldsOldest
      <4>2. Held(f, k) /\ k \in Keys /\ f.seq \in Nat
        BY <1>held, <1>types, <3>2
      <4>3. f.seq <= immutables[1].primary[k].seq => f.seq <= manifest.tables[k].seq
        BY <1>types, <3>1, <4>1, <4>2
      <4>4. \A i \in DOMAIN immutables : f.seq <= immutables[i].primary[k].seq =>
                \/ f.seq <= manifest.tables[k].seq
                \/ \E j \in DOMAIN immutables' : f.seq <= immutables'[j].primary[k].seq
        BY <3>1, <4>3
      <4> QED BY <2>1, <4>2, <4>4
    <3> QED BY <2>1, <3>2 DEF ClosingInv
  <2> QED BY <2>2, <2>3
<1>syncers. ASSUME NEW s \in Syncers, SyncCall(s) \/ SyncReturn(s) PROVE ClosingInv'
  BY <1>syncers, <1>same DEF SyncCall, SyncReturn
<1>closing. ASSUME CloseBegin PROVE ClosingInv'
  BY <1>closing DEF CloseBegin, ClosingInv, LayerInv, AppliedHeld
<1>stopping. ASSUME CloseStopService \/ CloseJoin \/ CloseDrain PROVE ClosingInv'
  <2>1. /\ UNCHANGED <<faults, life, applied, disk, manifest, mutable, immutables, closeMem>>
        /\ closePc # "install" /\ life = "closing"
    BY <1>stopping DEF CloseStopService, CloseJoin, CloseDrain, BaseInv, CountInv
  <2> QED BY <2>1 DEF ClosingInv
<1>take. ASSUME CloseTake PROVE ClosingInv'
  <2>1. /\ closePc = "take" /\ life = "closing" /\ life' = "closing"
        /\ applied' = applied /\ manifest' = manifest
        /\ \/ closePc' = "install" /\ closeMem' \in MergedMems(UnflushedMems) /\ faults' = faults
           \/ UnflushedMems = {} /\ faults' = faults
           \/ faults' = faults + 1
    BY <1>take, TakeEffect DEF BaseInv, CountInv
  <2>2. ASSUME faults' = 0, NEW f \in applied, NEW k \in DOMAIN f.batch PROVE Held(f, k)'
    <3>1. faults = 0
      BY <1>types, <2>1, <2>2
    <3>2. Held(f, k) /\ k \in Keys /\ f.seq \in Nat
      BY <1>held, <1>types, <2>1, <3>1
    <3>3. CASE UnflushedMems = {}
      <4>1. immutables = <<>> /\ mutable.primary[k].seq = 0 /\ DOMAIN immutables = {}
        BY <3>2, <3>3, NothingUnflushed
      <4> QED BY <1>types, <2>1, <3>2, <4>1
    <3>4. CASE closePc' = "install" /\ closeMem' \in MergedMems(UnflushedMems)
      <4>1. /\ \A i \in DOMAIN immutables :
                  immutables[i].primary[k].seq <= closeMem'.primary[k].seq
            /\ \/ mutable.primary[k].seq = 0
               \/ mutable.primary[k].seq <= closeMem'.primary[k].seq
        BY <3>2, <3>4, MergedHolds
      <4>2. closeMem' \in MemTable
        BY DEF TypeOK
      <4>3. closeMem'.primary[k].seq \in Nat
        BY <3>2, <4>2, FieldTypes
      <4> QED BY <1>types, <2>1, <3>2, <3>4, <4>1, <4>3
    <3> QED BY <1>types, <2>1, <2>2, <3>3, <3>4
  <2> QED BY <2>1, <2>2 DEF ClosingInv
<1>closeInstall. ASSUME CloseInstall \/ CloseInstallFails PROVE ClosingInv'
  <2>1. /\ life = "closing" /\ life' = "closing" /\ closePc = "install" /\ applied' = applied
        /\ \/ manifest' = WithTable(closeMem) /\ faults' = faults
           \/ faults' = faults + 1
    BY <1>closeInstall, CloseInstallEffect DEF BaseInv, CountInv
  <2>2. \A k \in Keys : /\ manifest.tables[k].seq <= WithTable(closeMem).tables[k].seq
                        /\ closeMem.primary[k].seq <= WithTable(closeMem).tables[k].seq
    BY WithTableGrows DEF TypeOK
  <2>3. immutables = <<>> /\ \A k \in Keys : mutable.primary[k].seq = 0
    BY <2>1 DEF BaseInv, TakenInv
  <2>4. ASSUME faults' = 0, NEW f \in applied, NEW k \in DOMAIN f.batch
        PROVE  f.seq <= manifest'.tables[k].seq
    <3>1. faults = 0 /\ manifest' = WithTable(closeMem)
      BY <1>types, <2>1, <2>4
    <3>2. Held(f, k) /\ k \in Keys /\ f.seq \in Nat /\ DOMAIN immutables = {}
      BY <1>held, <1>types, <2>1, <2>3, <3>1
    <3>3. /\ manifest.tables[k].seq <= manifest'.tables[k].seq
          /\ closeMem.primary[k].seq <= manifest'.tables[k].seq
          /\ mutable.primary[k].seq = 0
      BY <2>2, <2>3, <3>1, <3>2
    <3> QED BY <1>types, <3>2, <3>3
  <2> QED BY <2>1, <2>4 DEF ClosingInv
<1>reset. ASSUME CloseReset PROVE ClosingInv'
  <2>1. /\ closePc = "pool" /\ life = "closing" /\ life' = "closed"
        /\ UNCHANGED <<disk, applied, faults>>
    BY <1>reset DEF CloseReset, ForgetState, BaseInv, CountInv
  <2>2. immutables = <<>> /\ \A k \in Keys : mutable.primary[k].seq = 0
    BY <2>1 DEF BaseInv, TakenInv
  <2>3. \A k \in Keys : manifest.tables[k].seq <= disk.tables[k].seq
    BY <2>1 DEF BaseInv, AheadInv
  <2>4. ASSUME faults = 0, NEW f \in applied, NEW k \in DOMAIN f.batch
        PROVE  f.seq <= disk.tables[k].seq
    <3>1. Held(f, k) /\ k \in Keys /\ f.seq \in Nat /\ DOMAIN immutables = {}
      BY <1>held, <1>types, <2>1, <2>2, <2>4
    <3> QED BY <1>types, <2>1, <2>2, <2>3, <3>1
  <2> QED BY <2>1, <2>4 DEF ClosingInv, TablesCover
<1>crash. ASSUME NEW kind \in CrashKinds, Crash(kind) PROVE ClosingInv'
  BY <1>crash DEF Crash, ForgetState, ClosingInv
<1>reopen. ASSUME Open PROVE ClosingInv'
  BY <1>reopen DEF Open, ClosingInv
<1> QED
  BY <1>stutter, <1>writers, <1>service, <1>flush, <1>install, <1>remove, <1>syncers,
     <1>closing, <1>stopping, <1>take, <1>closeInstall, <1>reset, <1>crash, <1>reopen
     DEF Next, FlushStep, CloseStep

\* The invariant of close() holds in every reachable state.
LEMMA ClosingHolds == Spec => []ClosingInv
<1>1. Init => ClosingInv
  BY DEF Init, ClosingInv
<1>2. TypeOK /\ TypeOK' /\ LayerInv /\ BaseInv /\ ClosingInv /\ [Next]_vars => ClosingInv'
  BY ClosingStep
<1> QED BY <1>1, <1>2, TypeCorrect, LayersHold, BaseHolds, PTL DEF Spec

\* A close() that ran to its end left everything that was visible in the tables, with
\* any number of writers and with the background flush at any point, as long as no I/O
\* call failed.
THEOREM CloseLosesNothing == Spec => [](faults = 0 => CloseKeepsWrites)
<1>1. TypeOK /\ ClosingInv => (faults = 0 => CloseKeepsWrites)
  <2> SUFFICES ASSUME TypeOK, ClosingInv, faults = 0, life = "closed", NEW f \in applied,
                      NEW k \in DOMAIN f.batch
               PROVE  disk.tables[k].seq >= f.seq
    BY DEF CloseKeepsWrites, Recoverable
  <2>1. f.seq <= disk.tables[k].seq
    BY DEF ClosingInv, TablesCover
  <2>2. f.seq \in Nat /\ disk.tables[k].seq \in Nat
    BY FieldTypes, LayerTypes DEF TypeOK
  <2> QED BY <2>1, <2>2
<1> QED BY <1>1, TypeCorrect, ClosingHolds, PTL

----------------------------------------------------------------------------
(* An acknowledged write stays in a journal until it is in the tables.     *)

\* The tables on disk only gain newer records, except when close() and a failed persist
\* come together.
LEMMA TablesGrow ==
    ASSUME TypeOK, LayerInv, BaseInv, [Next]_vars, life = "closing" => faults = 0,
           NEW k \in Keys
    PROVE  disk.tables[k].seq <= disk'.tables[k].seq
<1>types. /\ disk.tables[k].seq \in Nat /\ manifest.tables[k].seq \in Nat
          /\ flushMem.primary[k].seq \in Nat
          /\ flushMem \in MemTable /\ closeMem \in MemTable
  BY LayerTypes DEF TypeOK
<1>1. CASE disk' = disk
  BY <1>1, <1>types
<1>2. ASSUME NEW mem \in MemTable
      PROVE  /\ manifest.tables[k].seq <= WithTable(mem).tables[k].seq
             /\ mem.primary[k].seq <= WithTable(mem).tables[k].seq
             /\ WithTable(mem).tables[k].seq \in Nat
  <2>1. WithTable(mem) \in Manifest
    BY WithTableType
  <2> QED BY <2>1, FieldTypes, WithTableGrows
<1>3. life = "closing" => disk.tables[k].seq <= manifest.tables[k].seq
  BY DEF BaseInv, AheadInv
<1>4. CASE FlushInstall \/ FlushFails
  <2>1. /\ disk' \in {disk, WithTable(flushMem)} /\ life # "closed"
        /\ flushPc \in {"write", "install"}
    BY <1>4, FlushEffect DEF LayerInv
  <2>2. CASE life = "open"
    <3>1. flushMem = Head(immutables)
      BY <2>1, <2>2 DEF LayerInv, FlushHoldsOldest
    <3>2. \/ disk.tables[k].seq <= manifest.tables[k].seq
          \/ disk.tables[k].seq <= flushMem.primary[k].seq
      BY <2>2, <3>1 DEF BaseInv, AheadInv
    <3> QED BY <1>types, <1>1, <1>2, <2>1, <3>2
  <2>3. CASE life = "closing"
    BY <1>types, <1>1, <1>2, <1>3, <2>1, <2>3
  <2> QED BY <2>1, <2>2, <2>3 DEF TypeOK
<1>5. CASE CloseTake
  <2>1. disk' \in {disk, manifest} /\ life = "closing"
    BY <1>5, TakeEffect DEF BaseInv, CountInv
  <2> QED BY <1>1, <1>3, <2>1
<1>6. CASE CloseInstall \/ CloseInstallFails
  <2>1. disk' \in {disk, WithTable(closeMem)} /\ life = "closing"
    BY <1>6, CloseInstallEffect DEF BaseInv, CountInv
  <2> QED BY <1>types, <1>1, <1>2, <1>3, <2>1
<1> QED BY <1>1, <1>4, <1>5, <1>6, DiskWriters

\* So a write that is covered by the tables stays covered.
LEMMA CoverStays ==
    ASSUME TypeOK, TypeOK', LayerInv, BaseInv, [Next]_vars, life = "closing" => faults = 0,
           NEW f \in Frame, TablesCover(f)
    PROVE  TablesCover(f)'
<1> SUFFICES ASSUME NEW k \in DOMAIN f.batch PROVE f.seq <= disk'.tables[k].seq
  BY DEF TablesCover
<1>1. k \in Keys /\ f.seq \in Nat
  BY FieldTypes
<1>2. disk.tables[k].seq <= disk'.tables[k].seq
  BY <1>1, TablesGrow
<1>3. disk.tables[k].seq \in Nat /\ disk'.tables[k].seq \in Nat
  BY <1>1, FieldTypes DEF TypeOK
<1> QED BY <1>1, <1>2, <1>3 DEF TablesCover

\* While the database is open, a record leaves memory only into the tables, and a
\* memtable keeps covering its journals.
LEMMA LayersKept ==
    ASSUME TypeOK, LayerInv, BaseInv, [Next]_vars, life = "open", life' = "open",
           NEW k \in Keys
    PROVE  /\ \A i \in DOMAIN immutables :
                 \/ immutables[i].primary[k].seq <= disk'.tables[k].seq
                 \/ \E j \in DOMAIN immutables' : immutables'[j] = immutables[i]
           /\ \/ /\ mutable.primary[k].seq <= mutable'.primary[k].seq
                 /\ mutable'.walId = mutable.walId
              \/ \E j \in DOMAIN immutables' :
                    /\ mutable.primary[k].seq <= immutables'[j].primary[k].seq
                    /\ immutables'[j].walId = mutable.walId
<1>types. /\ mutable.primary[k].seq \in Nat
          /\ manifest.tables[k].seq \in Nat /\ disk.tables[k].seq \in Nat
          /\ flushMem.primary[k].seq \in Nat
          /\ DOMAIN immutables = 1..Len(immutables) /\ Len(immutables) \in Nat
  BY LayerTypes
<1>1. CASE UNCHANGED <<disk, manifest, mutable, immutables>>
  BY <1>types, <1>1
<1>2. ASSUME NEW w \in Writers, ApplyEnqueue(w)
      PROVE  /\ \A i \in DOMAIN immutables :
                   \E j \in DOMAIN immutables' : immutables'[j] = immutables[i]
             /\ \/ /\ mutable.primary[k].seq <= mutable'.primary[k].seq
                   /\ mutable'.walId = mutable.walId
                \/ \E j \in DOMAIN immutables' :
                      /\ mutable.primary[k].seq <= immutables'[j].primary[k].seq
                      /\ immutables'[j].walId = mutable.walId
  <2>1. PICK mem \in MemTable :
            /\ mem.walId = mutable.walId
            /\ mutable.primary[k].seq <= mem.primary[k].seq
            /\ \/ mutable' = mem /\ immutables' = immutables
               \/ /\ DOMAIN immutables' = 1..(Len(immutables) + 1)
                  /\ immutables'[Len(immutables) + 1] = mem
                  /\ \A i \in DOMAIN immutables : immutables'[i] = immutables[i]
    BY <1>2, ApplyEffect DEF BaseInv
  <2>2. CASE mutable' = mem /\ immutables' = immutables
    BY <2>1, <2>2
  <2>3. CASE /\ DOMAIN immutables' = 1..(Len(immutables) + 1)
             /\ immutables'[Len(immutables) + 1] = mem
             /\ \A i \in DOMAIN immutables : immutables'[i] = immutables[i]
    <3>1. /\ Len(immutables) + 1 \in DOMAIN immutables'
          /\ \A i \in DOMAIN immutables : i \in DOMAIN immutables'
      BY <1>types, <2>3
    <3> QED BY <2>1, <2>3, <3>1
  <2> QED BY <2>1, <2>2, <2>3
<1>3. CASE FlushInstall \/ FlushFails
  <2>1. UNCHANGED <<mutable, immutables>>
    BY <1>3, FlushEffect
  <2> QED BY <1>types, <2>1
<1>4. CASE FlushRemove
  <2>1. UNCHANGED <<mutable, disk, manifest>> /\ flushPc = "remove"
    BY <1>4, RemoveEffect
  <2>2. /\ flushMem = Head(immutables) /\ flushMem.primary[k].seq <= manifest.tables[k].seq
    BY <2>1 DEF LayerInv, FlushHoldsOldest
  <2>3. manifest.tables[k].seq <= disk.tables[k].seq
    BY DEF BaseInv, AheadInv
  <2>4. \/ immutables' = immutables
        \/ /\ Head(immutables) = immutables[1]
           /\ \A i \in DOMAIN immutables :
                 i = 1 \/ (/\ i - 1 \in DOMAIN immutables'
                           /\ immutables'[i - 1] = immutables[i])
    BY <1>4, RemoveEffect
  <2>5. flushMem.primary[k].seq <= disk'.tables[k].seq
    BY <1>types, <2>1, <2>2, <2>3
  <2> QED BY <1>types, <2>1, <2>2, <2>4, <2>5
<1> QED BY <1>1, <1>2, <1>3, <1>4, OpenSteps DEF BaseInv

\* Hence a write that is held from journal w on stays held from it on.
LEMMA HeldStays ==
    ASSUME TypeOK, TypeOK', LayerInv, BaseInv, [Next]_vars, life = "open", life' = "open",
           NEW f \in Frame, NEW w \in Nat, HeldFrom(f, w)
    PROVE  HeldFrom(f, w)'
<1> SUFFICES ASSUME NEW k \in DOMAIN f.batch
    PROVE \/ f.seq <= disk'.tables[k].seq
          \/ f.seq <= mutable'.primary[k].seq /\ mutable'.walId <= w
          \/ \E i \in DOMAIN immutables' : /\ f.seq <= immutables'[i].primary[k].seq
                                           /\ immutables'[i].walId <= w
  BY DEF HeldFrom
<1>1. k \in Keys /\ f.seq \in Nat
  BY FieldTypes
<1>2. /\ \A i \in DOMAIN immutables :
            \/ immutables[i].primary[k].seq <= disk'.tables[k].seq
            \/ \E j \in DOMAIN immutables' : immutables'[j] = immutables[i]
      /\ \/ /\ mutable.primary[k].seq <= mutable'.primary[k].seq
            /\ mutable'.walId = mutable.walId
         \/ \E j \in DOMAIN immutables' :
               /\ mutable.primary[k].seq <= immutables'[j].primary[k].seq
               /\ immutables'[j].walId = mutable.walId
  BY <1>1, LayersKept
<1>3. disk.tables[k].seq <= disk'.tables[k].seq
  BY <1>1, TablesGrow
<1>4. /\ disk'.tables[k].seq \in Nat /\ mutable'.primary[k].seq \in Nat
      /\ \A i \in DOMAIN immutables' : immutables'[i].primary[k].seq \in Nat
  <2>1. /\ disk' \in Manifest /\ mutable' \in MemTable
        /\ \A i \in DOMAIN immutables' : immutables'[i] \in MemTable
    BY SeqElements DEF TypeOK
  <2> QED BY <1>1, <2>1, FieldTypes
<1>5. /\ disk.tables[k].seq \in Nat /\ mutable.primary[k].seq \in Nat
      /\ \A i \in DOMAIN immutables : immutables[i].primary[k].seq \in Nat
  BY <1>1, LayerTypes
<1>6. \/ f.seq <= disk.tables[k].seq
      \/ f.seq <= mutable.primary[k].seq /\ mutable.walId <= w
      \/ \E i \in DOMAIN immutables : /\ f.seq <= immutables[i].primary[k].seq
                                      /\ immutables[i].walId <= w
  BY DEF HeldFrom
<1>7. CASE f.seq <= disk.tables[k].seq
  BY <1>1, <1>3, <1>4, <1>5, <1>7
<1>8. CASE f.seq <= mutable.primary[k].seq /\ mutable.walId <= w
  BY <1>1, <1>2, <1>4, <1>5, <1>8
<1>9. ASSUME NEW i \in DOMAIN immutables, f.seq <= immutables[i].primary[k].seq,
             immutables[i].walId <= w
      PROVE  \/ f.seq <= disk'.tables[k].seq
             \/ \E j \in DOMAIN immutables' : /\ f.seq <= immutables'[j].primary[k].seq
                                              /\ immutables'[j].walId <= w
  BY <1>1, <1>2, <1>4, <1>5, <1>9
<1> QED BY <1>6, <1>7, <1>8, <1>9

\* A synced frame is deleted only with a journal the manifest does not ask for.
LEMMA SyncedStays ==
    ASSUME TypeOK, TypeOK', BaseInv, [Next]_vars, life = "open", life' = "open",
           NEW g \in walSynced
    PROVE  g \in walSynced' \/ g.wal < disk'.replayFromWalId
<1>types. g.wal \in Nat /\ g.wal \in walFiles /\ disk'.replayFromWalId \in Nat
  <2>1. g \in walFrames /\ g \in WalFrame /\ disk' \in Manifest
    BY DEF TypeOK
  <2>2. g.wal \in walFiles
    BY <2>1 DEF BaseInv, JournalInv
  <2> QED BY <2>1, <2>2 DEF WalFrame, Manifest
<1>1. CASE FlushInstall
  <2>1. \/ walSynced' = walSynced
        \/ /\ walFiles' = {i \in walFiles : i >= disk'.replayFromWalId \/ i = walFileId}
           /\ walSynced' = {h \in walSynced : h.wal \in walFiles'}
    BY <1>1, FlushEffect
  <2>2. g.wal >= disk'.replayFromWalId \/ g.wal < disk'.replayFromWalId
    BY <1>types
  <2> QED BY <1>types, <2>1, <2>2
<1>2. CASE CommitSync
  BY <1>2 DEF CommitSync
<1>3. CASE walSynced' = walSynced
  BY <1>3
<1> QED
  BY <1>1, <1>2, <1>3
     DEF vars, Next, BeginWrite, WriterStep, RejectWrite, ApplyEnqueue, ServiceStep,
         ServiceDrain, ServiceStop, CommitOpenWal, CommitAppend, CommitFails, CommitPublish,
         FinalizeOk, FinalizeError, FlushStep, FlushPick, FlushWriteTable, FlushFails,
         FlushRemove, SyncCall, SyncReturn, CloseBegin, CloseStep, CloseStopService,
         CloseJoin, CloseDrain, CloseTake, CloseInstall, CloseInstallFails, CloseReset,
         ForgetState, Crash, Open

\* A durable copy of a write stays while the database is open.
LEMMA KeptStays ==
    ASSUME TypeOK, TypeOK', LayerInv, BaseInv, BaseInv', [Next]_vars,
           life = "open", life' = "open", NEW f \in Frame, Kept(f)
    PROVE  Kept(f)'
<1>1. CASE TablesCover(f)
  BY <1>1, CoverStays DEF Kept
<1>2. CASE \E g \in walSynced : FrameOf(g) = f /\ HeldFrom(f, g.wal)
  <2>1. PICK g \in walSynced : FrameOf(g) = f /\ HeldFrom(f, g.wal)
    BY <1>2
  <2>2. g.wal \in Nat
    <3>1. g \in WalFrame
      BY DEF TypeOK
    <3> QED BY <3>1 DEF WalFrame
  <2>3. HeldFrom(f, g.wal)'
    BY <2>1, <2>2, HeldStays
  <2>4. CASE g \in walSynced'
    BY <2>1, <2>3, <2>4 DEF Kept
  <2>5. CASE g.wal < disk'.replayFromWalId
    <3>1. /\ disk'.replayFromWalId <= mutable'.walId
          /\ \A i \in DOMAIN immutables' : disk'.replayFromWalId <= immutables'[i].walId
      BY DEF BaseInv, JournalInv
    <3>2. /\ disk'.replayFromWalId \in Nat /\ mutable'.walId \in Nat
          /\ \A i \in DOMAIN immutables' : immutables'[i].walId \in Nat
      <4>1. /\ disk' \in Manifest /\ mutable' \in MemTable
            /\ \A i \in DOMAIN immutables' : immutables'[i] \in MemTable
        BY SeqElements DEF TypeOK
      <4> QED BY <4>1 DEF Manifest, MemTable
    <3>3. ASSUME NEW k \in DOMAIN f.batch PROVE f.seq <= disk'.tables[k].seq
      BY <2>2, <2>3, <2>5, <3>1, <3>2 DEF HeldFrom
    <3> QED BY <3>3 DEF Kept, TablesCover
  <2> QED BY <2>4, <2>5, SyncedStays
<1> QED BY <1>1, <1>2 DEF Kept

\* Every applied write is held from the journal that is active now.
LEMMA AppliedHeldFrom ==
    ASSUME TypeOK, LayerInv, BaseInv, life = "open", NEW f \in applied
    PROVE  HeldFrom(f, manifest.activeWalId)
<1> SUFFICES ASSUME NEW k \in DOMAIN f.batch
    PROVE \/ f.seq <= disk.tables[k].seq
          \/ f.seq <= mutable.primary[k].seq /\ mutable.walId <= manifest.activeWalId
          \/ \E i \in DOMAIN immutables : /\ f.seq <= immutables[i].primary[k].seq
                                          /\ immutables[i].walId <= manifest.activeWalId
  BY DEF HeldFrom
<1>1. k \in Keys /\ f.seq \in Nat
  BY FieldTypes DEF TypeOK
<1>2. disk.tables[k].seq \in Nat /\ manifest.tables[k].seq \in Nat
  BY <1>1, LayerTypes
<1>3. \/ f.seq <= mutable.primary[k].seq
      \/ \E i \in DOMAIN immutables : f.seq <= immutables[i].primary[k].seq
      \/ f.seq <= manifest.tables[k].seq
  BY DEF LayerInv, AppliedHeld
<1>4. /\ mutable.walId <= manifest.activeWalId
      /\ \A i \in DOMAIN immutables : immutables[i].walId <= manifest.activeWalId
  BY DEF BaseInv, JournalInv
<1>5. manifest.tables[k].seq <= disk.tables[k].seq
  BY <1>1 DEF BaseInv, AheadInv
<1> QED BY <1>1, <1>2, <1>3, <1>4, <1>5

\* The service thread's group stays in its journal, which stays protected.
LEMMA ServiceInvStep ==
    ASSUME TypeOK, TypeOK', LayerInv, BaseInv, ServiceInv, [Next]_vars
    PROVE  ServiceInv'
<1> DEFINE Busy == {"append", "sync", "publish", "finalize"}
<1>held. ASSUME life = "open", life' = "open", svc \in Busy,
                walFileId' = walFileId, NEW f \in group
         PROVE  HeldFrom(f, walFileId)'
  <2>1. f \in Frame /\ walFileId \in Nat /\ HeldFrom(f, walFileId)
    BY <1>held DEF ServiceInv, TypeOK
  <2>2. PICK w \in Nat : w = walFileId
    BY <2>1
  <2>3. HeldFrom(f, w)'
    BY <2>1, <2>2, <1>held, HeldStays
  <2> QED BY <2>2, <2>3, <1>held DEF HeldFrom
<1>same. ASSUME UNCHANGED <<group, svc, walFileId, walFrames, walSynced>>,
                pending' \subseteq applied', group \subseteq applied',
                life' # "closed", life' = "open" => life = "open"
         PROVE  ServiceInv'
  BY <1>same, <1>held DEF ServiceInv, HeldFrom
<1>still. ASSUME UNCHANGED <<group, svc, walFileId, walFrames, walSynced, pending, applied,
                             life, disk, mutable, immutables>>
          PROVE  ServiceInv'
  BY <1>still DEF ServiceInv, HeldFrom
<1>stutter. CASE UNCHANGED vars
  BY <1>stutter, <1>still DEF vars
<1>begin. ASSUME NEW w \in Writers, NEW b \in Batches, BeginWrite(w, b) PROVE ServiceInv'
  BY <1>begin, <1>still DEF BeginWrite
<1>reject. ASSUME NEW w \in Writers, RejectWrite(w) PROVE ServiceInv'
  BY <1>reject, <1>still DEF RejectWrite
<1>apply. ASSUME NEW w \in Writers, ApplyEnqueue(w) PROVE ServiceInv'
  <2>1. /\ UNCHANGED <<group, svc, walFileId, walFrames, walSynced, life>> /\ life = "open"
        /\ pending' = pending \cup {req[w]} /\ applied' = applied \cup {req[w]}
    BY <1>apply DEF ApplyEnqueue
  <2>2. pending' \subseteq applied' /\ group \subseteq applied'
    BY <2>1 DEF ServiceInv
  <2> QED BY <1>same, <2>1, <2>2
<1>drain. ASSUME ServiceDrain PROVE ServiceInv'
  BY <1>drain DEF ServiceDrain, ServiceInv
<1>stop. ASSUME ServiceStop PROVE ServiceInv'
  BY <1>stop DEF ServiceStop, ServiceInv
<1>openWal. ASSUME CommitOpenWal PROVE ServiceInv'
  <2>1. /\ UNCHANGED <<group, pending, applied, life, disk, mutable, immutables>>
        /\ svc' = "append" /\ walFileId' = manifest.activeWalId
    BY <1>openWal DEF CommitOpenWal
  <2>2. life = "open" => \A f \in group : HeldFrom(f, manifest.activeWalId)
    BY AppliedHeldFrom DEF ServiceInv
  <2>3. life = "open" => \A f \in group : HeldFrom(f, walFileId)'
    BY <2>1, <2>2 DEF HeldFrom
  <2> QED BY <2>1, <2>3 DEF ServiceInv
<1>append. ASSUME CommitAppend PROVE ServiceInv'
  <2>1. /\ UNCHANGED <<group, pending, applied, life, disk, mutable, immutables, walFileId>>
        /\ svc = "append" /\ svc' = "sync"
        /\ walFrames' = walFrames \cup {InWal(walFileId, f) : f \in group}
    BY <1>append DEF CommitAppend
  <2> QED BY <2>1 DEF ServiceInv, HeldFrom
<1>sync. ASSUME CommitSync PROVE ServiceInv'
  <2>1. /\ UNCHANGED <<group, pending, applied, life, disk, mutable, immutables, walFileId>>
        /\ svc = "sync" /\ svc' = "publish"
        /\ walSynced' = walSynced \cup {g \in walFrames : g.wal = walFileId}
    BY <1>sync DEF CommitSync
  <2>2. \A f \in group : InWal(walFileId, f).wal = walFileId
    BY DEF InWal
  <2> QED BY <2>1, <2>2 DEF ServiceInv, HeldFrom
<1>fails. ASSUME CommitFails PROVE ServiceInv'
  BY <1>fails DEF CommitFails, ServiceInv
<1>publish. ASSUME CommitPublish PROVE ServiceInv'
  BY <1>publish DEF CommitPublish, ServiceInv, HeldFrom
<1>finalize. ASSUME FinalizeOk \/ FinalizeError PROVE ServiceInv'
  BY <1>finalize DEF FinalizeOk, FinalizeError, ServiceInv
<1>flush. ASSUME FlushPick \/ FlushWriteTable PROVE ServiceInv'
  BY <1>flush, <1>still DEF FlushPick, FlushWriteTable
<1>install. ASSUME FlushInstall \/ FlushFails PROVE ServiceInv'
  <2>1. /\ UNCHANGED <<group, svc, walFileId, pending, applied, life>>
        /\ life # "closed"
        /\ \/ UNCHANGED <<walFiles, walFrames, walSynced>>
           \/ /\ walFiles' = {i \in walFiles : i >= disk'.replayFromWalId \/ i = walFileId}
              /\ walFrames' = {g \in walFrames : g.wal \in walFiles'}
              /\ walSynced' = {g \in walSynced : g.wal \in walFiles'}
    BY <1>install, FlushEffect DEF LayerInv
  <2>2. svc \in Busy => walFileId \in walFiles'
    BY <2>1, JournalStep DEF BaseInv, JournalInv
  <2>3. \A f \in group : InWal(walFileId, f).wal = walFileId
    BY DEF InWal
  <2>4. svc \in Busy => \A f \in group :
            /\ InWal(walFileId, f) \in walFrames => InWal(walFileId, f) \in walFrames'
            /\ InWal(walFileId, f) \in walSynced => InWal(walFileId, f) \in walSynced'
    BY <2>1, <2>2, <2>3
  <2> QED BY <1>held, <2>1, <2>4 DEF ServiceInv, HeldFrom
<1>remove. ASSUME FlushRemove PROVE ServiceInv'
  <2>1. UNCHANGED <<group, svc, walFileId, walFrames, walSynced, pending, applied, life>>
        /\ life # "closed"
    BY <1>remove, RemoveEffect DEF LayerInv
  <2> QED BY <1>same, <2>1 DEF ServiceInv
<1>syncers. ASSUME NEW s \in Syncers, SyncCall(s) \/ SyncReturn(s) PROVE ServiceInv'
  BY <1>syncers, <1>still DEF SyncCall, SyncReturn
<1>closing. ASSUME CloseBegin \/ CloseStopService \/ CloseJoin \/ CloseDrain PROVE ServiceInv'
  <2>1. /\ life' = "closing" /\ group' = group /\ applied' = applied
        /\ pending' \in {pending, {}}
    BY <1>closing DEF CloseBegin, CloseStopService, CloseJoin, CloseDrain, BaseInv, CountInv
  <2> QED BY <2>1 DEF ServiceInv
<1>take. ASSUME CloseTake \/ CloseInstall \/ CloseInstallFails PROVE ServiceInv'
  <2>1. life' = "closing" /\ UNCHANGED <<group, applied, pending>>
    BY <1>take, TakeEffect, CloseInstallEffect DEF BaseInv, CountInv
  <2> QED BY <2>1 DEF ServiceInv
<1>reset. ASSUME CloseReset \/ \E kind \in CrashKinds : Crash(kind) PROVE ServiceInv'
  BY <1>reset DEF CloseReset, Crash, ForgetState, ServiceInv
<1>reopen. ASSUME Open PROVE ServiceInv'
  <2>1. /\ life = "closed" /\ life' = "open" /\ svc' = "drain" /\ UNCHANGED <<pending, group>>
    BY <1>reopen, ZenonT(60) DEF Open
  <2> QED BY <2>1 DEF ServiceInv
<1> QED
  BY <1>stutter, <1>begin, <1>reject, <1>apply, <1>drain, <1>stop, <1>openWal, <1>append,
     <1>sync, <1>fails, <1>publish, <1>finalize, <1>flush, <1>install, <1>remove,
     <1>syncers, <1>closing, <1>take, <1>reset, <1>reopen
     DEF Next, WriterStep, ServiceStep, FlushStep, CloseStep

\* What the service thread works on, in every reachable state.
LEMMA ServiceHolds == Spec => []ServiceInv
<1>1. Init => ServiceInv
  BY DEF Init, ServiceInv
<1>2. TypeOK /\ TypeOK' /\ LayerInv /\ BaseInv /\ ServiceInv /\ [Next]_vars => ServiceInv'
  BY ServiceInvStep
<1> QED BY <1>1, <1>2, TypeCorrect, LayersHold, BaseHolds, PTL DEF Spec

\* How a step changes what is acknowledged and visible, and the bounds.
LEMMA AckSteps ==
    ASSUME TypeOK, ServiceInv, [Next]_vars
    PROVE  /\ acked' = acked \/ FinalizeOk
           /\ applied \subseteq applied' \/ Open \/ \E kind \in CrashKinds : Crash(kind)
           /\ crashes <= crashes' /\ faults <= faults' /\ closes <= closes'
           /\ life' = "closed" =>
                 \/ life = "closed"
                 \/ CloseReset \/ \E kind \in CrashKinds : Crash(kind)
           /\ life = "closed" /\ life' # "closed" => Open
           /\ life = "closing" => life' # "open"
<1> DEFINE Same == UNCHANGED <<acked, applied, crashes, faults, closes, life>>
<1>types. crashes \in Nat /\ faults \in Nat /\ closes \in Nat
  BY DEF TypeOK
<1>1. CASE UNCHANGED vars
  <2>1. Same
    BY <1>1 DEF vars
  <2> QED BY <1>types, <2>1
<1>2. ASSUME NEW w \in Writers, WriterStep(w) \/ \E b \in Batches : BeginWrite(w, b)
      PROVE  /\ acked' = acked /\ applied \subseteq applied'
             /\ UNCHANGED <<crashes, faults, closes, life>>
  BY <1>2 DEF WriterStep, BeginWrite, RejectWrite, ApplyEnqueue
<1>3. CASE ServiceStep
  <2>1. /\ acked' = acked \/ FinalizeOk
        /\ UNCHANGED <<applied, crashes, closes, life>>
        /\ faults' = faults \/ faults' = faults + 1
    BY <1>3 DEF ServiceStep, ServiceDrain, ServiceStop, CommitOpenWal, CommitAppend,
       CommitSync, CommitFails, CommitPublish, FinalizeOk, FinalizeError
  <2> QED BY <1>types, <2>1
<1>4. CASE FlushStep
  <2>1. /\ UNCHANGED <<acked, applied, crashes, closes, life>>
        /\ faults' = faults \/ faults' = faults + 1
    BY <1>4 DEF FlushStep, FlushPick, FlushWriteTable, FlushInstall, FlushFails,
       FlushRemove, PersistFail
  <2> QED BY <1>types, <2>1
<1>5. ASSUME NEW s \in Syncers, SyncCall(s) \/ SyncReturn(s) PROVE Same
  BY <1>5 DEF SyncCall, SyncReturn
<1>6. CASE CloseBegin
  BY <1>types, <1>6 DEF CloseBegin
<1>7. CASE CloseReset
  BY <1>types, <1>7 DEF CloseReset, ForgetState
<1>8. CASE CloseStep /\ ~CloseReset
  <2>1. /\ UNCHANGED <<acked, applied, crashes, closes, life>>
        /\ faults' = faults \/ faults' = faults + 1
    BY <1>8, TakeEffect, CloseInstallEffect
       DEF CloseStep, CloseStopService, CloseJoin, CloseDrain
  <2> QED BY <1>types, <2>1
<1>9. ASSUME NEW kind \in CrashKinds, Crash(kind)
      PROVE  /\ acked' = acked /\ crashes <= crashes' /\ faults <= faults'
             /\ closes <= closes' /\ life # "closed" /\ life' = "closed"
  BY <1>types, <1>9 DEF Crash, ForgetState
<1>10. CASE Open
  <2>1. /\ life = "closed" /\ life' = "open" /\ UNCHANGED <<acked, crashes, faults, closes>>
    BY <1>10, ZenonT(60) DEF Open
  <2> QED BY <1>types, <1>10, <2>1
<1> QED
  BY <1>types, <1>1, <1>2, <1>3, <1>4, <1>5, <1>6, <1>7, <1>8, <1>9, <1>10 DEF Next

\* The writes FinalizeOk acknowledges are applied, and durable while it is open.
LEMMA FinalizeKept ==
    ASSUME TypeOK, ServiceInv, FinalizeOk, NEW f \in acked', f \notin acked
    PROVE  f \in applied /\ f \in Frame /\ (life = "open" => Kept(f)')
<1>1. f \in group /\ svc = "finalize" /\ UNCHANGED <<disk, mutable, immutables, walSynced>>
  BY DEF FinalizeOk, Waiting
<1>2. f \in applied /\ f \in Frame
  BY <1>1 DEF ServiceInv, TypeOK
<1>3. ASSUME life = "open" PROVE Kept(f)'
  <2>1. InWal(walFileId, f) \in walSynced /\ HeldFrom(f, walFileId)
    BY <1>1, <1>3 DEF ServiceInv
  <2>2. FrameOf(InWal(walFileId, f)) = f /\ InWal(walFileId, f).wal = walFileId
    BY <1>2 DEF FrameOf, InWal, Frame
  <2>3. Kept(f)
    BY <2>1, <2>2 DEF Kept
  <2> QED BY <1>1, <2>3 DEF Kept, TablesCover, HeldFrom
<1> QED BY <1>2, <1>3

\* Each step keeps what was acknowledged before the first crash.
LEMMA AckedStep ==
    ASSUME TypeOK, TypeOK', LayerInv, BaseInv, BaseInv', ClosingInv', ServiceInv, AckedInv,
           [Next]_vars
    PROVE  AckedInv'
<1>types. /\ crashes \in Nat /\ faults \in Nat /\ closes \in Nat
          /\ crashes' \in Nat /\ faults' \in Nat /\ closes' \in Nat
          /\ acked \subseteq Frame /\ acked' \subseteq Frame
          /\ life \in {"open", "closing", "closed"} /\ life' \in {"open", "closing", "closed"}
  BY DEF TypeOK
<1>steps. /\ acked' = acked \/ FinalizeOk
          /\ applied \subseteq applied' \/ Open \/ \E kind \in CrashKinds : Crash(kind)
          /\ crashes <= crashes' /\ faults <= faults' /\ closes <= closes'
          /\ life' = "closed" =>
                \/ life = "closed"
                \/ CloseReset \/ \E kind \in CrashKinds : Crash(kind)
          /\ life = "closed" /\ life' # "closed" => Open
          /\ life = "closing" => life' # "open"
  BY AckSteps
<1> SUFFICES ASSUME crashes' = 0, faults' = 0 \/ closes' = 0
             PROVE  /\ life' = "closed" => \A f \in acked' : TablesCover(f)'
                    /\ life' # "closed" => \A f \in acked' : f \in applied' \/ TablesCover(f)'
                    /\ life' = "open" => \A f \in acked' : Kept(f)'
  BY DEF AckedInv
<1>before. /\ crashes = 0 /\ (faults = 0 \/ closes = 0)
           /\ life = "closed" => \A f \in acked : TablesCover(f)
           /\ life # "closed" => \A f \in acked : f \in applied \/ TablesCover(f)
           /\ life = "open" => \A f \in acked : Kept(f)
  <2>1. crashes = 0 /\ (faults = 0 \/ closes = 0)
    BY <1>types, <1>steps
  <2> QED BY <2>1 DEF AckedInv
<1>faultless. (life = "closing" => faults = 0) /\ (life' = "closing" => faults' = 0)
  BY <1>types, <1>before DEF BaseInv, CountInv
<1>crash. ~\E kind \in CrashKinds : Crash(kind)
  <2> SUFFICES ASSUME NEW kind \in CrashKinds, Crash(kind) PROVE FALSE
    OBVIOUS
  <2>1. crashes' = crashes + 1
    BY DEF Crash
  <2> QED BY <1>types, <1>before, <2>1
<1>covered. ASSUME NEW f \in acked, TablesCover(f) PROVE TablesCover(f)'
  BY <1>types, <1>covered, <1>faultless, CoverStays
<1>reopen. CASE Open
  <2>1. life = "closed" /\ life' = "open" /\ acked' = acked
    BY <1>reopen, ZenonT(60) DEF Open
  <2>2. \A f \in acked : TablesCover(f)'
    BY <1>before, <1>covered, <2>1
  <2> QED BY <2>1, <2>2 DEF Kept
<1>closed. CASE life' = "closed"
  <2>1. ASSUME NEW f \in acked' PROVE TablesCover(f)'
    <3>1. CASE life = "closed"
      <4>1. f \in acked
        <5>1. CASE acked' = acked
          BY <5>1
        <5>2. CASE FinalizeOk
          BY <5>2, <3>1 DEF FinalizeOk, Waiting, ServiceInv
        <5> QED BY <1>steps, <5>1, <5>2
      <4> QED BY <1>before, <1>covered, <3>1, <4>1
    <3>2. CASE CloseReset
      <4>1. /\ acked' = acked /\ applied' = applied /\ life # "closed"
            /\ life = "closing" /\ UNCHANGED <<faults>>
        BY <3>2 DEF CloseReset, BaseInv, CountInv
      <4>2. faults' = 0
        BY <1>faultless, <4>1
      <4>3. \A h \in applied' : TablesCover(h)'
        BY <1>closed, <4>2 DEF ClosingInv
      <4> QED BY <1>before, <1>covered, <4>1, <4>3
    <3> QED BY <1>steps, <1>crash, <1>closed, <3>1, <3>2
  <2> QED BY <1>closed, <2>1
<1>running. CASE life' # "closed" /\ ~Open
  <2>1. life # "closed" /\ applied \subseteq applied'
    BY <1>steps, <1>crash, <1>running
  <2>2. ASSUME NEW f \in acked' PROVE f \in applied' \/ TablesCover(f)'
    <3>1. CASE f \in acked
      BY <1>before, <1>covered, <2>1, <3>1
    <3>2. CASE f \notin acked
      BY <1>steps, <2>1, <3>2, FinalizeKept
    <3> QED BY <3>1, <3>2
  <2>3. ASSUME life' = "open", NEW f \in acked' PROVE Kept(f)'
    <3>1. life = "open"
      BY <1>types, <1>steps, <2>1, <2>3
    <3>2. CASE f \in acked
      BY <1>types, <1>before, <2>3, <3>1, <3>2, KeptStays
    <3>3. CASE f \notin acked
      BY <1>steps, <3>1, <3>3, FinalizeKept
    <3> QED BY <3>2, <3>3
  <2> QED BY <1>running, <2>2, <2>3
<1> QED BY <1>reopen, <1>closed, <1>running

\* While the database is open, a write() that returned success is in the tables or in a
\* synced frame of a journal the manifest asks to replay, with any number of writers and
\* rotations and with the flush and the service thread at any point, as long as the
\* process did not crash and no final flush of a close() failed.
THEOREM AckedStaysLogged ==
    Spec => [](crashes = 0 /\ (faults = 0 \/ closes = 0) => AckedLogged)
<1>1. Init => AckedInv
  BY DEF Init, AckedInv
<1>2. TypeOK /\ TypeOK' /\ LayerInv /\ BaseInv /\ BaseInv' /\ ClosingInv' /\ ServiceInv
         /\ AckedInv /\ [Next]_vars => AckedInv'
  BY AckedStep
<1>3. TypeOK /\ BaseInv /\ AckedInv
         => (crashes = 0 /\ (faults = 0 \/ closes = 0) => AckedLogged)
  <2> SUFFICES ASSUME TypeOK, BaseInv, AckedInv, crashes = 0, faults = 0 \/ closes = 0,
                      life = "open", NEW f \in acked, NEW k \in DOMAIN f.batch
               PROVE  \/ disk.tables[k].seq >= f.seq
                      \/ \E g \in walSynced : /\ g.wal >= disk.replayFromWalId
                                             /\ k \in DOMAIN g.batch
                                             /\ g.seq >= f.seq
    BY DEF AckedLogged, Logged
  <2>1. Kept(f) /\ f \in Frame
    BY DEF AckedInv, TypeOK
  <2>types. /\ k \in Keys /\ f.seq \in Nat /\ disk.tables[k].seq \in Nat
            /\ disk.replayFromWalId \in Nat /\ mutable.walId \in Nat
            /\ \A i \in DOMAIN immutables : immutables[i].walId \in Nat
            /\ \A g \in walSynced : g.wal \in Nat
    <3>1. disk \in Manifest /\ \A g \in walSynced : g \in WalFrame
      BY DEF TypeOK
    <3>2. \A g \in walSynced : g.wal \in Nat
      BY <3>1 DEF WalFrame
    <3> QED BY <2>1, <3>1, <3>2, FieldTypes, WalTypes
  <2>2. CASE TablesCover(f)
    BY <2>types, <2>2 DEF TablesCover
  <2>3. CASE \E g \in walSynced : FrameOf(g) = f /\ HeldFrom(f, g.wal)
    <3>1. PICK g \in walSynced : FrameOf(g) = f /\ HeldFrom(f, g.wal)
      BY <2>3
    <3>2. g.seq = f.seq /\ g.batch = f.batch
      BY <3>1 DEF FrameOf
    <3>3. /\ disk.replayFromWalId <= mutable.walId
          /\ \A i \in DOMAIN immutables : disk.replayFromWalId <= immutables[i].walId
      BY DEF BaseInv, JournalInv
    <3>4. f.seq <= disk.tables[k].seq \/ disk.replayFromWalId <= g.wal
      BY <2>types, <3>1, <3>3 DEF HeldFrom
    <3> QED BY <2>types, <3>2, <3>4
  <2> QED BY <2>1, <2>2, <2>3 DEF Kept
<1> QED BY <1>1, <1>2, <1>3, TypeCorrect, LayersHold, BaseHolds, ClosingHolds, ServiceHolds,
        PTL DEF Spec

----------------------------------------------------------------------------
(* What survives a crash, for one writer.                                  *)

\* Without close() the database is open or closed.
LEMMA NeverClosing ==
    ASSUME MaxCloses = 0, TypeOK, BaseInv
    PROVE  life \in {"open", "closed"}
<1>1. closes \in Nat /\ life \in {"open", "closing", "closed"}
  BY DEF TypeOK
<1>2. closes <= 0 /\ (life = "closing" => closes > 0)
  BY DEF BaseInv, CountInv
<1> QED BY <1>1, <1>2

\* A write that is held in memory stays in order with the watermarks: a memtable whose
\* flush raises the watermark over it holds it, or an older memtable does.
LEMMA OrderedStays ==
    ASSUME TypeOK, TypeOK', LayerInv, BaseInv, [Next]_vars, life = "open", life' = "open",
           NEW f \in Frame, NEW w \in Nat, HeldFrom(f, w), Ordered(f)
    PROVE  Ordered(f)'
<1> SUFFICES ASSUME NEW k \in DOMAIN f.batch, ~(f.seq <= disk'.tables[k].seq)
             PROVE  /\ disk'.maxSequence < f.seq
                    /\ \A i \in DOMAIN immutables' :
                          f.seq <= immutables'[i].maxSeq =>
                             \E j \in 1..i : f.seq <= immutables'[j].primary[k].seq
  BY DEF Ordered
<1>types. /\ k \in Keys /\ f.seq \in Nat
          /\ disk.tables[k].seq \in Nat /\ disk'.tables[k].seq \in Nat
          /\ manifest.tables[k].seq \in Nat
          /\ disk.maxSequence \in Nat /\ manifest.maxSequence \in Nat
          /\ mutable.primary[k].seq \in Nat /\ flushMem.primary[k].seq \in Nat
          /\ flushMem \in MemTable /\ flushMem.maxSeq \in Nat
          /\ DOMAIN immutables = 1..Len(immutables) /\ Len(immutables) \in Nat
          /\ \A i \in DOMAIN immutables : /\ immutables[i].primary[k].seq \in Nat
                                          /\ immutables[i].maxSeq \in Nat
  <2>1. k \in Keys /\ f.seq \in Nat /\ disk' \in Manifest /\ flushMem \in MemTable
    BY FieldTypes DEF TypeOK
  <2> QED BY <2>1, FieldTypes, LayerTypes, WalTypes
<1>grow. disk.tables[k].seq <= disk'.tables[k].seq
  BY <1>types, TablesGrow
<1>old. /\ ~(f.seq <= disk.tables[k].seq) /\ disk.maxSequence < f.seq
        /\ \A i \in DOMAIN immutables :
              f.seq <= immutables[i].maxSeq =>
                 \E j \in 1..i : f.seq <= immutables[j].primary[k].seq
  <2>1. ~(f.seq <= disk.tables[k].seq)
    BY <1>types, <1>grow
  <2> QED BY <2>1 DEF Ordered
<1>held. \/ f.seq <= mutable.primary[k].seq
         \/ \E i \in DOMAIN immutables : f.seq <= immutables[i].primary[k].seq
  BY <1>old DEF HeldFrom
<1>same. CASE UNCHANGED <<disk, manifest, mutable, immutables>>
  BY <1>same, <1>old
<1>apply. ASSUME NEW v \in Writers, ApplyEnqueue(v)
          PROVE  /\ disk' = disk
                 /\ \A i \in DOMAIN immutables' :
                       f.seq <= immutables'[i].maxSeq =>
                          \E j \in 1..i : f.seq <= immutables'[j].primary[k].seq
  <2>1. PICK mem \in MemTable :
            /\ mutable.primary[k].seq <= mem.primary[k].seq
            /\ \/ mutable' = mem /\ immutables' = immutables
               \/ /\ DOMAIN immutables' = 1..(Len(immutables) + 1)
                  /\ immutables'[Len(immutables) + 1] = mem
                  /\ \A i \in DOMAIN immutables : immutables'[i] = immutables[i]
    BY <1>types, <1>apply, ApplyEffect DEF BaseInv
  <2>2. disk' = disk
    BY <1>apply, ApplyEffect DEF BaseInv
  <2>3. CASE immutables' = immutables
    BY <1>old, <2>2, <2>3
  <2>4. CASE /\ DOMAIN immutables' = 1..(Len(immutables) + 1)
             /\ immutables'[Len(immutables) + 1] = mem
             /\ \A i \in DOMAIN immutables : immutables'[i] = immutables[i]
    <3>1. mem.primary[k].seq \in Nat
      BY <1>types, FieldTypes
    <3>2. ASSUME NEW i \in DOMAIN immutables, f.seq <= immutables'[i].maxSeq
          PROVE  \E j \in 1..i : f.seq <= immutables'[j].primary[k].seq
      <4>1. PICK j \in 1..i : f.seq <= immutables[j].primary[k].seq
        BY <1>old, <2>4, <3>2
      <4>2. j \in DOMAIN immutables
        BY <1>types, <3>2, <4>1
      <4> QED BY <2>4, <4>1, <4>2
    <3>3. \E j \in 1..(Len(immutables) + 1) : f.seq <= immutables'[j].primary[k].seq
      <4>1. CASE f.seq <= mutable.primary[k].seq
        <5>1. f.seq <= mem.primary[k].seq
          BY <1>types, <2>1, <3>1, <4>1
        <5>2. Len(immutables) + 1 \in 1..(Len(immutables) + 1)
          BY <1>types
        <5> QED BY <2>4, <5>1, <5>2
      <4>2. CASE \E i \in DOMAIN immutables : f.seq <= immutables[i].primary[k].seq
        <5>1. \A i \in DOMAIN immutables : i \in 1..(Len(immutables) + 1)
          BY <1>types
        <5> QED BY <2>4, <4>2, <5>1
      <4> QED BY <1>held, <4>1, <4>2
    <3>4. \A i \in DOMAIN immutables' : i \in DOMAIN immutables \/ i = Len(immutables) + 1
      BY <1>types, <2>4
    <3> QED BY <2>2, <3>2, <3>3, <3>4
  <2> QED BY <2>1, <2>3, <2>4
<1>install. CASE FlushInstall \/ FlushFails
  <2> DEFINE m == WithTable(flushMem)
  <2>1. /\ disk' \in {disk, m} /\ UNCHANGED immutables /\ flushPc \in {"write", "install"}
    BY <1>install, FlushEffect
  <2>2. /\ m.maxSequence \in {manifest.maxSequence, flushMem.maxSeq}
        /\ flushMem.primary[k].seq <= m.tables[k].seq /\ m.tables[k].seq \in Nat
    BY <1>types, WithTableGrows
  <2>3. flushMem = Head(immutables) /\ immutables # <<>>
    BY <2>1 DEF LayerInv, FlushHoldsOldest
  <2>4. 1 \in DOMAIN immutables /\ flushMem = immutables[1]
    BY <2>3, SeqElements DEF TypeOK
  <2>5. manifest.maxSequence <= disk.maxSequence
    BY DEF BaseInv, AheadInv
  <2>6. f.seq <= flushMem.maxSeq => f.seq <= flushMem.primary[k].seq
    BY <1>old, <2>4
  <2> HIDE DEF m
  <2>7. disk' = m => m.maxSequence < f.seq
    <3>1. CASE m.maxSequence = manifest.maxSequence
      BY <1>types, <1>old, <2>5, <3>1
    <3>2. CASE m.maxSequence = flushMem.maxSeq
      BY <1>types, <2>2, <2>6, <3>2
    <3> QED BY <2>2, <3>1, <3>2
  <2> QED BY <1>old, <2>1, <2>7
<1>remove. CASE FlushRemove
  <2>1. /\ flushPc = "remove" /\ UNCHANGED <<disk, manifest>>
        /\ \/ immutables' = immutables
           \/ /\ immutables # <<>> /\ Head(immutables) = immutables[1]
              /\ DOMAIN immutables' = 1..(Len(immutables) - 1)
              /\ \A i \in DOMAIN immutables' : /\ i + 1 \in DOMAIN immutables
                                               /\ immutables'[i] = immutables[i + 1]
    BY <1>remove, RemoveEffect
  <2>2. flushMem = Head(immutables) /\ flushMem.primary[k].seq <= manifest.tables[k].seq
    BY <1>types, <2>1 DEF LayerInv, FlushHoldsOldest
  <2>3. manifest.tables[k].seq <= disk.tables[k].seq
    BY <1>types DEF BaseInv, AheadInv
  <2>4. ~(f.seq <= flushMem.primary[k].seq)
    BY <1>types, <1>old, <2>2, <2>3
  <2>5. CASE immutables' = immutables
    BY <1>old, <2>1, <2>5
  <2>6. CASE /\ Head(immutables) = immutables[1]
             /\ DOMAIN immutables' = 1..(Len(immutables) - 1)
             /\ \A i \in DOMAIN immutables' : /\ i + 1 \in DOMAIN immutables
                                              /\ immutables'[i] = immutables[i + 1]
    <3>1. ASSUME NEW i \in DOMAIN immutables', f.seq <= immutables'[i].maxSeq
          PROVE  \E j \in 1..i : f.seq <= immutables'[j].primary[k].seq
      <4>1. PICK j \in 1..(i + 1) : f.seq <= immutables[j].primary[k].seq
        BY <1>old, <2>6, <3>1
      <4>2. j # 1
        BY <2>2, <2>4, <2>6, <4>1
      <4>3. j - 1 \in 1..i /\ j - 1 \in DOMAIN immutables' /\ (j - 1) + 1 = j
        BY <1>types, <2>6, <3>1, <4>1, <4>2
      <4>4. immutables'[j - 1] = immutables[j]
        BY <2>6, <4>3
      <4> QED BY <4>1, <4>3, <4>4
    <3> QED BY <1>old, <2>1, <3>1
  <2> QED BY <2>1, <2>5, <2>6
<1> QED BY <1>old, <1>same, <1>apply, <1>install, <1>remove, OpenSteps DEF BaseInv

\* A durable write stays held by some journal.
LEMMA KeptIsHeld ==
    ASSUME TypeOK, NEW f \in Frame, Kept(f)
    PROVE  \E w \in Nat : HeldFrom(f, w)
<1>1. CASE TablesCover(f)
  <2>1. HeldFrom(f, 0)
    BY <1>1 DEF TablesCover, HeldFrom
  <2> QED BY <2>1
<1>2. CASE \E g \in walSynced : FrameOf(g) = f /\ HeldFrom(f, g.wal)
  <2>1. \A g \in walSynced : g \in WalFrame
    BY DEF TypeOK
  <2>2. \A g \in walSynced : g.wal \in Nat
    BY <2>1 DEF WalFrame
  <2> QED BY <1>2, <2>2
<1> QED BY <1>1, <1>2 DEF Kept

\* In the open database, what is kept and in order is found again after a crash.
LEMMA KeptReplayable ==
    ASSUME TypeOK, BaseInv, life = "open", NEW f \in Frame, Ordered(f), Kept(f)
    PROVE  Replayable(f)
<1> SUFFICES ASSUME ~TablesCover(f)
             PROVE  /\ disk.maxSequence < f.seq
                    /\ \E g \in walSynced : FrameOf(g) = f /\ disk.replayFromWalId <= g.wal
  BY DEF Replayable
<1>1. PICK k \in DOMAIN f.batch : ~(f.seq <= disk.tables[k].seq)
  BY DEF TablesCover
<1>2. disk.maxSequence < f.seq
  BY <1>1 DEF Ordered
<1>3. PICK g \in walSynced : FrameOf(g) = f /\ HeldFrom(f, g.wal)
  BY DEF Kept
<1>4. /\ disk.replayFromWalId <= mutable.walId
      /\ \A i \in DOMAIN immutables : disk.replayFromWalId <= immutables[i].walId
  BY DEF BaseInv, JournalInv
<1>5. g.wal \in Nat
  <2>1. g \in WalFrame
    BY DEF TypeOK
  <2> QED BY <2>1 DEF WalFrame
<1>6. disk.replayFromWalId <= g.wal
  BY <1>1, <1>3, <1>4, <1>5, WalTypes DEF HeldFrom
<1> QED BY <1>2, <1>3, <1>6

\* What is found again is recoverable, key by key.
LEMMA ReplayableRecoverable ==
    ASSUME TypeOK, NEW f \in Frame, Replayable(f)
    PROVE  Recoverable(f)
<1> SUFFICES ASSUME NEW k \in DOMAIN f.batch
             PROVE  \/ disk.tables[k].seq >= f.seq
                    \/ \E g \in Replayed(disk, walSynced) : k \in DOMAIN g.batch /\ g.seq >= f.seq
  BY DEF Recoverable
<1>types. f.seq \in Nat /\ disk.tables[k].seq \in Nat /\ disk.maxSequence \in Nat
          /\ disk.replayFromWalId \in Nat /\ \A g \in walSynced : g.wal \in Nat
  <2>1. k \in Keys /\ f.seq \in Nat /\ \A g \in walSynced : g \in WalFrame
    BY FieldTypes DEF TypeOK
  <2> QED BY <2>1, FieldTypes, LayerTypes, WalTypes
<1>1. CASE TablesCover(f)
  BY <1>types, <1>1 DEF TablesCover
<1>2. CASE /\ disk.maxSequence < f.seq
           /\ \E g \in walSynced : FrameOf(g) = f /\ disk.replayFromWalId <= g.wal
  <2>1. PICK g \in walSynced : FrameOf(g) = f /\ disk.replayFromWalId <= g.wal
    BY <1>2
  <2>2. g.seq = f.seq /\ g.batch = f.batch
    BY <2>1 DEF FrameOf
  <2>3. g \in Replayed(disk, walSynced)
    BY <1>types, <1>2, <2>1, <2>2 DEF Replayed
  <2> QED BY <1>types, <2>2, <2>3
<1> QED BY <1>1, <1>2 DEF Replayable

\* Nothing on disk changes while the database is closed.
LEMMA ClosedSteps ==
    ASSUME TypeOK, LayerInv, BaseInv, ServiceInv, [Next]_vars,
           life = "closed", life' = "closed"
    PROVE  /\ disk' = disk /\ walSynced \subseteq walSynced'
           /\ svc = "left" => UNCHANGED <<walFrames, walSynced, svc, bgError>>
<1>idle. flushPc = "idle" /\ closePc = "idle" /\ group = {}
  BY DEF LayerInv, BaseInv, CountInv, ServiceInv
<1>1. disk' = disk
  BY <1>idle, DiskWriters DEF FlushInstall, FlushFails, CloseTake, CloseInstall,
     CloseInstallFails
<1>2. CASE UNCHANGED <<walFrames, walSynced, svc, bgError>>
  BY <1>1, <1>2
<1>3. CASE UNCHANGED vars
  BY <1>2, <1>3 DEF vars
<1>4. ASSUME NEW w \in Writers, WriterStep(w) \/ \E b \in Batches : BeginWrite(w, b)
      PROVE  UNCHANGED <<walFrames, walSynced, svc, bgError>>
  BY <1>4 DEF WriterStep, BeginWrite, RejectWrite, ApplyEnqueue
<1>5. CASE ServiceStep
  <2>1. svc # "left" /\ walSynced \subseteq walSynced'
    BY <1>5 DEF ServiceStep, ServiceDrain, ServiceStop, CommitOpenWal, CommitAppend,
       CommitSync, CommitFails, CommitPublish, FinalizeOk, FinalizeError
  <2> QED BY <1>1, <2>1
<1>6. CASE FlushStep
  BY <1>6, <1>idle DEF FlushStep, FlushPick, FlushWriteTable, FlushInstall, FlushFails,
     FlushRemove
<1>7. ASSUME NEW s \in Syncers, SyncCall(s) \/ SyncReturn(s)
      PROVE  UNCHANGED <<walFrames, walSynced, svc, bgError>>
  BY <1>7 DEF SyncCall, SyncReturn
<1>8. CASE CloseBegin \/ CloseStep
  BY <1>8, <1>idle DEF CloseBegin, CloseStep, CloseStopService, CloseJoin, CloseDrain,
     CloseTake, CloseInstall, CloseInstallFails, CloseReset
<1>9. ~Open
  <2>1. Open => life' = "open"
    BY ZenonT(60) DEF Open
  <2> QED BY <2>1
<1>10. ASSUME NEW kind \in CrashKinds PROVE ~Crash(kind)
  BY DEF Crash
<1> QED
  BY <1>1, <1>2, <1>3, <1>4, <1>5, <1>6, <1>7, <1>8, <1>9, <1>10 DEF Next

\* open() finds again what can be replayed.
LEMMA OpenKeeps ==
    ASSUME TypeOK, TypeOK', BaseInv, Open, NEW f \in Frame, Replayable(f)
    PROVE  Ordered(f)' /\ Kept(f)'
<1>0. disk' = disk /\ immutables' = <<>>
  BY ZenonT(60) DEF Open
<1>1. disk' = disk /\ DOMAIN immutables' = {}
  BY <1>0
<1>2. CASE TablesCover(f)
  <2>1. TablesCover(f)'
    BY <1>1, <1>2 DEF TablesCover
  <2> QED BY <2>1 DEF Kept, Ordered, TablesCover
<1>3. CASE /\ disk.maxSequence < f.seq
           /\ \E g \in walSynced : FrameOf(g) = f /\ disk.replayFromWalId <= g.wal
  <2>1. PICK g \in walSynced : FrameOf(g) = f /\ disk.replayFromWalId <= g.wal
    BY <1>3
  <2>2. g.seq = f.seq /\ g.batch = f.batch
    BY <2>1 DEF FrameOf
  <2>types. f.seq \in Nat /\ disk.maxSequence \in Nat /\ disk.replayFromWalId \in Nat
            /\ g.wal \in Nat /\ g \in walFrames
    <3>1. g \in WalFrame /\ g \in walFrames
      BY DEF TypeOK
    <3> QED BY <3>1, FieldTypes, WalTypes
  <2>3. g \in Replayed(disk, walFrames)
    BY <1>3, <2>types, <2>1, <2>2 DEF Replayed
  <2>4. /\ mutable'.walId <= g.wal /\ g.wal \in walFiles'
        /\ \A k \in DOMAIN g.batch : g.seq <= mutable'.primary[k].seq
        /\ walSynced' = {h \in walSynced : h.wal \in walFiles'}
    BY <2>3, OpenEffect DEF BaseInv
  <2>5. HeldFrom(f, g.wal)'
    BY <2>2, <2>4 DEF HeldFrom
  <2>6. Kept(f)'
    BY <2>1, <2>4, <2>5 DEF Kept
  <2>7. Ordered(f)'
    BY <1>1, <1>3 DEF Ordered
  <2> QED BY <2>6, <2>7
<1> QED BY <1>2, <1>3 DEF Replayable

\* A crash keeps the manifest and every synced frame.
LEMMA CrashKeeps ==
    ASSUME NEW kind \in CrashKinds, Crash(kind), NEW f, Replayable(f)
    PROVE  Replayable(f)'
<1>1. disk' = disk /\ walSynced \subseteq walSynced'
  BY DEF Crash
<1> QED BY <1>1 DEF Replayable, TablesCover

\* A write that survives a crash now still survives it after any step.
LEMMA DurableStays ==
    ASSUME MaxCloses = 0, TypeOK, TypeOK', LayerInv, BaseInv, BaseInv', ServiceInv,
           [Next]_vars, NEW f \in Frame, Durable(f)
    PROVE  Durable(f)'
<1>life. life \in {"open", "closed"} /\ life' \in {"open", "closed"}
  <2>1. life \in {"open", "closed"}
    BY NeverClosing
  <2>2. closes' \in Nat /\ life' \in {"open", "closing", "closed"}
    BY DEF TypeOK
  <2>3. closes' <= 0 /\ (life' = "closing" => closes' > 0)
    BY DEF BaseInv, CountInv
  <2> QED BY <2>1, <2>2, <2>3
<1>steps. /\ life = "open" /\ life' = "closed" => \E kind \in CrashKinds : Crash(kind)
          /\ life = "closed" /\ life' = "open" => Open
  <2>1. CloseReset => life = "closing"
    BY DEF CloseReset, BaseInv, CountInv
  <2> QED BY <2>1, AckSteps
<1>1. CASE life = "open" /\ life' = "open"
  <2>1. PICK w \in Nat : HeldFrom(f, w)
    BY <1>1, KeptIsHeld DEF Durable
  <2>2. Ordered(f)'
    BY <1>1, <2>1, OrderedStays DEF Durable
  <2>3. Kept(f)'
    BY <1>1, KeptStays DEF Durable
  <2> QED BY <1>1, <2>2, <2>3 DEF Durable
<1>2. CASE life = "open" /\ life' = "closed"
  <2>1. Replayable(f)
    BY <1>2, KeptReplayable DEF Durable
  <2>2. Replayable(f)'
    BY <1>2, <1>steps, <2>1, CrashKeeps
  <2> QED BY <1>2, <2>2 DEF Durable
<1>3. CASE life = "closed" /\ life' = "open"
  <2>1. Ordered(f)' /\ Kept(f)'
    BY <1>3, <1>steps, OpenKeeps DEF Durable
  <2> QED BY <1>3, <2>1 DEF Durable
<1>4. CASE life = "closed" /\ life' = "closed"
  <2>1. disk' = disk /\ walSynced \subseteq walSynced'
    BY <1>4, ClosedSteps
  <2>2. Replayable(f)'
    BY <1>4, <2>1 DEF Durable, Replayable, TablesCover
  <2> QED BY <1>4, <2>2 DEF Durable
<1> QED BY <1>life, <1>1, <1>2, <1>3, <1>4

\* While the database is open, a writer that is encoding took a sequence in this step or
\* before, and sequences only grow.
LEMMA EncodeSteps ==
    ASSUME TypeOK, [Next]_vars, life = "open", life' = "open"
    PROVE  /\ nextSequence' \in {nextSequence, nextSequence + 1}
           /\ \A w \in Writers : pc'[w] = "encode" =>
                 \/ \E b \in Batches : BeginWrite(w, b)
                 \/ /\ pc[w] = "encode" /\ req'[w] = req[w]
                    /\ ~ApplyEnqueue(w)
<1> DEFINE Same == UNCHANGED <<nextSequence, pc, req>>
           Goal == /\ nextSequence' \in {nextSequence, nextSequence + 1}
                   /\ \A w \in Writers : pc'[w] = "encode" =>
                         \/ \E b \in Batches : BeginWrite(w, b)
                         \/ pc[w] = "encode" /\ req'[w] = req[w]
<1>types. pc \in [Writers -> {"idle", "encode", "wait"}] /\ req \in [Writers -> Frame]
  BY DEF TypeOK
<1>apply. ASSUME NEW w \in Writers, ApplyEnqueue(w) PROVE pc'[w] # "encode"
  BY <1>types, <1>apply DEF ApplyEnqueue
<1>1. ASSUME UNCHANGED vars PROVE Goal
  BY <1>1 DEF vars
<1>2. ASSUME NEW w \in Writers, NEW b \in Batches, BeginWrite(w, b) PROVE Goal
  <2>1. /\ nextSequence' = nextSequence + 1
        /\ \A v \in Writers : v # w => pc'[v] = pc[v] /\ req'[v] = req[v]
    BY <1>types, <1>2 DEF BeginWrite
  <2> QED BY <1>2, <2>1
<1>3. ASSUME NEW w \in Writers, WriterStep(w) PROVE Goal
  <2>1. /\ nextSequence' = nextSequence /\ req' = req
        /\ \A v \in Writers : pc'[v] = "encode" => pc[v] = "encode"
    BY <1>types, <1>3 DEF WriterStep, RejectWrite, ApplyEnqueue
  <2> QED BY <2>1
<1>4. ASSUME ServiceStep PROVE Goal
  <2>1. CASE FinalizeOk \/ FinalizeError
    <3>1. /\ nextSequence' = nextSequence /\ req' = req
          /\ \A v \in Writers : pc'[v] \in {"idle", pc[v]}
      BY <1>types, <2>1 DEF FinalizeOk, FinalizeError
    <3> QED BY <3>1
  <2>2. CASE ~(FinalizeOk \/ FinalizeError)
    <3>1. Same
      BY <1>4, <2>2 DEF ServiceStep, ServiceDrain, ServiceStop, CommitOpenWal, CommitAppend,
         CommitSync, CommitFails, CommitPublish
    <3> QED BY <3>1
  <2> QED BY <2>1, <2>2
<1>5. ASSUME FlushStep PROVE Goal
  BY <1>5 DEF FlushStep, FlushPick, FlushWriteTable, FlushInstall, FlushFails, FlushRemove
<1>6. ASSUME NEW s \in Syncers, SyncCall(s) \/ SyncReturn(s) PROVE Same
  BY <1>6 DEF SyncCall, SyncReturn
<1>7. ASSUME CloseBegin \/ CloseStep PROVE Goal
  <2>1. CASE CloseDrain
    <3>1. /\ nextSequence' = nextSequence /\ req' = req
          /\ \A v \in Writers : pc'[v] \in {"idle", pc[v]}
      BY <1>types, <2>1 DEF CloseDrain
    <3> QED BY <3>1
  <2>2. CASE ~CloseDrain
    BY <1>7, <2>2 DEF CloseBegin, CloseStep, CloseStopService, CloseJoin, CloseTake,
       CloseInstall, CloseInstallFails, CloseReset, ForgetState
  <2> QED BY <2>1, <2>2
<1>8. ASSUME NEW kind \in CrashKinds PROVE ~Crash(kind)
  BY DEF Crash, ForgetState
<1>9. ~Open
  <2>1. Open => life = "closed"
    BY ZenonT(60) DEF Open
  <2> QED BY <2>1
<1>10. Goal
  BY <1>1, <1>2, <1>3, <1>4, <1>5, <1>6, <1>7, <1>8, <1>9 DEF Next
<1> QED BY <1>apply, <1>10

\* A bound on every sequence in memory stays one, if it bounds the write being applied.
LEMMA BelowStays ==
    ASSUME TypeOK, TypeOK', LayerInv, BaseInv, [Next]_vars, life = "open", life' = "open",
           NEW n \in Nat, Below(n),
           \A w \in Writers : ApplyEnqueue(w) => req[w].seq < n
    PROVE  Below(n)'
<1>types. /\ disk.maxSequence \in Nat /\ manifest.maxSequence \in Nat
          /\ mutable.maxSeq \in Nat /\ flushMem.maxSeq \in Nat /\ flushMem \in MemTable
          /\ DOMAIN immutables = 1..Len(immutables) /\ Len(immutables) \in Nat
          /\ \A i \in DOMAIN immutables : immutables[i].maxSeq \in Nat
  BY WalTypes DEF TypeOK
<1>old. /\ disk.maxSequence < n /\ mutable.maxSeq < n
        /\ \A i \in DOMAIN immutables : immutables[i].maxSeq < n
  BY DEF Below
<1>same. CASE UNCHANGED <<disk, manifest, mutable, immutables>>
  BY <1>same, <1>old DEF Below
<1>apply. ASSUME NEW w \in Writers, ApplyEnqueue(w) PROVE Below(n)'
  <2>1. PICK mem \in MemTable :
            /\ mem.maxSeq \in {mutable.maxSeq, req[w].seq}
            /\ \/ mutable' = mem /\ immutables' = immutables
               \/ /\ DOMAIN immutables' = 1..(Len(immutables) + 1)
                  /\ immutables'[Len(immutables) + 1] = mem
                  /\ \A i \in DOMAIN immutables : immutables'[i] = immutables[i]
                  /\ mutable'.maxSeq = 0
    BY <1>apply, ApplyEffect DEF BaseInv
  <2>2. disk' = disk /\ mem.maxSeq < n
    BY <1>apply, <1>old, <2>1, ApplyEffect DEF BaseInv
  <2>3. CASE mutable' = mem /\ immutables' = immutables
    BY <1>old, <2>2, <2>3 DEF Below
  <2>4. CASE /\ DOMAIN immutables' = 1..(Len(immutables) + 1)
             /\ immutables'[Len(immutables) + 1] = mem
             /\ \A i \in DOMAIN immutables : immutables'[i] = immutables[i]
             /\ mutable'.maxSeq = 0
    <3>1. \A i \in DOMAIN immutables' : i \in DOMAIN immutables \/ i = Len(immutables) + 1
      BY <1>types, <2>4
    <3>2. 0 < n
      BY <1>types, <1>old
    <3> QED BY <1>old, <2>2, <2>4, <3>1, <3>2 DEF Below
  <2> QED BY <2>1, <2>3, <2>4
<1>install. CASE FlushInstall \/ FlushFails
  <2>1. /\ disk' \in {disk, WithTable(flushMem)} /\ UNCHANGED <<mutable, immutables>>
        /\ flushPc \in {"write", "install"}
    BY <1>install, FlushEffect
  <2>2. WithTable(flushMem).maxSequence \in {manifest.maxSequence, flushMem.maxSeq}
    BY <1>types, WithTableGrows
  <2>3. flushMem = Head(immutables) /\ immutables # <<>>
    BY <2>1 DEF LayerInv, FlushHoldsOldest
  <2>4. 1 \in DOMAIN immutables /\ flushMem = immutables[1]
    BY <2>3, SeqElements DEF TypeOK
  <2>5. manifest.maxSequence <= disk.maxSequence
    BY DEF BaseInv, AheadInv
  <2>6. WithTable(flushMem).maxSequence < n
    BY <1>types, <1>old, <2>2, <2>4, <2>5
  <2> QED BY <1>old, <2>1, <2>6 DEF Below
<1>remove. CASE FlushRemove
  <2>1. /\ UNCHANGED <<disk, mutable>>
        /\ \/ immutables' = immutables
           \/ \A i \in DOMAIN immutables' : /\ i + 1 \in DOMAIN immutables
                                            /\ immutables'[i] = immutables[i + 1]
    BY <1>remove, RemoveEffect
  <2> QED BY <1>old, <2>1 DEF Below
<1> QED BY <1>same, <1>apply, <1>install, <1>remove, OpenSteps DEF BaseInv

\* The write being applied is above everything before, so only the memtable it goes to
\* covers it.
LEMMA AppliedInOrder ==
    ASSUME TypeOK, TypeOK', LayerInv, LayerInv', BaseInv, NEW w \in Writers,
           ApplyEnqueue(w), Below(req[w].seq)
    PROVE  Ordered(req[w])'
<1> DEFINE f == req[w]
<1>0. /\ f \in Frame /\ life = "open" /\ life' = "open" /\ disk' = disk /\ req' = req
      /\ manifest'.tables = manifest.tables /\ f \in applied'
  BY ApplyEffect DEF BaseInv
<1>1. \A k \in DOMAIN f.batch :
          /\ disk'.maxSequence < f.seq
          /\ \A i \in DOMAIN immutables' :
                f.seq <= immutables'[i].maxSeq =>
                   \E j \in 1..i : f.seq <= immutables'[j].primary[k].seq
  <2> SUFFICES ASSUME NEW k \in DOMAIN f.batch
               PROVE  /\ disk'.maxSequence < f.seq
                      /\ \A i \in DOMAIN immutables' :
                            f.seq <= immutables'[i].maxSeq =>
                               \E j \in 1..i : f.seq <= immutables'[j].primary[k].seq
    OBVIOUS
  <2>types. /\ k \in Keys /\ f.seq \in Nat
            /\ disk.maxSequence \in Nat /\ manifest.maxSequence \in Nat
            /\ manifest.tables[k].seq \in Nat
            /\ DOMAIN immutables = 1..Len(immutables) /\ Len(immutables) \in Nat
            /\ \A i \in DOMAIN immutables : /\ immutables[i].primary[k].seq \in Nat
                                            /\ immutables[i].maxSeq \in Nat
    BY <1>0, FieldTypes, LayerTypes, WalTypes
  <2>below. /\ disk.maxSequence < f.seq
            /\ \A i \in DOMAIN immutables : immutables[i].maxSeq < f.seq
    BY DEF Below
  <2>bound. /\ manifest.tables[k].seq <= manifest.maxSequence
            /\ manifest.maxSequence <= disk.maxSequence
            /\ \A i \in DOMAIN immutables : immutables[i].primary[k].seq <= immutables[i].maxSeq
    BY <1>0, <2>types DEF LayerInv, RecordsBounded, MemBounded, BaseInv, AheadInv
  <2>held. \/ f.seq <= mutable'.primary[k].seq
           \/ \E i \in DOMAIN immutables' : f.seq <= immutables'[i].primary[k].seq
           \/ f.seq <= manifest.tables[k].seq
    BY <1>0 DEF LayerInv, AppliedHeld
  <2> HIDE DEF f
  <2>1. \/ immutables' = immutables
        \/ /\ DOMAIN immutables' = 1..(Len(immutables) + 1)
           /\ \A i \in DOMAIN immutables : immutables'[i] = immutables[i]
           /\ mutable'.primary[k].seq = 0
    <3>1. \E mem \in MemTable :
            \/ mutable' = mem /\ immutables' = immutables
            \/ /\ DOMAIN immutables' = 1..(Len(immutables) + 1)
               /\ \A i \in DOMAIN immutables : immutables'[i] = immutables[i]
               /\ mutable'.primary[k].seq = 0
      BY <2>types, ApplyEffect DEF BaseInv
    <3> QED BY <3>1
  <2>2. CASE immutables' = immutables
    BY <1>0, <2>types, <2>below, <2>2
  <2>3. CASE /\ DOMAIN immutables' = 1..(Len(immutables) + 1)
             /\ \A i \in DOMAIN immutables : immutables'[i] = immutables[i]
             /\ mutable'.primary[k].seq = 0
    <3>1. ~(f.seq <= manifest.tables[k].seq) /\ ~(f.seq <= mutable'.primary[k].seq)
      BY <2>types, <2>below, <2>bound, <2>3
    <3>2. PICK j \in DOMAIN immutables' : f.seq <= immutables'[j].primary[k].seq
      BY <2>held, <3>1
    <3>3. j \notin DOMAIN immutables
      BY <2>types, <2>below, <2>bound, <2>3, <3>2
    <3>4. j = Len(immutables) + 1
      BY <2>types, <2>3, <3>2, <3>3
    <3>5. ASSUME NEW i \in DOMAIN immutables', f.seq <= immutables'[i].maxSeq
          PROVE  i = Len(immutables) + 1
      BY <2>types, <2>below, <2>3, <3>5
    <3> QED BY <1>0, <2>types, <2>below, <3>2, <3>4, <3>5
  <2> QED BY <2>1, <2>2, <2>3
<1> QED BY <1>0, <1>1 DEF Ordered

\* With one writer and without close(), sequences are applied in the order they are taken.
LEMMA FreshStep ==
    ASSUME \A v, w \in Writers : v = w, MaxCloses = 0,
           TypeOK, TypeOK', LayerInv, LayerInv', BaseInv, BaseInv', ServiceInv, FreshInv,
           [Next]_vars
    PROVE  FreshInv'
<1>types. /\ pc \in [Writers -> {"idle", "encode", "wait"}] /\ req \in [Writers -> Frame]
          /\ nextSequence \in Nat /\ nextSequence' \in Nat
          /\ \A w \in Writers : req[w].seq \in Nat
          /\ applied \subseteq Frame
  <2>1. /\ pc \in [Writers -> {"idle", "encode", "wait"}] /\ req \in [Writers -> Frame]
        /\ nextSequence \in Nat /\ nextSequence' \in Nat /\ applied \subseteq Frame
    BY DEF TypeOK
  <2> QED BY <2>1, FieldTypes
<1>life. life \in {"open", "closed"} /\ life' \in {"open", "closed"}
  <2>1. life \in {"open", "closed"}
    BY NeverClosing
  <2>2. closes' \in Nat /\ life' \in {"open", "closing", "closed"}
    BY DEF TypeOK
  <2>3. closes' <= 0 /\ (life' = "closing" => closes' > 0)
    BY DEF BaseInv, CountInv
  <2> QED BY <2>1, <2>2, <2>3
<1>closed. ASSUME life' = "closed" PROVE \A w \in Writers : pc'[w] = "idle"
  <2>1. CASE CloseReset
    BY <2>1 DEF CloseReset
  <2>2. ASSUME NEW kind \in CrashKinds, Crash(kind) PROVE \A w \in Writers : pc'[w] = "idle"
    BY <2>2 DEF Crash
  <2>3. CASE life = "closed"
    <3>1. \A w \in Writers : pc[w] = "idle"
      BY <2>3 DEF FreshInv
    <3>2. /\ \A w \in Writers : ~WriterStep(w) /\ \A b \in Batches : ~BeginWrite(w, b)
          /\ ~Open
      <4>1. Open => life' = "open"
        BY ZenonT(60) DEF Open
      <4> QED BY <1>closed, <2>3, <3>1, <4>1
              DEF WriterStep, RejectWrite, ApplyEnqueue, BeginWrite
    <3>3. \A w \in Writers : pc'[w] \in {"idle", pc[w]}
      <4>1. CASE UNCHANGED vars
        BY <4>1 DEF vars
      <4>2. CASE ServiceStep \/ FlushStep
        BY <1>types, <4>2 DEF ServiceStep, ServiceDrain, ServiceStop, CommitOpenWal,
           CommitAppend, CommitSync, CommitFails, CommitPublish, FinalizeOk, FinalizeError,
           FlushStep, FlushPick, FlushWriteTable, FlushInstall, FlushFails, FlushRemove
      <4>3. ASSUME NEW s \in Syncers, SyncCall(s) \/ SyncReturn(s) PROVE pc' = pc
        BY <4>3 DEF SyncCall, SyncReturn
      <4>4. CASE CloseBegin \/ CloseStep
        BY <1>types, <4>4 DEF CloseBegin, CloseStep, CloseStopService, CloseJoin, CloseDrain,
           CloseTake, CloseInstall, CloseInstallFails, CloseReset
      <4> QED BY <2>2, <3>2, <4>1, <4>2, <4>3, <4>4 DEF Next
    <3> QED BY <3>1, <3>3
  <2> QED BY <1>closed, <2>1, <2>2, <2>3, AckSteps
<1>reopen. ASSUME Open
           PROVE  /\ Below(nextSequence)' /\ \A f \in applied' : Ordered(f)'
                  /\ \A w \in Writers : pc'[w] # "encode"
  <2>1. /\ life = "closed" /\ disk' = disk /\ immutables' = <<>> /\ pc' = pc
        /\ applied' = {FrameOf(g) : g \in Replayed(disk, walFrames)}
    BY <1>reopen, ZenonT(60) DEF Open
  <2>2. /\ nextSequence' = lastVisible' + 1
        /\ disk.maxSequence <= lastVisible' /\ mutable'.maxSeq <= lastVisible'
    BY <1>reopen, OpenEffect DEF BaseInv
  <2>3. /\ lastVisible' \in Nat /\ disk.maxSequence \in Nat /\ mutable'.maxSeq \in Nat
    <3>1. lastVisible' \in Nat /\ mutable' \in MemTable
      BY DEF TypeOK
    <3> QED BY <3>1, FieldTypes, WalTypes
  <2>4. DOMAIN immutables' = {}
    BY <2>1
  <2>5. Below(nextSequence)'
    BY <2>1, <2>2, <2>3, <2>4 DEF Below
  <2>6. ASSUME NEW f \in applied' PROVE Ordered(f)'
    <3>1. PICK g \in Replayed(disk, walFrames) : f = FrameOf(g)
      BY <2>1, <2>6
    <3>2. f.seq = g.seq /\ disk.maxSequence < g.seq
      <4>1. g \in WalFrame /\ g.seq > disk.maxSequence
        BY <3>1 DEF Replayed, TypeOK
      <4>2. g.seq \in Nat
        BY <4>1, FieldTypes
      <4> QED BY <2>3, <3>1, <4>1, <4>2 DEF FrameOf
    <3> QED BY <2>1, <2>4, <3>2 DEF Ordered
  <2> QED BY <2>1, <2>5, <2>6 DEF FreshInv
<1>running. ASSUME life = "open", life' = "open"
            PROVE  /\ Below(nextSequence)' /\ \A f \in applied' : Ordered(f)'
                   /\ \A w \in Writers : pc'[w] = "encode" =>
                         Below(req[w].seq)' /\ req'[w].seq < nextSequence'
  <2>old. /\ Below(nextSequence)
          /\ \A w \in Writers : pc[w] = "encode" => /\ Below(req[w].seq)
                                                    /\ req[w].seq < nextSequence
          /\ \A f \in applied : Ordered(f)
    BY <1>running DEF FreshInv
  <2>steps. /\ nextSequence' \in {nextSequence, nextSequence + 1}
            /\ \A w \in Writers : pc'[w] = "encode" =>
                  \/ \E b \in Batches : BeginWrite(w, b)
                  \/ pc[w] = "encode" /\ req'[w] = req[w] /\ ~ApplyEnqueue(w)
    BY <1>running, EncodeSteps
  <2>1. PICK n \in Nat : n = nextSequence
    BY <1>types
  <2>2. Below(n)'
    <3>1. Below(n) /\ \A w \in Writers : ApplyEnqueue(w) => req[w].seq < n
      BY <2>old, <2>1 DEF ApplyEnqueue
    <3> QED BY <1>running, <3>1, BelowStays
  <2>below. /\ disk'.maxSequence < n /\ mutable'.maxSeq < n
            /\ \A i \in DOMAIN immutables' : immutables'[i].maxSeq < n
    BY <2>2 DEF Below
  <2>types. /\ disk'.maxSequence \in Nat /\ mutable'.maxSeq \in Nat
            /\ \A i \in DOMAIN immutables' : immutables'[i].maxSeq \in Nat
    <3>1. /\ disk' \in Manifest /\ mutable' \in MemTable
          /\ \A i \in DOMAIN immutables' : immutables'[i] \in MemTable
      BY SeqElements DEF TypeOK
    <3> QED BY <3>1, FieldTypes
  <2>3. Below(nextSequence)'
    <3>1. n <= nextSequence'
      BY <1>types, <2>1, <2>steps
    <3> QED BY <1>types, <2>below, <2>types, <3>1 DEF Below
  <2>4. ASSUME NEW f \in applied' PROVE Ordered(f)'
    <3>1. CASE f \in applied
      <4>1. HeldFrom(f, manifest.activeWalId) /\ manifest.activeWalId \in Nat
        BY <1>running, <3>1, AppliedHeldFrom, WalTypes
      <4>2. PICK j \in Nat : HeldFrom(f, j)
        BY <4>1
      <4> QED BY <1>types, <1>running, <2>old, <3>1, <4>2, OrderedStays
    <3>2. CASE f \notin applied
      <4>1. PICK w \in Writers : ApplyEnqueue(w) /\ f = req[w]
        <5>1. applied' = applied \/ \E w \in Writers : ApplyEnqueue(w)
          <6>1. ~Open /\ ~\E kind \in CrashKinds : Crash(kind)
            <7>1. Open => life = "closed"
              BY ZenonT(60) DEF Open
            <7> QED BY <1>running, <7>1 DEF Crash, ForgetState
          <6> QED BY <6>1 DEF Next, vars, BeginWrite, WriterStep, RejectWrite, ServiceStep,
              ServiceDrain, ServiceStop, CommitOpenWal, CommitAppend, CommitSync,
              CommitFails, CommitPublish, FinalizeOk, FinalizeError, FlushStep, FlushPick,
              FlushWriteTable, FlushInstall, FlushFails, FlushRemove, SyncCall, SyncReturn,
              CloseBegin, CloseStep, CloseStopService, CloseJoin, CloseDrain, CloseTake,
              CloseInstall, CloseInstallFails, CloseReset
        <5>2. \A w \in Writers : ApplyEnqueue(w) => applied' = applied \cup {req[w]}
          BY DEF ApplyEnqueue
        <5> QED BY <2>4, <3>2, <5>1, <5>2
      <4>2. Below(req[w].seq) /\ req' = req
        BY <2>old, <4>1 DEF ApplyEnqueue
      <4>3. Ordered(req[w])'
        BY <4>1, <4>2, AppliedInOrder
      <4> QED BY <4>1, <4>2, <4>3 DEF Ordered
    <3> QED BY <3>1, <3>2
  <2>5. ASSUME NEW w \in Writers, pc'[w] = "encode"
        PROVE  Below(req[w].seq)' /\ req'[w].seq < nextSequence'
    <3>1. CASE \E b \in Batches : BeginWrite(w, b)
      <4>1. req'[w].seq = n /\ nextSequence' = n + 1
        BY <1>types, <2>1, <3>1 DEF BeginWrite
      <4> QED BY <2>below, <4>1 DEF Below
    <3>2. CASE pc[w] = "encode" /\ req'[w] = req[w] /\ ~ApplyEnqueue(w)
      <4>1. PICK q \in Nat : q = req[w].seq
        BY <1>types
      <4>2. Below(q) /\ \A v \in Writers : ApplyEnqueue(v) => req[v].seq < q
        BY <2>old, <3>2, <4>1
      <4>3. Below(q)'
        BY <1>running, <4>2, BelowStays
      <4>4. req'[w].seq = q /\ q < nextSequence
        BY <2>old, <3>2, <4>1
      <4>5. q < nextSequence'
        BY <1>types, <2>steps, <4>4
      <4> QED BY <4>3, <4>4, <4>5 DEF Below
    <3> QED BY <2>steps, <2>5, <3>1, <3>2
  <2> QED BY <2>3, <2>4, <2>5
<1>1. CASE life' = "closed"
  BY <1>1, <1>closed DEF FreshInv
<1>2. CASE life = "closed" /\ life' = "open"
  <2>1. Open
    BY <1>2, AckSteps
  <2> QED BY <1>2, <1>reopen, <2>1 DEF FreshInv
<1>3. CASE life = "open" /\ life' = "open"
  BY <1>3, <1>running DEF FreshInv
<1> QED BY <1>life, <1>1, <1>2, <1>3

\* Sequences are applied in order, in every reachable state.
LEMMA FreshHolds ==
    ASSUME \A v, w \in Writers : v = w, MaxCloses = 0
    PROVE  Spec => []FreshInv
<1>1. Init => FreshInv
  BY DEF Init, FreshInv
<1>2. TypeOK /\ TypeOK' /\ LayerInv /\ LayerInv' /\ BaseInv /\ BaseInv' /\ ServiceInv
         /\ FreshInv /\ [Next]_vars => FreshInv'
  BY FreshStep
<1> QED BY <1>1, <1>2, TypeCorrect, LayersHold, BaseHolds, ServiceHolds, PTL DEF Spec

\* What is durable is recoverable.
LEMMA DurableRecoverable ==
    ASSUME MaxCloses = 0, TypeOK, BaseInv, NEW f \in Frame, Durable(f)
    PROVE  Recoverable(f)
<1>1. Replayable(f)
  BY NeverClosing, KeptReplayable DEF Durable
<1> QED BY <1>1, ReplayableRecoverable

\* The writes that were acknowledged and are durable.
AckedDurable == \A f \in acked : Durable(f)

\* A write() that returned success survives every crash of the process and every power
\* failure, at any point of the commit, of the flush or of the recovery from an earlier
\* crash, also after I/O errors, when one thread writes and close() is not called.
THEOREM AckedWritesSurvive ==
    ASSUME \A v, w \in Writers : v = w, MaxCloses = 0
    PROVE  Spec => []AckedSurvives
<1>1. Init => AckedDurable
  BY DEF Init, AckedDurable
<1>2. TypeOK /\ TypeOK' /\ LayerInv /\ BaseInv /\ BaseInv' /\ ServiceInv /\ FreshInv
         /\ AckedDurable /\ [Next]_vars => AckedDurable'
  <2> SUFFICES ASSUME TypeOK, TypeOK', LayerInv, BaseInv, BaseInv', ServiceInv, FreshInv,
                      AckedDurable, [Next]_vars, NEW f \in acked'
               PROVE  Durable(f)'
    BY DEF AckedDurable
  <2>1. CASE f \in acked
    <3>1. f \in Frame /\ Durable(f)
      BY <2>1 DEF TypeOK, AckedDurable
    <3> QED BY <3>1, DurableStays
  <2>2. CASE f \notin acked
    <3>1. FinalizeOk
      BY <2>2, AckSteps
    <3>2. f \in applied /\ (life = "open" => Kept(f)')
      BY <2>2, <3>1, FinalizeKept
    <3>3. UNCHANGED <<life, disk, immutables>> /\ f \in group
      BY <2>2, <3>1 DEF FinalizeOk, Waiting
    <3>4. life = "open"
      BY <3>3, NeverClosing DEF ServiceInv
    <3>5. Ordered(f)
      BY <3>2, <3>4 DEF FreshInv
    <3>6. Ordered(f)'
      BY <3>3, <3>5 DEF Ordered
    <3> QED BY <3>2, <3>3, <3>4, <3>6 DEF Durable
  <2> QED BY <2>1, <2>2
<1>3. TypeOK /\ BaseInv /\ AckedDurable => AckedSurvives
  <2> SUFFICES ASSUME TypeOK, BaseInv, AckedDurable, NEW f \in acked PROVE Recoverable(f)
    BY DEF AckedSurvives
  <2>1. f \in Frame /\ Durable(f)
    BY DEF TypeOK, AckedDurable
  <2> QED BY <2>1, DurableRecoverable
<1> QED BY <1>1, <1>2, <1>3, TypeCorrect, LayersHold, BaseHolds, ServiceHolds, FreshHolds,
        PTL DEF Spec

----------------------------------------------------------------------------
(* What sync() promises, for one writer.                                   *)

\* After a power failure every frame that is left is on the medium, and open() starts
\* from there.
LEMMA SyncOpen ==
    ASSUME TypeOK, TypeOK', BaseInv, ServiceInv, FreshInv, SyncInv, Open
    PROVE  SyncInv'
<1>1. /\ life = "closed" /\ life' = "open" /\ svc' = "drain" /\ disk' = disk
      /\ UNCHANGED <<bgError, pending, group, target, pc, req, want, syncTarget>>
      /\ applied' = {FrameOf(g) : g \in Replayed(disk, walFrames)}
  BY ZenonT(60) DEF Open
<1>2. /\ walSynced = walFrames /\ ~bgError /\ group = {} /\ \A s \in Syncers : want[s] = {}
      /\ \A w \in Writers : pc[w] = "idle"
  BY <1>1 DEF SyncInv, ServiceInv, FreshInv
<1>3. /\ nextSequence' = lastVisible' + 1 /\ lastDurable' = lastVisible' /\ lastVisible' \in Nat
  BY OpenEffect DEF BaseInv, TypeOK
<1>4. ASSUME NEW f \in applied' PROVE f.seq \in Nat /\ f.seq <= lastVisible' /\ Kept(f)'
  <2>1. PICK g \in Replayed(disk, walFrames) : f = FrameOf(g)
    BY <1>1, <1>4
  <2>2. /\ g \in walFrames /\ g \in WalFrame /\ f.seq = g.seq
        /\ g.wal >= disk.replayFromWalId /\ g.seq > disk.maxSequence
    BY <2>1 DEF Replayed, FrameOf, TypeOK
  <2>3. g.seq \in Nat /\ g.wal \in Nat /\ f \in Frame
    BY <2>1, <2>2 DEF WalFrame, FrameOf, Frame
  <2>4. Replayable(f)
    BY <1>2, <2>1, <2>2, <2>3, WalTypes DEF Replayable
  <2>5. Kept(f)'
    BY <2>3, <2>4, OpenKeeps
  <2>6. g.seq <= lastVisible'
    BY <2>1, OpenEffect DEF BaseInv
  <2> QED BY <2>2, <2>3, <2>5, <2>6
<1>5. \A f \in applied' : f.seq < nextSequence'
  BY <1>3, <1>4
<1>6. lastDurable' < nextSequence'
  <2>1. \A n \in Nat : n < n + 1
    OBVIOUS
  <2> QED BY <1>3, <2>1
<1> QED BY <1>1, <1>2, <1>4, <1>5, <1>6 DEF SyncInv, Committing

\* While the database stays open, each action keeps the durable cursor truthful.
LEMMA SyncRunning ==
    ASSUME \A v, w \in Writers : v = w,
           TypeOK, TypeOK', LayerInv, BaseInv, BaseInv', ServiceInv, FreshInv, SyncInv,
           [Next]_vars, life = "open", life' = "open"
    PROVE  SyncInv'
<1>types. /\ pc \in [Writers -> {"idle", "encode", "wait"}] /\ req \in [Writers -> Frame]
          /\ syncTarget \in [Syncers -> Nat] /\ want \in [Syncers -> SUBSET Frame]
          /\ nextSequence \in Nat /\ lastVisible \in Nat /\ lastDurable \in Nat /\ target \in Nat
          /\ \A w \in Writers : req[w].seq \in Nat
          /\ \A f \in applied : f.seq \in Nat /\ f \in Frame
          /\ pending \subseteq applied /\ group \subseteq applied
  <2>1. /\ pc \in [Writers -> {"idle", "encode", "wait"}] /\ req \in [Writers -> Frame]
        /\ syncTarget \in [Syncers -> Nat] /\ want \in [Syncers -> SUBSET Frame]
        /\ nextSequence \in Nat /\ lastVisible \in Nat /\ lastDurable \in Nat /\ target \in Nat
        /\ applied \subseteq Frame
    BY DEF TypeOK
  <2> QED BY <2>1, FieldTypes DEF ServiceInv
<1>service. (bgError => svc = "left") /\ (svc = "drain" => group = {})
  BY DEF SyncInv
<1>cover. \A f \in applied : /\ f.seq <= lastVisible
                             /\ f.seq <= lastDurable => Kept(f)
                             /\ ~bgError /\ svc # "fail" => f \in pending \cup group \/ Kept(f)
  BY DEF SyncInv
<1>target. /\ \A f \in group : f.seq <= target
           /\ Committing => /\ \A f \in pending : target < f.seq
                            /\ \A w \in Writers : pc[w] = "encode" => target < req[w].seq
                            /\ target < nextSequence
  BY DEF SyncInv
<1>next. /\ lastDurable < nextSequence /\ \A f \in applied : f.seq < nextSequence
         /\ \A w \in Writers : pc[w] = "encode" =>
               /\ lastDurable < req[w].seq
               /\ \A f \in applied : f.seq < req[w].seq
  BY DEF SyncInv
<1>want. \A s \in Syncers : \A f \in want[s] : f \in applied /\ f.seq <= syncTarget[s]
  BY DEF SyncInv
<1>keep. ASSUME NEW f \in applied, Kept(f) PROVE Kept(f)'
  BY <1>types, <1>keep, KeptStays
<1>same. ASSUME UNCHANGED <<bgError, svc, group, target, pending, applied, lastVisible,
                            lastDurable, nextSequence, req, want, syncTarget>>,
                \A w \in Writers : pc'[w] = "encode" => pc[w] = "encode"
         PROVE  SyncInv'
  BY <1>same, <1>service, <1>cover, <1>target, <1>next, <1>want, <1>keep
     DEF SyncInv, Committing
<1>stutter. CASE UNCHANGED vars
  BY <1>stutter, <1>same DEF vars
<1>begin. ASSUME NEW w \in Writers, NEW b \in Batches, BeginWrite(w, b) PROVE SyncInv'
  <2>1. /\ UNCHANGED <<bgError, svc, group, target, pending, applied, lastVisible,
                       lastDurable, want, syncTarget>>
        /\ nextSequence' = nextSequence + 1 /\ req'[w].seq = nextSequence
        /\ \A v \in Writers : v = w
    BY <1>begin, <1>types DEF BeginWrite
  <2>2. /\ lastDurable < nextSequence' /\ \A f \in applied : f.seq < nextSequence'
        /\ Committing => target < nextSequence'
    BY <1>types, <1>next, <1>target, <2>1
  <2> QED BY <1>service, <1>cover, <1>target, <1>next, <1>want, <1>keep, <2>1, <2>2
          DEF SyncInv, Committing
<1>reject. ASSUME NEW w \in Writers, RejectWrite(w) PROVE SyncInv'
  <2>1. \A v \in Writers : pc'[v] = "encode" => pc[v] = "encode"
    BY <1>reject, <1>types DEF RejectWrite
  <2> QED BY <1>reject, <1>same, <2>1 DEF RejectWrite
<1>apply. ASSUME NEW w \in Writers, ApplyEnqueue(w) PROVE SyncInv'
  <2>1. /\ UNCHANGED <<bgError, svc, group, target, lastDurable, nextSequence, req, want,
                       syncTarget>>
        /\ pending' = pending \cup {req[w]} /\ applied' = applied \cup {req[w]}
        /\ lastVisible' = Max({lastVisible, req[w].seq}) /\ pc[w] = "encode"
        /\ \A v \in Writers : pc'[v] # "encode"
    BY <1>apply, <1>types DEF ApplyEnqueue
  <2>2. lastVisible <= lastVisible' /\ req[w].seq <= lastVisible' /\ lastVisible' \in Nat
    BY <1>types, <2>1, PairBounds
  <2>3. req[w].seq < nextSequence
    BY <2>1 DEF FreshInv
  <2>4. lastDurable < req[w].seq /\ (Committing => target < req[w].seq)
    BY <1>next, <1>target, <2>1
  <2>5. ASSUME NEW f \in applied'
        PROVE  /\ f.seq <= lastVisible' /\ f.seq < nextSequence
               /\ f.seq <= lastDurable => Kept(f)'
               /\ ~bgError /\ svc # "fail" => f \in pending' \cup group \/ Kept(f)'
    <3>1. CASE f \in applied
      BY <1>types, <1>cover, <1>next, <1>keep, <2>1, <2>2, <3>1
    <3>2. CASE f = req[w]
      BY <1>types, <2>1, <2>2, <2>3, <2>4, <3>2
    <3> QED BY <2>1, <3>1, <3>2
  <2>6. Committing => \A f \in pending' : target < f.seq
    BY <1>target, <2>1, <2>4
  <2>7. \A s \in Syncers : \A f \in want[s] : f \in applied'
    BY <1>want, <2>1
  <2> QED BY <1>service, <1>target, <1>next, <1>want, <2>1, <2>5, <2>6, <2>7
          DEF SyncInv, Committing
<1>drain. ASSUME ServiceDrain PROVE SyncInv'
  <2>1. /\ UNCHANGED <<bgError, applied, lastVisible, lastDurable, nextSequence, pc, req,
                       want, syncTarget>>
        /\ svc = "drain" /\ svc' = "open" /\ group' = pending /\ pending' = {}
    BY <1>drain DEF ServiceDrain
  <2>2. PICK h \in pending : target' = h.seq /\ \A f \in pending : f.seq <= h.seq
    BY <1>drain DEF ServiceDrain, IsMax
  <2>3. /\ target' < nextSequence
        /\ \A w \in Writers : pc[w] = "encode" => target' < req[w].seq
    BY <1>types, <1>next, <2>2
  <2>4. group = {} /\ ~bgError
    BY <1>service, <2>1
  <2> QED BY <1>cover, <1>next, <1>want, <1>keep, <2>1, <2>2, <2>3, <2>4
          DEF SyncInv, Committing
<1>stop. ASSUME ServiceStop PROVE SyncInv'
  <2>1. /\ UNCHANGED <<bgError, group, target, pending, applied, lastVisible, lastDurable,
                       nextSequence, pc, req, want, syncTarget>>
        /\ svc = "drain" /\ svc' = "left"
    BY <1>stop DEF ServiceStop
  <2> QED BY <1>service, <1>cover, <1>target, <1>next, <1>want, <1>keep, <2>1
          DEF SyncInv, Committing
<1>commit. ASSUME CommitOpenWal \/ CommitAppend \/ CommitSync PROVE SyncInv'
  <2>1. /\ UNCHANGED <<bgError, group, target, pending, applied, lastVisible, lastDurable,
                       nextSequence, pc, req, want, syncTarget>>
        /\ svc \in {"open", "append", "sync"} /\ svc' \in {"append", "sync", "publish"}
    BY <1>commit DEF CommitOpenWal, CommitAppend, CommitSync
  <2> QED BY <1>service, <1>cover, <1>target, <1>next, <1>want, <1>keep, <2>1
          DEF SyncInv, Committing
<1>fails. ASSUME CommitFails PROVE SyncInv'
  <2>1. /\ UNCHANGED <<bgError, group, target, pending, applied, lastVisible, lastDurable,
                       nextSequence, pc, req, want, syncTarget>>
        /\ svc \in {"open", "append", "sync"} /\ svc' = "fail"
    BY <1>fails DEF CommitFails
  <2> QED BY <1>service, <1>cover, <1>target, <1>next, <1>want, <1>keep, <2>1
          DEF SyncInv, Committing
<1>written. ASSUME svc \in {"publish", "finalize"}, NEW f \in group PROVE Kept(f)
  <2>1. InWal(walFileId, f) \in walSynced /\ HeldFrom(f, walFileId)
    BY <1>written DEF ServiceInv
  <2>2. f \in Frame
    BY <1>types
  <2>3. FrameOf(InWal(walFileId, f)) = f /\ InWal(walFileId, f).wal = walFileId
    BY <2>2 DEF FrameOf, InWal, Frame
  <2> QED BY <2>1, <2>3 DEF Kept
<1>publish. ASSUME CommitPublish PROVE SyncInv'
  <2>1. /\ UNCHANGED <<bgError, group, target, pending, applied, lastVisible,
                       nextSequence, pc, req, want, syncTarget>>
        /\ svc = "publish" /\ svc' = "finalize" /\ lastDurable' = Max({lastDurable, target})
    BY <1>publish DEF CommitPublish
  <2>2. lastDurable' \in {lastDurable, target} /\ ~bgError /\ Committing
    BY <1>types, <1>service, <2>1, PairBounds DEF Committing
  <2>3. ASSUME NEW f \in applied, f.seq <= lastDurable' PROVE Kept(f)
    <3>1. CASE lastDurable' = lastDurable
      BY <1>cover, <2>3, <3>1
    <3>2. CASE lastDurable' = target
      <4>1. f \notin pending
        BY <1>types, <1>target, <2>2, <2>3, <3>2
      <4> QED BY <1>cover, <1>written, <2>1, <2>2, <4>1
    <3> QED BY <2>2, <3>1, <3>2
  <2>4. /\ lastDurable' < nextSequence
        /\ \A w \in Writers : pc[w] = "encode" => lastDurable' < req[w].seq
    BY <1>next, <1>target, <2>2
  <2> QED BY <1>service, <1>cover, <1>target, <1>next, <1>want, <1>keep, <2>1, <2>2, <2>3, <2>4
          DEF SyncInv, Committing
<1>finalize. ASSUME FinalizeOk PROVE SyncInv'
  <2>1. /\ UNCHANGED <<bgError, target, pending, applied, lastVisible, lastDurable,
                       nextSequence, req, want, syncTarget>>
        /\ svc = "finalize" /\ svc' = "drain" /\ group' = {}
        /\ \A w \in Writers : pc'[w] = "encode" => pc[w] = "encode"
    BY <1>finalize DEF FinalizeOk
  <2>2. ~bgError
    BY <1>service, <2>1
  <2> QED BY <1>cover, <1>next, <1>want, <1>keep, <1>written, <2>1, <2>2
          DEF SyncInv, Committing
<1>error. ASSUME FinalizeError PROVE SyncInv'
  <2>1. /\ UNCHANGED <<target, pending, applied, lastVisible, lastDurable,
                       nextSequence, req, want, syncTarget>>
        /\ bgError' = TRUE /\ svc' = "left" /\ group' = {}
        /\ \A w \in Writers : pc'[w] = "encode" => pc[w] = "encode"
    BY <1>error DEF FinalizeError
  <2> QED BY <1>cover, <1>next, <1>want, <1>keep, <2>1 DEF SyncInv, Committing
<1>flush. ASSUME FlushStep PROVE SyncInv'
  <2>1. UNCHANGED <<bgError, svc, group, target, pending, applied, lastVisible,
                    lastDurable, nextSequence, pc, req, want, syncTarget>>
    BY <1>flush DEF FlushStep, FlushPick, FlushWriteTable, FlushInstall, FlushFails, FlushRemove
  <2> QED BY <1>same, <2>1
<1>call. ASSUME NEW s \in Syncers, SyncCall(s) PROVE SyncInv'
  <2>1. /\ UNCHANGED <<bgError, svc, group, target, pending, applied, lastVisible,
                       lastDurable, nextSequence, pc, req>>
        /\ \A t \in Syncers :
              \/ want'[t] = want[t] /\ syncTarget'[t] = syncTarget[t]
              \/ want'[t] = applied /\ syncTarget'[t] = lastVisible
    BY <1>call, <1>types DEF SyncCall
  <2>2. \A t \in Syncers : \A f \in want'[t] : f \in applied /\ f.seq <= syncTarget'[t]
    BY <1>cover, <1>want, <2>1
  <2> QED BY <1>service, <1>cover, <1>target, <1>next, <1>keep, <2>1, <2>2
          DEF SyncInv, Committing
<1>return. ASSUME NEW s \in Syncers, SyncReturn(s) PROVE SyncInv'
  <2>1. /\ UNCHANGED <<bgError, svc, group, target, pending, applied, lastVisible,
                       lastDurable, nextSequence, pc, req, syncTarget>>
        /\ \A t \in Syncers : want'[t] \in {want[t], {}}
    BY <1>return, <1>types DEF SyncReturn
  <2>2. \A t \in Syncers : \A f \in want'[t] : f \in applied /\ f.seq <= syncTarget'[t]
    BY <1>want, <2>1
  <2> QED BY <1>service, <1>cover, <1>target, <1>next, <1>keep, <2>1, <2>2
          DEF SyncInv, Committing
<1>close. ~CloseBegin /\ ~CloseStep
  <2>1. closePc = "idle"
    BY DEF BaseInv, CountInv
  <2> QED BY <2>1 DEF CloseBegin, CloseStep, CloseStopService, CloseJoin, CloseDrain,
          CloseTake, CloseInstall, CloseInstallFails, CloseReset
<1>crash. ASSUME NEW kind \in CrashKinds PROVE ~Crash(kind)
  BY DEF Crash, ForgetState
<1>reopen. ~Open
  <2>1. Open => life = "closed"
    BY ZenonT(60) DEF Open
  <2> QED BY <2>1
<1> QED
  BY <1>stutter, <1>begin, <1>reject, <1>apply, <1>drain, <1>stop, <1>commit, <1>fails,
     <1>publish, <1>finalize, <1>error, <1>flush, <1>call, <1>return, <1>close, <1>crash,
     <1>reopen DEF Next, WriterStep, ServiceStep

\* The four ways a step can go: staying open, crashing, opening, staying closed.
LEMMA SyncStep ==
    ASSUME \A v, w \in Writers : v = w, MaxCloses = 0, "process" \notin CrashKinds,
           TypeOK, TypeOK', LayerInv, BaseInv, BaseInv', ServiceInv, FreshInv, SyncInv,
           [Next]_vars
    PROVE  SyncInv'
<1>life. life \in {"open", "closed"} /\ life' \in {"open", "closed"}
  <2>1. life \in {"open", "closed"}
    BY NeverClosing
  <2>2. closes' \in Nat /\ life' \in {"open", "closing", "closed"}
    BY DEF TypeOK
  <2>3. closes' <= 0 /\ (life' = "closing" => closes' > 0)
    BY DEF BaseInv, CountInv
  <2> QED BY <2>1, <2>2, <2>3
<1>1. CASE life = "open" /\ life' = "open"
  BY <1>1, SyncRunning
<1>2. CASE life = "open" /\ life' = "closed"
  <2>1. CloseReset => life = "closing"
    BY DEF CloseReset, BaseInv, CountInv
  <2>2. PICK kind \in CrashKinds : Crash(kind)
    BY <1>2, <2>1, AckSteps
  <2>3. /\ walSynced' = walFrames' /\ svc' = "left" /\ ~bgError'
        /\ \A s \in Syncers : want'[s] = {}
    BY <2>2 DEF Crash, ForgetState
  <2> QED BY <1>2, <2>3 DEF SyncInv
<1>3. CASE life = "closed" /\ life' = "open"
  BY <1>3, AckSteps, SyncOpen
<1>4. CASE life = "closed" /\ life' = "closed"
  <2>1. /\ walSynced = walFrames /\ svc = "left" /\ ~bgError
        /\ \A s \in Syncers : want[s] = {}
    BY <1>4 DEF SyncInv
  <2>2. UNCHANGED <<walFrames, walSynced, svc, bgError>>
    BY <1>4, <2>1, ClosedSteps
  <2>3. \A s \in Syncers : want'[s] = {}
    <3>1. want \in [Syncers -> SUBSET Frame]
      BY DEF TypeOK
    <3>2. ~Open /\ \A kind \in CrashKinds : ~Crash(kind)
      <4>1. Open => life' = "open"
        BY ZenonT(60) DEF Open
      <4> QED BY <1>4, <4>1 DEF Crash
    <3>3. ASSUME NEW s \in Syncers, SyncCall(s) \/ SyncReturn(s)
          PROVE  \A t \in Syncers : want'[t] = {}
      BY <1>4, <2>1, <3>1, <3>3 DEF SyncCall, SyncReturn
    <3>4. CASE want' = want
      BY <2>1, <3>4
    <3> QED
      BY <3>2, <3>3, <3>4
         DEF Next, vars, BeginWrite, WriterStep, RejectWrite, ApplyEnqueue, ServiceStep,
             ServiceDrain, ServiceStop, CommitOpenWal, CommitAppend, CommitSync, CommitFails,
             CommitPublish, FinalizeOk, FinalizeError, FlushStep, FlushPick,
             FlushWriteTable, FlushInstall, FlushFails, FlushRemove, CloseBegin, CloseStep,
             CloseStopService, CloseJoin, CloseDrain, CloseTake, CloseInstall,
             CloseInstallFails, CloseReset
  <2> QED BY <1>4, <2>1, <2>2, <2>3 DEF SyncInv
<1> QED BY <1>life, <1>1, <1>2, <1>3, <1>4

\* The durable cursor is truthful in every reachable state.
LEMMA SyncHolds ==
    ASSUME \A v, w \in Writers : v = w, MaxCloses = 0, "process" \notin CrashKinds
    PROVE  Spec => []SyncInv
<1>1. Init => SyncInv
  BY DEF Init, SyncInv
<1>2. TypeOK /\ TypeOK' /\ LayerInv /\ BaseInv /\ BaseInv' /\ ServiceInv /\ FreshInv
         /\ SyncInv /\ [Next]_vars => SyncInv'
  BY SyncStep
<1> QED BY <1>1, <1>2, TypeCorrect, LayersHold, BaseHolds, ServiceHolds, FreshHolds, PTL
        DEF Spec

\* The writes a sync() vouched for and that are durable.
PromisedDurable == \A f \in promised : Durable(f)

\* A sync() that succeeds vouches only for applied writes that are kept.
LEMMA PromiseStep ==
    ASSUME TypeOK, TypeOK', BaseInv, FreshInv, SyncInv, MaxCloses = 0, [Next]_vars,
           NEW f \in promised', f \notin promised
    PROVE  Durable(f)'
<1>types. /\ syncTarget \in [Syncers -> Nat] /\ want \in [Syncers -> SUBSET Frame]
          /\ lastVisible \in Nat /\ lastDurable \in Nat
          /\ \A h \in applied : h.seq \in Nat
  <2>1. /\ syncTarget \in [Syncers -> Nat] /\ want \in [Syncers -> SUBSET Frame]
        /\ lastVisible \in Nat /\ lastDurable \in Nat /\ applied \subseteq Frame
    BY DEF TypeOK
  <2> QED BY <2>1, FieldTypes
<1>0. PICK s \in Syncers : SyncCall(s) \/ SyncReturn(s)
  <2>1. Open => promised' = promised
    BY ZenonT(60) DEF Open
  <2>2. \/ promised' = promised
        \/ \E s \in Syncers : SyncCall(s) \/ SyncReturn(s)
    BY <2>1
       DEF Next, vars, BeginWrite, WriterStep, RejectWrite, ApplyEnqueue, ServiceStep,
           ServiceDrain, ServiceStop, CommitOpenWal, CommitAppend, CommitSync, CommitFails,
           CommitPublish, FinalizeOk, FinalizeError, FlushStep, FlushPick, FlushWriteTable,
           FlushInstall, FlushFails, FlushRemove, CloseBegin, CloseStep, CloseStopService,
           CloseJoin, CloseDrain, CloseTake, CloseInstall, CloseInstallFails, CloseReset,
           Crash
  <2> QED BY <2>2
<1>1. UNCHANGED <<life, disk, mutable, immutables, walSynced>>
  BY <1>0 DEF SyncCall, SyncReturn
<1>2. \/ life = "open" /\ lastDurable >= lastVisible /\ f \in applied
      \/ f \in want[s] /\ lastDurable >= syncTarget[s]
  BY <1>0 DEF SyncCall, SyncReturn
<1>3. life = "open"
  <2>1. life \in {"open", "closed"}
    BY NeverClosing
  <2> QED BY <1>2, <2>1 DEF SyncInv
<1>4. f \in applied /\ f.seq <= lastDurable
  <2>1. \A h \in applied : h.seq <= lastVisible
    BY <1>3 DEF SyncInv
  <2>2. \A h \in want[s] : h \in applied /\ h.seq <= syncTarget[s]
    BY <1>3 DEF SyncInv
  <2>3. syncTarget[s] \in Nat
    BY <1>types
  <2> QED BY <1>types, <1>2, <2>1, <2>2, <2>3
<1>5. Kept(f) /\ Ordered(f)
  BY <1>3, <1>4 DEF SyncInv, FreshInv
<1>6. Kept(f)' /\ Ordered(f)'
  BY <1>1, <1>5 DEF Kept, Ordered, TablesCover, HeldFrom
<1> QED BY <1>1, <1>3, <1>6 DEF Durable

\* What was visible when a successful sync() was called survives every power failure,
\* with lazyWrite or without, for one writing thread and any number of threads calling
\* sync(), when close() is not called.  (After the crash of the process alone open()
\* replays frames from the page cache and counts them as durable.)
THEOREM SyncedWritesSurvive ==
    ASSUME \A v, w \in Writers : v = w, MaxCloses = 0, "process" \notin CrashKinds
    PROVE  Spec => []SyncedSurvives
<1>1. Init => PromisedDurable
  BY DEF Init, PromisedDurable
<1>2. TypeOK /\ TypeOK' /\ LayerInv /\ BaseInv /\ BaseInv' /\ ServiceInv /\ FreshInv
         /\ SyncInv /\ PromisedDurable /\ [Next]_vars => PromisedDurable'
  <2> SUFFICES ASSUME TypeOK, TypeOK', LayerInv, BaseInv, BaseInv', ServiceInv, FreshInv,
                      SyncInv, PromisedDurable, [Next]_vars, NEW f \in promised'
               PROVE  Durable(f)'
    BY DEF PromisedDurable
  <2>1. CASE f \in promised
    <3>1. f \in Frame /\ Durable(f)
      BY <2>1 DEF TypeOK, PromisedDurable
    <3> QED BY <3>1, DurableStays
  <2>2. CASE f \notin promised
    BY <2>2, PromiseStep
  <2> QED BY <2>1, <2>2
<1>3. TypeOK /\ BaseInv /\ PromisedDurable => SyncedSurvives
  <2> SUFFICES ASSUME TypeOK, BaseInv, PromisedDurable, NEW f \in promised
               PROVE  Recoverable(f)
    BY DEF SyncedSurvives
  <2>1. f \in Frame /\ Durable(f)
    BY DEF TypeOK, PromisedDurable
  <2> QED BY <2>1, DurableRecoverable
<1> QED BY <1>1, <1>2, <1>3, TypeCorrect, LayersHold, BaseHolds, ServiceHolds, FreshHolds,
        SyncHolds, PTL DEF Spec
=============================================================================
