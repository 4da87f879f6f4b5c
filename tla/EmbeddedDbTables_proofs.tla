----------------------- MODULE EmbeddedDbTables_proofs -----------------------
(***************************************************************************)
(* Proofs about EmbeddedDbTables, for every value of its constants: types, *)
(* and that the files a manifest needs exist while flushes, compactions    *)
(* and blob collections create and delete files.                           *)
(***************************************************************************)
EXTENDS EmbeddedDbTables, OrderTheorems, FiniteSetTheorems

\* The definitions every step of a preservation proof has to see through.
USE DEF diskVars, memVars, writeVars, flushVars, compVars, gcVars, closeVars, boundVars

-----------------------------------------------------------------------------
(* What the operators on records and tables return.                        *)

\* The fields of a record, and what EXCEPT does to its blob file.
LEMMA RecordFields ==
    ASSUME NEW r \in Record
    PROVE  /\ r.seq \in Nat /\ r.blob \in Nat /\ r.del \in BOOLEAN /\ r.big \in BOOLEAN
           /\ \A b \in Nat : /\ [r EXCEPT !.blob = b] \in Record
                             /\ [r EXCEPT !.blob = b].blob = b
                             /\ [r EXCEPT !.blob = b].seq = r.seq
                             /\ [r EXCEPT !.blob = b].del = r.del
                             /\ [r EXCEPT !.blob = b].big = r.big
  BY DEF Record

\* The fields of a table, and a table made of its parts.
LEMMA TableFields ==
    /\ \A t \in Table : t.level \in {0, 1} /\ t.fileId \in Nat /\ t.recs \in [Keys -> Record]
    /\ \A level \in {0, 1}, id \in Nat, recs \in [Keys -> Record] :
          /\ [level |-> level, fileId |-> id, recs |-> recs] \in Table
          /\ [level |-> level, fileId |-> id, recs |-> recs].fileId = id
          /\ [level |-> level, fileId |-> id, recs |-> recs].level = level
          /\ [level |-> level, fileId |-> id, recs |-> recs].recs = recs
  BY DEF Table

\* The fields of a memtable.
LEMMA MemFields ==
    /\ \A mem \in MemTable : mem.maxSeq \in Nat /\ mem.ops \in Nat /\ mem.recs \in [Keys -> Record]
    /\ \A n, ops \in Nat, recs \in [Keys -> Record] :
          [maxSeq |-> n, ops |-> ops, recs |-> recs] \in MemTable
  BY DEF MemTable

\* The fields of a manifest.
LEMMA ManifestFields ==
    ASSUME NEW m \in Manifest
    PROVE  /\ m.manifestId \in Nat /\ m.maxSequence \in Nat /\ m.nextTableId \in Nat
           /\ m.tables \in SUBSET Table
  BY DEF Manifest

\* The ways in which the code changes a manifest.
LEMMA ManifestChanges ==
    ASSUME NEW m \in Manifest
    PROVE  /\ \A n \in Nat : /\ [m EXCEPT !.nextTableId = n] \in Manifest
                             /\ [m EXCEPT !.nextTableId = n].nextTableId = n
                             /\ [m EXCEPT !.nextTableId = n].manifestId = m.manifestId
                             /\ [m EXCEPT !.nextTableId = n].maxSequence = m.maxSequence
                             /\ [m EXCEPT !.nextTableId = n].tables = m.tables
           /\ \A T \in SUBSET Table :
                             /\ [m EXCEPT !.tables = T] \in Manifest
                             /\ [m EXCEPT !.tables = T].nextTableId = m.nextTableId
                             /\ [m EXCEPT !.tables = T].manifestId = m.manifestId
                             /\ [m EXCEPT !.tables = T].maxSequence = m.maxSequence
                             /\ [m EXCEPT !.tables = T].tables = T
           /\ [m EXCEPT !.manifestId = @ + 1] \in Manifest
           /\ [m EXCEPT !.manifestId = @ + 1].nextTableId = m.nextTableId
           /\ [m EXCEPT !.manifestId = @ + 1].manifestId = m.manifestId + 1
           /\ [m EXCEPT !.manifestId = @ + 1].maxSequence = m.maxSequence
           /\ [m EXCEPT !.manifestId = @ + 1].tables = m.tables
  BY DEF Manifest

\* Absent records and empty tables.
LEMMA EmptyTypes ==
    /\ NoRecord \in Record /\ NoRecord.seq = 0 /\ NoRecord.blob = 0 /\ ~NoRecord.big /\ ~NoRecord.del
    /\ NoRecords \in [Keys -> Record] /\ \A k \in Keys : NoRecords[k] = NoRecord
    /\ EmptyMem \in MemTable /\ EmptyMem.recs = NoRecords /\ EmptyMem.maxSeq = 0
    /\ NoTable \in Table
    /\ NewManifest \in Manifest /\ NewManifest.tables = {} /\ NewManifest.maxSequence = 0
    /\ NewManifest.nextTableId = 1 /\ NewManifest.manifestId = 1
<1>1. NoRecord \in Record /\ NoRecord.seq = 0 /\ NoRecord.blob = 0 /\ ~NoRecord.big /\ ~NoRecord.del
  BY DEF NoRecord, Record
<1>2. NoRecords \in [Keys -> Record] /\ \A k \in Keys : NoRecords[k] = NoRecord
  BY <1>1 DEF NoRecords
<1>3. EmptyMem \in MemTable /\ EmptyMem.recs = NoRecords /\ EmptyMem.maxSeq = 0
  BY <1>2 DEF EmptyMem, MemTable
<1>4. NoTable \in Table
  BY <1>2 DEF NoTable, Table
<1>5. /\ NewManifest \in Manifest /\ NewManifest.tables = {} /\ NewManifest.maxSequence = 0
      /\ NewManifest.nextTableId = 1 /\ NewManifest.manifestId = 1
  BY DEF NewManifest, Manifest
<1> QED BY <1>1, <1>2, <1>3, <1>4, <1>5

\* Records of bounded sequence; no record is the record of sequence 0.
Bounded(recs) == \A k \in Keys : recs[k].seq <= MaxSequence

\* A newest record exists: it is one of the records, and none is newer.
LEMMA NewestChoice ==
    ASSUME NEW maps \in SUBSET [Keys -> Record], \A r \in maps : Bounded(r), NEW k \in Keys
    PROVE  /\ NewestOf(k, maps) = NoRecord \/ \E r \in maps : NewestOf(k, maps) = r[k]
           /\ NewestOf(k, maps) \in Record
           /\ \A r \in maps : r[k].seq <= NewestOf(k, maps).seq
<1> DEFINE held == {r[k] : r \in maps} \cup {NoRecord}
           S == {h.seq : h \in held}
<1>1. \A h \in held : h \in Record /\ h.seq \in Nat /\ h.seq <= MaxSequence
  <2>1. NoRecord \in Record /\ NoRecord.seq = 0 /\ MaxSequence \in Nat
    BY EmptyTypes, TablesBoundsAssumption
  <2>2. \A r \in maps : r[k] \in Record /\ r[k].seq <= MaxSequence
    BY DEF Bounded
  <2> QED BY <2>1, <2>2, RecordFields
<1> HIDE DEF held
<1>2. S \in SUBSET Nat /\ S # {} /\ \A x \in S : x <= MaxSequence
  BY <1>1 DEF held
<1>3. Max(S) \in S /\ \A y \in S : Max(S) >= y
  BY <1>2, BoundedMax, TablesBoundsAssumption
<1>4. PICK h \in held : h.seq = Max(S)
  BY <1>3
<1>5. \A s \in held : s.seq <= h.seq
  <2> TAKE s \in held
  <2>1. s.seq \in S
    OBVIOUS
  <2> QED BY <1>1, <1>3, <1>4, <2>1
<1>6. NewestOf(k, maps) \in held /\ \A s \in held : s.seq <= NewestOf(k, maps).seq
  BY <1>4, <1>5 DEF NewestOf, held
<1> QED BY <1>1, <1>6 DEF held

\* The newest records of every key.
LEMMA NewestTypes ==
    ASSUME NEW maps \in SUBSET [Keys -> Record], \A r \in maps : Bounded(r)
    PROVE  /\ NewestRecs(maps) \in [Keys -> Record]
           /\ \A k \in Keys : NewestRecs(maps)[k] = NewestOf(k, maps)
           /\ Bounded(NewestRecs(maps))
<1>1. \A k \in Keys : NewestOf(k, maps) \in Record /\ NewestOf(k, maps).seq <= MaxSequence
  <2> TAKE k \in Keys
  <2>1. \/ NewestOf(k, maps) = NoRecord
        \/ \E r \in maps : NewestOf(k, maps) = r[k]
    BY NewestChoice
  <2>2. NoRecord.seq = 0 /\ 0 <= MaxSequence
    BY EmptyTypes, TablesBoundsAssumption
  <2> QED BY <2>1, <2>2, NewestChoice DEF Bounded
<1> QED BY <1>1 DEF NewestRecs, Bounded

\* The number of values of a table that go to a blob file.
LEMMA BigCount ==
    ASSUME NEW recs
    PROVE  /\ BigValues(recs) \in Nat
           /\ BigValues(recs) = 0 <=> \A k \in Keys : ~recs[k].big
<1> DEFINE S == {k \in Keys : recs[k].big}
<1>1. IsFiniteSet(S)
  <2>1. S \in SUBSET Keys
    OBVIOUS
  <2> HIDE DEF S
  <2> QED BY <2>1, FS_Subset, TablesKeysAssumption
<1>2. Cardinality(S) \in Nat /\ (Cardinality(S) = 0 <=> S = {})
  BY <1>1, FS_CardinalityType, FS_EmptySet
<1> QED BY <1>2 DEF BigValues

-----------------------------------------------------------------------------
(* What writing a table file and persisting the manifest do.               *)

\* The table that writeTableFile_ makes of recs.
LEMMA TableOfFields ==
    ASSUME manifest \in Manifest, NEW recs \in [Keys -> Record], NEW level \in {0, 1}
    PROVE  LET t == TableOf(level, recs) IN
           /\ t \in Table /\ t.level = level /\ t.fileId = manifest.nextTableId
           /\ \A k \in Keys :
                 /\ t.recs[k].seq = recs[k].seq /\ t.recs[k].del = recs[k].del
                 /\ t.recs[k].big = recs[k].big
                 /\ recs[k].big => t.recs[k].blob = manifest.nextTableId + 1
                 /\ ~recs[k].big => t.recs[k] = recs[k]
<1> DEFINE id == manifest.nextTableId
           new == [k \in Keys |-> IF recs[k].big THEN [recs[k] EXCEPT !.blob = id + 1] ELSE recs[k]]
<1>1. id \in Nat /\ id + 1 \in Nat
  BY ManifestFields
<1>2. \A k \in Keys : /\ new[k] \in Record
                      /\ new[k].seq = recs[k].seq /\ new[k].del = recs[k].del
                      /\ new[k].big = recs[k].big
                      /\ recs[k].big => new[k].blob = id + 1
                      /\ ~recs[k].big => new[k] = recs[k]
  <2> TAKE k \in Keys
  <2>1. recs[k] \in Record
    OBVIOUS
  <2> HIDE DEF id
  <2>2. /\ [recs[k] EXCEPT !.blob = id + 1] \in Record
        /\ [recs[k] EXCEPT !.blob = id + 1].seq = recs[k].seq
        /\ [recs[k] EXCEPT !.blob = id + 1].del = recs[k].del
        /\ [recs[k] EXCEPT !.blob = id + 1].big = recs[k].big
        /\ [recs[k] EXCEPT !.blob = id + 1].blob = id + 1
    BY <1>1, <2>1, RecordFields
  <2>3. new[k] = IF recs[k].big THEN [recs[k] EXCEPT !.blob = id + 1] ELSE recs[k]
    OBVIOUS
  <2> HIDE DEF new
  <2> QED BY <2>1, <2>2, <2>3
<1>3. new \in [Keys -> Record]
  BY <1>2
<1>4. TableOf(level, recs) = [level |-> level, fileId |-> id, recs |-> new]
  BY DEF TableOf
<1> HIDE DEF new, id
<1> QED BY <1>1, <1>2, <1>3, <1>4, TableFields DEF id

\* A blob file is on disk.
HasBlob(id) == \E b \in blobFiles : b.id = id

BlobTypes == blobFiles \subseteq [id : Nat, values : Nat]

\* Files are only added.
FilesGrow == /\ tableFiles \subseteq tableFiles'
             /\ \A id \in Nat : HasBlob(id) => HasBlob(id)'

\* Ids are handed out, and nothing else happens to the manifest in memory.
IdsTaken(n) == /\ n \in Nat /\ manifest.nextTableId < n
               /\ manifest' = [manifest EXCEPT !.nextTableId = n]

\* What writing the blob file of recs does to the blob files.
LEMMA BlobsWritten ==
    ASSUME manifest \in Manifest, BlobTypes, NEW recs \in [Keys -> Record]
    PROVE  /\ WithBlobs(recs) \subseteq [id : Nat, values : Nat]
           /\ \A id \in Nat : HasBlob(id) => \E b \in WithBlobs(recs) : b.id = id
           /\ BigValues(recs) # 0 => \E b \in WithBlobs(recs) : b.id = manifest.nextTableId + 1
<1> DEFINE id == manifest.nextTableId + 1
           old == {b \in blobFiles : b.id = id}
           n == BigValues(recs) + (IF old = {} THEN 0 ELSE (CHOOSE b \in old : TRUE).values)
<1>1. id \in Nat
  BY ManifestFields
<1>2. n \in Nat
  <2>1. BigValues(recs) \in Nat
    BY BigCount
  <2>2. CASE old = {}
    BY <2>1, <2>2
  <2>3. CASE old # {}
    <3>1. (CHOOSE b \in old : TRUE) \in old
      BY <2>3
    <3>2. (CHOOSE b \in old : TRUE).values \in Nat
      BY <3>1 DEF BlobTypes
    <3> QED BY <2>1, <2>3, <3>2
  <2> QED BY <2>2, <2>3
<1>3. WithBlobs(recs) = IF BigValues(recs) = 0 THEN blobFiles
                        ELSE (blobFiles \ old) \cup {[id |-> id, values |-> n]}
  BY DEF WithBlobs
<1>4. [id |-> id, values |-> n].id = id /\ [id |-> id, values |-> n] \in [id : Nat, values : Nat]
  BY <1>1, <1>2
<1> HIDE DEF n
<1>5. WithBlobs(recs) \subseteq [id : Nat, values : Nat]
  BY <1>3, <1>4 DEF BlobTypes
<1>6. ASSUME NEW i \in Nat, HasBlob(i) PROVE \E b \in WithBlobs(recs) : b.id = i
  <2>1. PICK b \in blobFiles : b.id = i
    BY <1>6 DEF HasBlob
  <2>2. CASE b \in old
    BY <1>3, <1>4, <2>1, <2>2
  <2>3. CASE b \notin old
    BY <1>3, <2>1, <2>3
  <2> QED BY <2>2, <2>3
<1>7. BigValues(recs) # 0 => \E b \in WithBlobs(recs) : b.id = id
  BY <1>3, <1>4
<1> QED BY <1>5, <1>6, <1>7

\* Both ids of a table are taken.
LEMMA IdsEffect ==
    ASSUME manifest \in Manifest, NEW recs, TakeIdsFor(recs)
    PROVE  \E n \in Nat : /\ IdsTaken(n)
                          /\ BigValues(recs) # 0 => manifest.nextTableId + 1 < n
<1> DEFINE n == manifest.nextTableId + (IF BigValues(recs) = 0 THEN 1 ELSE 2)
<1>1. n \in Nat /\ manifest.nextTableId < n /\ (BigValues(recs) # 0 => manifest.nextTableId + 1 < n)
  BY ManifestFields
<1>2. manifest' = [manifest EXCEPT !.nextTableId = n]
  BY DEF TakeIdsFor
<1> QED BY <1>1, <1>2 DEF IdsTaken

\* writeTableFile_ succeeds.
LEMMA WriteEffect ==
    ASSUME manifest \in Manifest, BlobTypes, NEW recs \in [Keys -> Record], WriteTable(recs)
    PROVE  /\ \E n \in Nat : /\ IdsTaken(n)
                             /\ BigValues(recs) # 0 => manifest.nextTableId + 1 < n
           /\ FilesGrow /\ BlobTypes'
           /\ tableFiles' = tableFiles \cup {manifest.nextTableId}
           /\ BigValues(recs) # 0 => \E b \in blobFiles' : b.id = manifest.nextTableId + 1
<1>1. /\ TakeIdsFor(recs) /\ blobFiles' = WithBlobs(recs)
      /\ tableFiles' = tableFiles \cup {manifest.nextTableId}
  BY DEF WriteTable
<1>2. BlobTypes' /\ \A id \in Nat : HasBlob(id) => HasBlob(id)'
  BY <1>1, BlobsWritten DEF BlobTypes, HasBlob
<1>3. BigValues(recs) # 0 => \E b \in blobFiles' : b.id = manifest.nextTableId + 1
  BY <1>1, BlobsWritten
<1> QED BY <1>1, <1>2, <1>3, IdsEffect DEF FilesGrow

\* writeTableFile_ fails.
LEMMA WriteFailsEffect ==
    ASSUME manifest \in Manifest, BlobTypes, NEW recs \in [Keys -> Record], NEW left,
           WriteTableFails(recs, left)
    PROVE  /\ \E n \in Nat : IdsTaken(n)
           /\ FilesGrow /\ BlobTypes'
           /\ tableFiles' \in {tableFiles, tableFiles \cup left}
           /\ faults' = faults + 1
<1>1. /\ TakeIdsFor(recs) /\ blobFiles' \in {blobFiles, WithBlobs(recs)}
      /\ tableFiles' \in {tableFiles, tableFiles \cup left} /\ faults' = faults + 1
  BY DEF WriteTableFails
<1>2. BlobTypes'
  BY <1>1, BlobsWritten DEF BlobTypes
<1>3. ASSUME NEW id \in Nat, HasBlob(id) PROVE HasBlob(id)'
  <2>1. \E b \in WithBlobs(recs) : b.id = id
    BY <1>3, BlobsWritten
  <2>2. \E b \in blobFiles : b.id = id
    BY <1>3 DEF HasBlob
  <2>3. blobFiles' = blobFiles \/ blobFiles' = WithBlobs(recs)
    BY <1>1
  <2> QED BY <2>1, <2>2, <2>3 DEF HasBlob
<1>4. tableFiles \subseteq tableFiles'
  BY <1>1
<1>5. \E n \in Nat : IdsTaken(n)
  BY <1>1, IdsEffect
<1> QED BY <1>1, <1>2, <1>3, <1>4, <1>5 DEF FilesGrow

\* The manifest on disk after a step: m persisted, m left there by a persist that
\* failed, or the one that was there.
Persisted(m) == disk' = m /\ manifest' = [m EXCEPT !.manifestId = @ + 1]
NotPersisted(m) == /\ manifest' = manifest
                   /\ \/ disk' = disk
                      \/ disk' = m /\ m.manifestId = disk.manifestId
                   /\ faults' = faults + 1

\* persistManifestLocked.
LEMMA PersistEffect ==
    ASSUME NEW m
    PROVE  /\ Persist(m) => Persisted(m)
           /\ PersistFails(m) => NotPersisted(m)
<1>1. Persist(m) => Persisted(m)
  BY DEF Persist, Persisted
<1>2. ASSUME PersistFails(m) PROVE NotPersisted(m)
  <2>1. CASE m.manifestId = disk.manifestId
    BY <1>2, <2>1 DEF PersistFails, NotPersisted
  <2>2. CASE m.manifestId # disk.manifestId
    BY <1>2, <2>2 DEF PersistFails, NotPersisted
  <2> QED BY <2>1, <2>2
<1> QED BY <1>1, <1>2

-----------------------------------------------------------------------------
(* The inductive invariant: types, phases, records.                        *)

\* Tables that are written and not yet in the manifest.
Flushed == IF flushPc = "install" THEN {flushTable} ELSE {}
Pending == Flushed \cup compNew \cup gc.new

Live == manifest.tables \cup Pending

\* The manifest was persisted since open(): the disk has its tables, and the next
\* MANIFEST file will be a new one.
Saved == /\ disk.manifestId < manifest.manifestId
         /\ disk.tables = manifest.tables /\ disk.maxSequence = manifest.maxSequence

\* What the program counters say.  A job that deletes files, or may, has seen a
\* manifest persisted.
PhaseInv ==
    /\ life \in {"open", "closed"}
    /\ life = "closed" => /\ manifest = NewManifest /\ immutables = <<>>
                          /\ flushPc = "idle" /\ compPc = "idle" /\ gcPc = "idle" /\ tails = {}
                          /\ \A w \in Writers : pc[w] = "idle"
    /\ life = "open" => disk.manifestId = manifest.manifestId \/ Saved
    /\ gcPc # "idle" \/ tails # {} => Saved
    /\ flushPc \in {"write", "install", "remove"} =>
          immutables # <<>> /\ flushMem = Head(immutables)
    /\ compTables \subseteq manifest.tables
    /\ compPc = "idle" => compTables = {}
    /\ compPc # "install" => compNew = {}
    /\ gcPc \in {"idle", "queued"} => gc = NoGc
    /\ gcPc # "commit" => gc.new = {}

\* A record without a sequence is no record, and only big values are in blob files.
RecsOK(recs) == /\ Bounded(recs)
                /\ \A k \in Keys : /\ recs[k].seq = 0 => recs[k] = NoRecord
                                   /\ recs[k].blob # 0 => recs[k].big

\* Big values are in memory until they are written with a table.
TableRecsOK(recs) == RecsOK(recs) /\ \A k \in Keys : recs[k].big => recs[k].blob # 0
MemRecsOK(recs) == RecsOK(recs) /\ \A k \in Keys : recs[k].blob = 0

RecsInv ==
    /\ IsFiniteSet(log)
    /\ \A op \in log : op.seq \in 1..MaxSequence
    /\ \A w \in Writers : pc[w] = "encode" => req[w].seq \in 1..MaxSequence
    /\ nextSequence # 0
    /\ MemRecsOK(mutable.recs)
    /\ \A i \in DOMAIN immutables : MemRecsOK(immutables[i].recs)
    /\ \A t \in disk.tables \cup Live : TableRecsOK(t.recs)
    /\ RecsOK(gc.recs)
    /\ gcPc \in {"write", "commit"} => \A k \in Keys : gc.recs[k].blob = 0

-----------------------------------------------------------------------------
(* What the jobs compute.                                                  *)

\* The record of an operation, that of a memtable.
LEMMA OperationFields ==
    ASSUME NEW op \in Operation
    PROVE  /\ op.seq \in Nat /\ op.key \in Keys /\ op.kind \in Kinds
           /\ RecordOf(op) \in Record /\ RecordOf(op).seq = op.seq /\ RecordOf(op).blob = 0
           /\ RecordOf(op).del <=> op.kind = "erase"
           /\ RecordOf(op).big <=> op.kind = "blob"
  BY DEF Operation, RecordOf, Record

\* The empty memtable has nothing in it.
LEMMA EmptyRecs ==
    MemRecsOK(NoRecords) /\ TableRecsOK(NoRecords)
  BY EmptyTypes, TablesBoundsAssumption DEF MemRecsOK, TableRecsOK, RecsOK, Bounded

\* applyBatchLockedMutable.
LEMMA AppliedEffect ==
    ASSUME NEW mem \in MemTable, NEW op \in Operation
    PROVE  /\ Applied(mem, op) \in MemTable
           /\ Applied(mem, op).maxSeq = Max({mem.maxSeq, op.seq})
           /\ mem.maxSeq <= Applied(mem, op).maxSeq /\ op.seq <= Applied(mem, op).maxSeq
           /\ Applied(mem, op).maxSeq \in {mem.maxSeq, op.seq}
           /\ Applied(mem, op).recs =
                 IF Lookup(op.key).seq > op.seq THEN mem.recs
                 ELSE [mem.recs EXCEPT ![op.key] = RecordOf(op)]
<1>1. /\ mem.maxSeq \in Nat /\ mem.ops \in Nat /\ mem.recs \in [Keys -> Record]
      /\ mem.ops + 1 \in Nat
  BY MemFields
<1>2. /\ op.seq \in Nat /\ op.key \in Keys /\ RecordOf(op) \in Record
  BY OperationFields
<1> DEFINE m == Max({mem.maxSeq, op.seq})
<1>3. m \in Nat /\ mem.maxSeq <= m /\ op.seq <= m /\ m \in {mem.maxSeq, op.seq}
  BY <1>1, <1>2, PairBounds
<1> HIDE DEF m
<1>4. [mem.recs EXCEPT ![op.key] = RecordOf(op)] \in [Keys -> Record]
  BY <1>1, <1>2
<1>5. CASE Lookup(op.key).seq > op.seq
  <2>1. Applied(mem, op) = [mem EXCEPT !.maxSeq = m]
    BY <1>5 DEF Applied, m
  <2>2. /\ [mem EXCEPT !.maxSeq = m] \in MemTable
        /\ [mem EXCEPT !.maxSeq = m].maxSeq = m
        /\ [mem EXCEPT !.maxSeq = m].recs = mem.recs
    BY <1>3 DEF MemTable
  <2> QED BY <1>3, <1>5, <2>1, <2>2 DEF m
<1>6. CASE ~(Lookup(op.key).seq > op.seq)
  <2> DEFINE recs == [mem.recs EXCEPT ![op.key] = RecordOf(op)]
  <2>1. Applied(mem, op) = [maxSeq |-> m, ops |-> mem.ops + 1, recs |-> recs]
    BY <1>6 DEF Applied, m
  <2> HIDE DEF recs
  <2>2. recs \in [Keys -> Record]
    BY <1>4 DEF recs
  <2>3. Applied(mem, op) \in MemTable
    BY <1>1, <1>3, <2>1, <2>2, MemFields
  <2>4. Applied(mem, op).maxSeq = m /\ Applied(mem, op).recs = recs
    BY <2>1
  <2> QED BY <1>3, <1>6, <2>3, <2>4 DEF recs, m
<1> QED BY <1>5, <1>6

\* compactL0Locked picks tables of the manifest: all of level 0, and all of level 1
\* or none of it.
LEMMA MergeSetEffect ==
    ASSUME NEW tables \in SUBSET Table
    PROVE  /\ MergeSet(tables) \subseteq tables
           /\ MergeSet(tables) # {} =>
                 /\ \A t \in tables : t.level = 0 => t \in MergeSet(tables)
                 /\ \/ \A t \in tables : t \in MergeSet(tables)
                    \/ \A t \in MergeSet(tables) : t.level = 0
<1> DEFINE l0 == {t \in tables : t.level = 0}
           l1 == {t \in tables : t.level = 1}
           full == Cardinality(l1) >= L1Trigger
           merge == IF Cardinality(l0) >= L0Trigger \/ full
                    THEN l0 \cup (IF full \/ l1 = {} THEN l1 ELSE {}) ELSE {}
<1>1. MergeSet(tables) = IF Cardinality(merge) < 2 THEN {} ELSE merge
  BY DEF MergeSet
<1>2. \A t \in tables : t \in l0 \/ t \in l1
  BY TableFields
<1> HIDE DEF full
<1>3. merge \subseteq tables
  OBVIOUS
<1>4. merge # {} => /\ l0 \subseteq merge
                    /\ merge = l0 \cup l1 \/ merge = l0
  OBVIOUS
<1> HIDE DEF merge
<1>5. MergeSet(tables) \subseteq merge /\ (MergeSet(tables) # {} => MergeSet(tables) = merge)
  BY <1>1
<1> QED BY <1>2, <1>3, <1>4, <1>5

\* Tables with well formed records, as sets of record maps.
LEMMA TableMaps ==
    ASSUME NEW tables \in SUBSET Table, \A t \in tables : TableRecsOK(t.recs)
    PROVE  /\ {t.recs : t \in tables} \in SUBSET [Keys -> Record]
           /\ \A r \in {t.recs : t \in tables} : Bounded(r)
  BY TableFields DEF TableRecsOK, RecsOK

\* The newest records of well formed tables are well formed.
LEMMA NewestOK ==
    ASSUME NEW tables \in SUBSET Table, \A t \in tables : TableRecsOK(t.recs)
    PROVE  /\ NewestRecs({t.recs : t \in tables}) \in [Keys -> Record]
           /\ TableRecsOK(NewestRecs({t.recs : t \in tables}))
<1> DEFINE maps == {t.recs : t \in tables}
           new == NewestRecs(maps)
<1>1. maps \in SUBSET [Keys -> Record] /\ \A r \in maps : Bounded(r) /\ TableRecsOK(r)
  BY TableMaps
<1> HIDE DEF maps
<1>2. new \in [Keys -> Record] /\ Bounded(new) /\ \A k \in Keys : new[k] = NewestOf(k, maps)
  BY <1>1, NewestTypes
<1>3. ASSUME NEW k \in Keys
      PROVE /\ new[k].seq = 0 => new[k] = NoRecord
            /\ new[k].blob # 0 <=> new[k].big
  <2>1. new[k] = NoRecord \/ \E r \in maps : new[k] = r[k]
    BY <1>1, <1>2, NewestChoice
  <2>2. CASE new[k] = NoRecord
    BY <2>2, EmptyTypes
  <2>3. CASE \E r \in maps : new[k] = r[k]
    BY <1>1, <2>3 DEF TableRecsOK, RecsOK
  <2> QED BY <2>1, <2>2, <2>3
<1> HIDE DEF new
<1>4. TableRecsOK(new)
  BY <1>2, <1>3 DEF TableRecsOK, RecsOK
<1> QED BY <1>2, <1>4 DEF new, maps

\* The newest record of every key in tables, erased keys left out.
LiveRecs(tables) ==
    LET newest == NewestRecs({t.recs : t \in tables})
    IN  [k \in Keys |-> IF newest[k].del THEN NoRecord ELSE newest[k]]

\* Records with some left out are well formed.
LEMMA LeftOutOK ==
    ASSUME NEW recs \in [Keys -> Record], TableRecsOK(recs), NEW new,
           new = [k \in Keys |-> new[k]],
           \A k \in Keys : new[k] = NoRecord \/ new[k] = recs[k]
    PROVE  new \in [Keys -> Record] /\ TableRecsOK(new)
<1>1. \A k \in Keys : new[k] \in Record
  BY EmptyTypes
<1>2. new \in [Keys -> Record]
  BY <1>1
<1>3. 0 <= MaxSequence
  BY TablesBoundsAssumption
<1>4. TableRecsOK(new)
  BY <1>3, EmptyTypes DEF TableRecsOK, RecsOK, Bounded
<1> QED BY <1>2, <1>4

\* The records a pass leaves.
LEMMA CompactedOK ==
    ASSUME compTables \in SUBSET Table, \A t \in compTables : TableRecsOK(t.recs)
    PROVE  CompactedRecs \in [Keys -> Record] /\ TableRecsOK(CompactedRecs)
<1> DEFINE newest == NewestRecs({t.recs : t \in compTables})
<1>1. newest \in [Keys -> Record] /\ TableRecsOK(newest)
  BY NewestOK
<1>2. CompactedRecs = [k \in Keys |-> IF compDrop /\ newest[k].del THEN NoRecord ELSE newest[k]]
  BY DEF CompactedRecs
<1> HIDE DEF newest
<1>3. \A k \in Keys : CompactedRecs[k] = NoRecord \/ CompactedRecs[k] = newest[k]
  BY <1>2
<1>4. CompactedRecs = [k \in Keys |-> CompactedRecs[k]]
  BY <1>2
<1> QED BY <1>1, <1>3, <1>4, LeftOutOK

\* The records a blob collection keeps.
LEMMA LiveOK ==
    ASSUME NEW tables \in SUBSET Table, \A t \in tables : TableRecsOK(t.recs)
    PROVE  LiveRecs(tables) \in [Keys -> Record] /\ TableRecsOK(LiveRecs(tables))
<1> DEFINE newest == NewestRecs({t.recs : t \in tables})
           live == LiveRecs(tables)
<1>1. newest \in [Keys -> Record] /\ TableRecsOK(newest)
  BY NewestOK
<1>2. live = [k \in Keys |-> IF newest[k].del THEN NoRecord ELSE newest[k]]
  BY DEF LiveRecs
<1> HIDE DEF newest, live
<1>3. \A k \in Keys : live[k] = NoRecord \/ live[k] = newest[k]
  BY <1>2
<1>4. live = [k \in Keys |-> live[k]]
  BY <1>2
<1>5. live \in [Keys -> Record] /\ TableRecsOK(live)
  BY <1>1, <1>3, <1>4, LeftOutOK
<1> QED BY <1>5 DEF live

Collection == [tables : SUBSET Table, recs : [Keys -> Record], seq : Nat, manifestId : Nat,
               listed : SUBSET Nat, new : SUBSET Table]

\* The record of a collection.
LEMMA CollectionFields ==
    /\ NoGc \in Collection /\ NoGc.new = {} /\ NoGc.recs = NoRecords
    /\ \A x \in Collection :
          /\ x.tables \in SUBSET Table /\ x.recs \in [Keys -> Record] /\ x.seq \in Nat
          /\ x.manifestId \in Nat /\ x.listed \in SUBSET Nat /\ x.new \in SUBSET Table
<1>1. /\ NoRecords \in [Keys -> Record] /\ {} \in SUBSET Table /\ {} \in SUBSET Nat
  BY EmptyTypes
<1> QED BY <1>1 DEF Collection, NoGc

-----------------------------------------------------------------------------
(* What the steps do to the two manifests.                                 *)

\* A manifest that was persisted is the one on disk and, but for its id, the one in
\* memory.
LEMMA PersistedFields ==
    ASSUME NEW m \in Manifest, Persisted(m)
    PROVE  /\ disk' = m /\ disk' \in Manifest /\ manifest' \in Manifest /\ Saved'
           /\ manifest'.tables = m.tables /\ manifest'.nextTableId = m.nextTableId
           /\ manifest'.maxSequence = m.maxSequence /\ manifest'.manifestId = m.manifestId + 1
<1>1. /\ disk' = m /\ disk' \in Manifest /\ manifest' \in Manifest
      /\ manifest'.tables = m.tables /\ manifest'.nextTableId = m.nextTableId
      /\ manifest'.maxSequence = m.maxSequence /\ manifest'.manifestId = m.manifestId + 1
  BY ManifestChanges DEF Persisted
<1>2. Saved'
  BY <1>1, ManifestFields DEF Saved
<1> QED BY <1>1, <1>2

\* A persist that failed may leave a manifest on disk only when none was persisted
\* since open().
LEMMA NotPersistedFields ==
    ASSUME disk \in Manifest, manifest \in Manifest, NEW m \in Manifest,
           m.manifestId = manifest.manifestId, disk.manifestId = manifest.manifestId \/ Saved,
           NotPersisted(m)
    PROVE  /\ disk' \in Manifest /\ manifest' = manifest
           /\ disk' = disk \/ (disk' = m /\ ~Saved)
           /\ disk'.manifestId = manifest'.manifestId \/ Saved'
           /\ Saved => disk' = disk /\ Saved'
<1>1. disk.manifestId \in Nat /\ manifest.manifestId \in Nat
  BY ManifestFields
<1> QED BY <1>1 DEF NotPersisted, Saved

\* Taking ids leaves everything else of the manifest alone.
LEMMA IdsTakenFields ==
    ASSUME manifest \in Manifest, NEW n, IdsTaken(n), disk' = disk
    PROVE  /\ manifest' \in Manifest /\ manifest'.nextTableId = n
           /\ manifest'.tables = manifest.tables /\ manifest'.manifestId = manifest.manifestId
           /\ manifest'.maxSequence = manifest.maxSequence
           /\ Saved <=> Saved'
<1>1. /\ manifest' \in Manifest /\ manifest'.nextTableId = n
      /\ manifest'.tables = manifest.tables /\ manifest'.manifestId = manifest.manifestId
      /\ manifest'.maxSequence = manifest.maxSequence
  BY ManifestChanges DEF IdsTaken
<1> QED BY <1>1 DEF Saved

\* The manifest with a flushed table in it.
LEMMA WithTableFields ==
    ASSUME manifest \in Manifest, NEW mem \in MemTable, NEW table \in Table
    PROVE  /\ WithTable(mem, table) \in Manifest
           /\ WithTable(mem, table).tables = manifest.tables \cup {table}
           /\ WithTable(mem, table).manifestId = manifest.manifestId
           /\ WithTable(mem, table).nextTableId = manifest.nextTableId
           /\ WithTable(mem, table).maxSequence = Max({manifest.maxSequence, mem.maxSeq})
<1> DEFINE top == Max({manifest.maxSequence, mem.maxSeq})
           all == manifest.tables \cup {table}
<1>1. top \in Nat
  BY ManifestFields, MemFields, PairBounds
<1>2. all \in SUBSET Table
  BY ManifestFields
<1>3. WithTable(mem, table) = [manifest EXCEPT !.maxSequence = top, !.tables = all]
  BY DEF WithTable
<1> HIDE DEF top, all
<1>4. /\ WithTable(mem, table) \in Manifest
      /\ WithTable(mem, table).tables = all
      /\ WithTable(mem, table).manifestId = manifest.manifestId
      /\ WithTable(mem, table).nextTableId = manifest.nextTableId
      /\ WithTable(mem, table).maxSequence = top
  BY <1>1, <1>2, <1>3 DEF Manifest
<1> QED BY <1>4 DEF top, all

\* The manifest with the tables of a compaction, or of a blob collection, replaced.
LEMMA ReplacedFields ==
    ASSUME manifest \in Manifest
    PROVE  /\ compNew \subseteq Table =>
                 /\ Compacted \in Manifest /\ Compacted.manifestId = manifest.manifestId
                 /\ Compacted.tables = (manifest.tables \ compTables) \cup compNew
                 /\ Compacted.nextTableId = manifest.nextTableId
                 /\ Compacted.maxSequence = manifest.maxSequence
           /\ gc.new \subseteq Table =>
                 /\ Collected \in Manifest /\ Collected.manifestId = manifest.manifestId
                 /\ Collected.tables = (manifest.tables \ gc.tables) \cup gc.new
                 /\ Collected.nextTableId = manifest.nextTableId
                 /\ Collected.maxSequence = manifest.maxSequence
<1>1. manifest.tables \in SUBSET Table
  BY ManifestFields
<1>2. ASSUME compNew \subseteq Table
      PROVE  /\ Compacted \in Manifest /\ Compacted.manifestId = manifest.manifestId
             /\ Compacted.tables = (manifest.tables \ compTables) \cup compNew
             /\ Compacted.nextTableId = manifest.nextTableId
             /\ Compacted.maxSequence = manifest.maxSequence
  <2> DEFINE T == (manifest.tables \ compTables) \cup compNew
  <2>1. T \in SUBSET Table
    BY <1>1, <1>2
  <2>2. Compacted = [manifest EXCEPT !.tables = T]
    BY DEF Compacted
  <2> HIDE DEF T
  <2>3. /\ Compacted \in Manifest /\ Compacted.manifestId = manifest.manifestId
        /\ Compacted.tables = T /\ Compacted.nextTableId = manifest.nextTableId
        /\ Compacted.maxSequence = manifest.maxSequence
    BY <2>1, <2>2, ManifestChanges
  <2> QED BY <2>3 DEF T
<1>3. ASSUME gc.new \subseteq Table
      PROVE  /\ Collected \in Manifest /\ Collected.manifestId = manifest.manifestId
             /\ Collected.tables = (manifest.tables \ gc.tables) \cup gc.new
             /\ Collected.nextTableId = manifest.nextTableId
             /\ Collected.maxSequence = manifest.maxSequence
  <2> DEFINE T == (manifest.tables \ gc.tables) \cup gc.new
  <2>1. T \in SUBSET Table
    BY <1>1, <1>3
  <2>2. Collected = [manifest EXCEPT !.tables = T]
    BY DEF Collected
  <2> HIDE DEF T
  <2>3. /\ Collected \in Manifest /\ Collected.manifestId = manifest.manifestId
        /\ Collected.tables = T /\ Collected.nextTableId = manifest.nextTableId
        /\ Collected.maxSequence = manifest.maxSequence
    BY <2>1, <2>2, ManifestChanges
  <2> QED BY <2>3 DEF T
<1> QED BY <1>2, <1>3

-----------------------------------------------------------------------------
(* Types, phases and records, step by step.                                *)

TypeInv == TypeOK /\ PhaseInv /\ RecsInv

\* submitRequest takes a sequence.
LEMMA BeginWriteTypes ==
    ASSUME TypeInv, NEW w \in Writers, NEW k \in Keys, NEW kind \in Kinds, BeginWrite(w, k, kind)
    PROVE  TypeInv'
<1> DEFINE op == [seq |-> nextSequence, key |-> k, kind |-> kind]
<1>1. /\ req' = [req EXCEPT ![w] = op] /\ pc' = [pc EXCEPT ![w] = "encode"]
      /\ nextSequence' = nextSequence + 1 /\ nextSequence <= MaxSequence /\ life = "open"
      /\ UNCHANGED <<diskVars, memVars, lastVisible, log, flushVars, compVars, gcVars,
                     closeVars, boundVars, manifest, tails>>
  BY DEF BeginWrite
<1>2. nextSequence \in Nat /\ nextSequence # 0 /\ MaxSequence \in Nat
  BY TablesBoundsAssumption DEF TypeInv, TypeOK, RecsInv
<1>3. op \in Operation /\ op.seq \in 1..MaxSequence
  BY <1>1, <1>2 DEF Operation
<1> HIDE DEF op
<1>4. req' \in [Writers -> Operation] /\ pc' \in [Writers -> {"idle", "encode"}]
  BY <1>1, <1>3 DEF TypeInv, TypeOK
<1>5. \A v \in Writers : pc'[v] = "encode" => req'[v].seq \in 1..MaxSequence
  BY <1>1, <1>3 DEF TypeInv, TypeOK, RecsInv
<1>6. TypeOK'
  BY <1>1, <1>2, <1>4 DEF TypeInv, TypeOK
<1>7. PhaseInv'
  BY <1>1 DEF TypeInv, PhaseInv, Saved
<1>8. RecsInv'
  BY <1>1, <1>2, <1>5 DEF TypeInv, RecsInv, Live, Pending, Flushed
<1> QED BY <1>6, <1>7, <1>8 DEF TypeInv

\* The record an operation stores is well formed.
LEMMA AppliedOK ==
    ASSUME NEW mem \in MemTable, MemRecsOK(mem.recs), NEW op \in Operation,
           op.seq \in 1..MaxSequence
    PROVE  MemRecsOK(Applied(mem, op).recs)
<1> DEFINE r == RecordOf(op)
<1>1. r.seq \in 1..MaxSequence /\ r.blob = 0 /\ op.key \in Keys /\ MaxSequence \in Nat
  BY OperationFields, TablesBoundsAssumption
<1>2. mem.recs \in [Keys -> Record]
  BY MemFields
<1>3. \/ Applied(mem, op).recs = mem.recs
      \/ Applied(mem, op).recs = [mem.recs EXCEPT ![op.key] = r]
  BY AppliedEffect
<1> HIDE DEF r
<1>4. MemRecsOK([mem.recs EXCEPT ![op.key] = r])
  BY <1>1, <1>2 DEF MemRecsOK, RecsOK, Bounded
<1> QED BY <1>3, <1>4

\* submitRequest applies its operation.
LEMMA ApplyWriteTypes ==
    ASSUME TypeInv, NEW w \in Writers, ApplyWrite(w)
    PROVE  TypeInv'
<1> DEFINE op == req[w]
           mem == Applied(mutable, op)
           full == mem.ops >= MemTableOps /\ ~IsEmptyMem(mem)
<1>1. /\ pc[w] = "encode" /\ life = "open"
      /\ mutable' = IF full THEN EmptyMem ELSE mem
      /\ immutables' = IF full THEN Append(immutables, mem) ELSE immutables
      /\ flushPc' = IF full /\ flushPc = "idle" THEN "queued" ELSE flushPc
      /\ lastVisible' = Max({lastVisible, op.seq})
      /\ log' = log \cup {op} /\ pc' = [pc EXCEPT ![w] = "idle"]
      /\ UNCHANGED <<diskVars, nextSequence, req, flushMem, flushTable, compVars, gcVars,
                     closeVars, boundVars, manifest, tails>>
  BY DEF ApplyWrite
<1>2. op \in Operation /\ op.seq \in 1..MaxSequence /\ op.seq \in Nat
  BY <1>1, OperationFields DEF TypeInv, TypeOK, RecsInv
<1> HIDE DEF op
<1>3. mutable \in MemTable /\ MemRecsOK(mutable.recs) /\ immutables \in Seq(MemTable)
  BY DEF TypeInv, TypeOK, RecsInv
<1>4. mem \in MemTable /\ MemRecsOK(mem.recs)
  BY <1>2, <1>3, AppliedEffect, AppliedOK
<1>5. EmptyMem \in MemTable /\ MemRecsOK(EmptyMem.recs)
  BY EmptyTypes, EmptyRecs
<1> HIDE DEF mem, full
<1>6. mutable' \in MemTable /\ MemRecsOK(mutable'.recs)
  BY <1>1, <1>4, <1>5
<1>7. /\ immutables' \in Seq(MemTable)
      /\ \A i \in DOMAIN immutables' : MemRecsOK(immutables'[i].recs)
      /\ immutables # <<>> => immutables' # <<>> /\ Head(immutables') = Head(immutables)
  <2>1. \A i \in DOMAIN immutables : MemRecsOK(immutables[i].recs)
    BY DEF TypeInv, RecsInv
  <2>2. CASE ~full
    BY <1>1, <1>3, <2>1, <2>2
  <2>3. CASE full
    <3>1. immutables' = Append(immutables, mem)
      BY <1>1, <2>3
    <3>2. \A i \in DOMAIN immutables' : immutables'[i] = mem \/ (i \in DOMAIN immutables /\ immutables'[i] = immutables[i])
      BY <1>3, <1>4, <3>1, AppendElements, SeqElements
    <3>3. immutables' \in Seq(MemTable)
      BY <1>3, <1>4, <3>1, AppendElements
    <3>4. immutables # <<>> => immutables' # <<>> /\ Head(immutables') = Head(immutables)
      BY <1>3, <1>4, <3>1, AppendHead
    <3> QED BY <1>4, <2>1, <3>2, <3>3, <3>4
  <2> QED BY <2>2, <2>3
<1>8. lastVisible' \in Nat
  BY <1>1, <1>2, PairBounds DEF TypeInv, TypeOK
<1>9. /\ pc' \in [Writers -> {"idle", "encode"}] /\ log' \subseteq Operation
      /\ IsFiniteSet(log') /\ \A o \in log' : o.seq \in 1..MaxSequence
      /\ \A v \in Writers : pc'[v] = "encode" => pc[v] = "encode"
  <2>1. IsFiniteSet(log') 
    BY <1>1, FS_AddElement DEF TypeInv, RecsInv
  <2> QED BY <1>1, <1>2, <2>1 DEF TypeInv, TypeOK, RecsInv
<1>10. /\ flushPc' \in {flushPc, "queued"} /\ flushPc' # flushPc => flushPc = "idle"
  BY <1>1
<1>11. TypeOK'
  BY <1>1, <1>6, <1>7, <1>8, <1>9, <1>10 DEF TypeInv, TypeOK
<1>12. PhaseInv'
  BY <1>1, <1>7, <1>9, <1>10 DEF TypeInv, PhaseInv, Saved
<1>13. RecsInv'
  <2>1. Live' = Live
    BY <1>1, <1>10 DEF Live, Pending, Flushed
  <2> QED BY <1>1, <1>6, <1>7, <1>9, <2>1 DEF TypeInv, RecsInv
<1> QED BY <1>11, <1>12, <1>13 DEF TypeInv

\* The flush copies the oldest immutable memtable.
LEMMA FlushPickTypes ==
    ASSUME TypeInv, FlushPick
    PROVE  TypeInv'
<1>1. /\ flushPc \in {"pick", "queued"}
      /\ \/ flushPc' = "idle" /\ flushMem' = EmptyMem
         \/ immutables # <<>> /\ flushPc' = "write" /\ flushMem' = Head(immutables)
      /\ UNCHANGED <<diskVars, memVars, writeVars, flushTable, compVars, gcVars, closeVars,
                     boundVars, manifest, tails>>
  BY DEF FlushPick
<1>2. flushMem' \in MemTable
  BY <1>1, EmptyTypes, TailElements DEF TypeInv, TypeOK
<1>3. TypeOK'
  BY <1>1, <1>2 DEF TypeInv, TypeOK
<1>4. PhaseInv'
  BY <1>1 DEF TypeInv, PhaseInv, Saved
<1>5. RecsInv'
  <2>1. Live' = Live
    BY <1>1 DEF Live, Pending, Flushed
  <2> QED BY <1>1, <2>1 DEF TypeInv, RecsInv
<1> QED BY <1>3, <1>4, <1>5 DEF TypeInv

\* A table made of well formed records is well formed.
LEMMA TableOfOK ==
    ASSUME manifest \in Manifest, NEW recs \in [Keys -> Record], RecsOK(recs),
           \A k \in Keys : recs[k].blob = 0, NEW level \in {0, 1}
    PROVE  TableOf(level, recs) \in Table /\ TableRecsOK(TableOf(level, recs).recs)
<1> DEFINE t == TableOf(level, recs)
<1>1. /\ t \in Table
      /\ \A k \in Keys :
                 /\ t.recs[k].seq = recs[k].seq /\ t.recs[k].del = recs[k].del
                 /\ t.recs[k].big = recs[k].big
                 /\ recs[k].big => t.recs[k].blob = manifest.nextTableId + 1
                 /\ ~recs[k].big => t.recs[k] = recs[k]
  BY TableOfFields
<1>2. manifest.nextTableId \in Nat /\ NoRecord.big = FALSE
  BY ManifestFields, EmptyTypes
<1> HIDE DEF t
<1>3. \A k \in Keys : recs[k] = NoRecord => ~recs[k].big
  BY <1>2
<1>4. TableRecsOK(t.recs)
  <2>1. ASSUME NEW k \in Keys
        PROVE /\ t.recs[k].seq <= MaxSequence
              /\ t.recs[k].seq = 0 => t.recs[k] = NoRecord
              /\ t.recs[k].big <=> t.recs[k].blob # 0
    <3>1. recs[k].seq <= MaxSequence /\ (recs[k].seq = 0 => recs[k] = NoRecord /\ ~recs[k].big)
      BY <1>3 DEF RecsOK, Bounded
    <3>2. CASE recs[k].big
      BY <1>1, <1>2, <3>1, <3>2
    <3>3. CASE ~recs[k].big
      BY <1>1, <1>2, <3>1, <3>3
    <3> QED BY <3>2, <3>3
  <2> QED BY <2>1 DEF TableRecsOK, RecsOK, Bounded
<1> QED BY <1>1, <1>4 DEF t

\* flushMemTable_ writes the table.
LEMMA FlushWriteTypes ==
    ASSUME TypeInv, FlushWrite
    PROVE  TypeInv'
<1>1. /\ flushPc = "write" /\ WriteTable(flushMem.recs)
      /\ flushTable' = TableOf(0, flushMem.recs) /\ flushPc' = "install"
      /\ UNCHANGED <<disk, memVars, writeVars, flushMem, compVars, gcVars, closeVars,
                     boundVars, tails>>
  BY DEF FlushWrite
<1>2. /\ manifest \in Manifest /\ BlobTypes /\ flushMem.recs \in [Keys -> Record]
      /\ MemRecsOK(flushMem.recs)
  <2>1. flushMem \in MemTable /\ manifest \in Manifest /\ BlobTypes /\ immutables \in Seq(MemTable)
    BY DEF TypeInv, TypeOK, BlobTypes
  <2>2. immutables # <<>> /\ flushMem = Head(immutables)
    BY <1>1 DEF TypeInv, PhaseInv
  <2>3. MemRecsOK(flushMem.recs)
    BY <2>1, <2>2, TailElements DEF TypeInv, RecsInv
  <2> QED BY <2>1, <2>3, MemFields
<1>3. flushTable' \in Table /\ TableRecsOK(flushTable'.recs)
  BY <1>1, <1>2, TableOfOK DEF MemRecsOK
<1>4. PICK n \in Nat : IdsTaken(n)
  BY <1>1, <1>2, WriteEffect
<1>5. /\ manifest' \in Manifest /\ manifest'.tables = manifest.tables
      /\ manifest'.manifestId = manifest.manifestId
      /\ manifest'.maxSequence = manifest.maxSequence /\ (Saved <=> Saved')
  BY <1>1, <1>2, <1>4, IdsTakenFields
<1>6. BlobTypes' /\ tableFiles' \subseteq Nat
  BY <1>1, <1>2, WriteEffect, ManifestFields DEF TypeInv, TypeOK
<1>7. TypeOK'
  BY <1>1, <1>3, <1>5, <1>6 DEF TypeInv, TypeOK, BlobTypes
<1>8. PhaseInv'
  BY <1>1, <1>5 DEF TypeInv, PhaseInv
<1>9. RecsInv'
  <2>1. Live' \subseteq Live \cup {flushTable'}
    BY <1>1, <1>5 DEF Live, Pending, Flushed
  <2> QED BY <1>1, <1>3, <2>1 DEF TypeInv, RecsInv
<1> QED BY <1>7, <1>8, <1>9 DEF TypeInv

\* A scheduling step queues tables of the manifest it looks at.
LEMMA ScheduleEffect ==
    ASSUME NEW tables \in SUBSET Table, NEW busy, ScheduleCompaction(busy, tables)
    PROVE  \/ compPc' = compPc /\ compTables' = compTables
           \/ compPc' = "queued" /\ compTables' = MergeSet(tables) /\ compTables' \subseteq tables
              /\ compTables' # {} /\ ~busy
  BY MergeSetEffect DEF ScheduleCompaction

\* The final critical section of a flush.
LEMMA FlushInstallTypes ==
    ASSUME TypeInv, FlushInstall
    PROVE  TypeInv'
<1> DEFINE m == WithTable(flushMem, flushTable)
<1>1. /\ flushPc = "install" /\ Persist(m)
      /\ ScheduleCompaction(compPc # "idle" \/ life = "closing", m.tables)
      /\ gcPc' \in {gcPc, "queued"} /\ (gcPc' # gcPc => gcPc = "idle")
      /\ flushPc' = "remove" /\ flushTable' = NoTable
      /\ UNCHANGED <<tableFiles, blobFiles, memVars, writeVars, flushMem, compDrop, compNew,
                     gc, closeVars, boundVars, tails>>
  BY DEF FlushInstall, ScheduleGc
<1>2. manifest \in Manifest /\ flushMem \in MemTable /\ flushTable \in Table
  BY DEF TypeInv, TypeOK
<1>3. m \in Manifest /\ m.tables = manifest.tables \cup {flushTable}
  BY <1>2, WithTableFields
<1>4. m.tables \in SUBSET Table
  BY <1>3, ManifestFields
<1> HIDE DEF m
<1>5. /\ disk' = m /\ disk' \in Manifest /\ manifest' \in Manifest /\ Saved'
      /\ manifest'.tables = m.tables
  BY <1>1, <1>3, PersistEffect, PersistedFields
<1>6. \/ compPc' = compPc /\ compTables' = compTables
      \/ compPc' = "queued" /\ compTables' \subseteq m.tables /\ compPc = "idle"
  BY <1>1, <1>4, ScheduleEffect
<1>7. NoTable \in Table
  BY EmptyTypes
<1>8. TypeOK'
  BY <1>1, <1>4, <1>5, <1>6, <1>7 DEF TypeInv, TypeOK
<1>9. life = "open"
  BY <1>1 DEF TypeInv, PhaseInv
<1>10. PhaseInv'
  BY <1>1, <1>3, <1>5, <1>6, <1>9 DEF TypeInv, PhaseInv
<1>11. RecsInv'
  <2>1. Live' \subseteq Live /\ disk'.tables \subseteq Live
    BY <1>1, <1>3, <1>5 DEF Live, Pending, Flushed
  <2> QED BY <1>1, <2>1 DEF TypeInv, RecsInv
<1> QED BY <1>8, <1>10, <1>11 DEF TypeInv

\* A flush that fails.
LEMMA FlushFailsTypes ==
    ASSUME TypeInv, FlushFails
    PROVE  TypeInv'
<1> DEFINE m == WithTable(flushMem, flushTable)
<1>1. /\ \/ /\ flushPc = "write" /\ WriteTableFails(flushMem.recs, {manifest.nextTableId})
            /\ UNCHANGED disk
         \/ /\ flushPc = "install" /\ PersistFails(m) /\ UNCHANGED <<tableFiles, blobFiles>>
      /\ flushPc' = "idle" /\ flushMem' = EmptyMem /\ flushTable' = NoTable
      /\ UNCHANGED <<memVars, writeVars, compVars, gcVars, closeVars, crashes, closes, tails>>
  BY DEF FlushFails
<1>2. /\ manifest \in Manifest /\ disk \in Manifest /\ flushMem \in MemTable
      /\ flushTable \in Table /\ BlobTypes /\ flushMem.recs \in [Keys -> Record]
      /\ faults \in Nat /\ tableFiles \subseteq Nat
  BY MemFields DEF TypeInv, TypeOK, BlobTypes
<1>3. m \in Manifest /\ m.tables = manifest.tables \cup {flushTable} /\ m.manifestId = manifest.manifestId
  BY <1>2, WithTableFields
<1> HIDE DEF m
<1>4. EmptyMem \in MemTable /\ NoTable \in Table
  BY EmptyTypes
<1>5. life = "open" /\ (disk.manifestId = manifest.manifestId \/ Saved)
  BY <1>1 DEF TypeInv, PhaseInv
<1>6. /\ manifest' \in Manifest /\ disk' \in Manifest /\ manifest'.tables = manifest.tables
      /\ (disk'.manifestId = manifest'.manifestId \/ Saved') /\ (Saved => Saved')
      /\ disk' = disk \/ (disk' = m /\ flushPc = "install")
      /\ BlobTypes' /\ tableFiles' \subseteq Nat /\ faults' = faults + 1
  <2>1. CASE flushPc = "write" /\ WriteTableFails(flushMem.recs, {manifest.nextTableId}) /\ UNCHANGED disk
    <3>1. /\ \E n \in Nat : IdsTaken(n)
          /\ BlobTypes' /\ tableFiles' \in {tableFiles, tableFiles \cup {manifest.nextTableId}}
          /\ faults' = faults + 1
      BY <1>2, <2>1, WriteFailsEffect
    <3>2. /\ manifest' \in Manifest /\ manifest'.tables = manifest.tables
          /\ manifest'.manifestId = manifest.manifestId /\ (Saved <=> Saved')
      BY <1>2, <2>1, <3>1, IdsTakenFields
    <3> QED BY <1>2, <1>5, <2>1, <3>1, <3>2, ManifestFields
  <2>2. CASE flushPc = "install" /\ PersistFails(m) /\ UNCHANGED <<tableFiles, blobFiles>>
    <3>1. NotPersisted(m)
      BY <2>2, PersistEffect
    <3> QED BY <1>2, <1>3, <1>5, <2>2, <3>1, NotPersistedFields DEF BlobTypes, NotPersisted
  <2> QED BY <1>1, <2>1, <2>2
<1>7. TypeOK'
  BY <1>1, <1>2, <1>4, <1>6 DEF TypeInv, TypeOK, BlobTypes
<1>8. PhaseInv'
  BY <1>1, <1>5, <1>6 DEF TypeInv, PhaseInv
<1>9. RecsInv'
  <2>1. Live' \subseteq Live /\ disk'.tables \subseteq disk.tables \cup Live
    BY <1>1, <1>3, <1>6 DEF Live, Pending, Flushed
  <2> QED BY <1>1, <2>1 DEF TypeInv, RecsInv
<1> QED BY <1>7, <1>8, <1>9 DEF TypeInv

\* The flushed memtable is dropped.
LEMMA FlushRemoveTypes ==
    ASSUME TypeInv, FlushRemove
    PROVE  TypeInv'
<1>1. /\ flushPc = "remove" /\ flushPc' = "pick"
      /\ immutables' = immutables \/ (immutables # <<>> /\ immutables' = Tail(immutables))
      /\ UNCHANGED <<diskVars, mutable, writeVars, flushMem, flushTable, compVars, gcVars,
                     closeVars, boundVars, manifest, tails>>
  BY DEF FlushRemove
<1>2. /\ immutables' \in Seq(MemTable)
      /\ \A i \in DOMAIN immutables' : \E j \in DOMAIN immutables : immutables'[i] = immutables[j]
  <2>1. immutables \in Seq(MemTable)
    BY DEF TypeInv, TypeOK
  <2>2. CASE immutables' = immutables
    BY <2>1, <2>2
  <2>3. CASE immutables # <<>> /\ immutables' = Tail(immutables)
    BY <2>1, <2>3, TailElements
  <2> QED BY <1>1, <2>2, <2>3
<1>3. TypeOK'
  BY <1>1, <1>2 DEF TypeInv, TypeOK
<1>4. PhaseInv'
  BY <1>1 DEF TypeInv, PhaseInv, Saved
<1>5. RecsInv'
  <2>1. Live' = Live
    BY <1>1 DEF Live, Pending, Flushed
  <2>2. \A i \in DOMAIN immutables' : MemRecsOK(immutables'[i].recs)
    BY <1>2 DEF TypeInv, RecsInv
  <2> QED BY <1>1, <2>1, <2>2 DEF TypeInv, RecsInv
<1> QED BY <1>3, <1>4, <1>5 DEF TypeInv

\* A compaction starts on the tables that are still in the manifest.
LEMMA CompStartTypes ==
    ASSUME TypeInv, CompStart
    PROVE  TypeInv'
<1>1. /\ life # "closing"
  BY DEF TypeInv, PhaseInv
<1>2. /\ compPc = "queued" /\ compPc' = "merge" /\ compTables' = compTables \cap manifest.tables
      /\ compDrop' = DropsTombstones(compTables) /\ compNew' = compNew
      /\ UNCHANGED <<diskVars, memVars, writeVars, flushVars, gcVars, closeVars, boundVars,
                     manifest, tails>>
  BY <1>1 DEF CompStart
<1>3. compDrop' \in BOOLEAN
  BY <1>2 DEF DropsTombstones
<1>4. TypeOK'
  BY <1>2, <1>3 DEF TypeInv, TypeOK
<1>5. PhaseInv'
  BY <1>2 DEF TypeInv, PhaseInv, Saved
<1>6. RecsInv'
  <2>1. Live' = Live
    BY <1>2 DEF Live, Pending, Flushed
  <2> QED BY <1>2, <2>1 DEF TypeInv, RecsInv
<1> QED BY <1>4, <1>5, <1>6 DEF TypeInv

\* The tables of a pass are well formed.
LEMMA CompTablesOK ==
    ASSUME TypeInv
    PROVE  /\ compTables \in SUBSET Table /\ \A t \in compTables : TableRecsOK(t.recs)
           /\ CompactedRecs \in [Keys -> Record] /\ TableRecsOK(CompactedRecs)
<1>1. compTables \in SUBSET Table /\ \A t \in compTables : TableRecsOK(t.recs)
  BY DEF TypeInv, TypeOK, PhaseInv, RecsInv, Live
<1> QED BY <1>1, CompactedOK

\* A compaction writes its table.
LEMMA CompMergeTypes ==
    ASSUME TypeInv, CompMerge
    PROVE  TypeInv'
<1>1. life # "closing"
  BY DEF TypeInv, PhaseInv
<1> DEFINE t == [level |-> 1, fileId |-> manifest.nextTableId, recs |-> CompactedRecs]
<1>2. /\ compPc = "merge" /\ compPc' = "install"
      /\ \/ compNew' = {} /\ UNCHANGED <<tableFiles, manifest>>
         \/ /\ compNew' = {t} /\ tableFiles' = tableFiles \cup {manifest.nextTableId}
            /\ manifest' = [manifest EXCEPT !.nextTableId = @ + 1]
      /\ UNCHANGED <<compTables, compDrop>>
      /\ UNCHANGED <<disk, blobFiles, memVars, writeVars, flushVars, gcVars, closeVars,
                     boundVars, tails>>
  BY <1>1 DEF CompMerge, MergedLevel
<1>3. manifest \in Manifest /\ manifest.nextTableId \in Nat /\ tableFiles \subseteq Nat
  BY ManifestFields DEF TypeInv, TypeOK
<1>4. t \in Table /\ TableRecsOK(t.recs)
  BY <1>3, CompTablesOK, TableFields
<1> HIDE DEF t
<1>5. compNew' \subseteq {t} /\ tableFiles' \subseteq Nat
  BY <1>2, <1>3
<1>6. /\ manifest' \in Manifest /\ manifest'.tables = manifest.tables
      /\ manifest'.manifestId = manifest.manifestId
      /\ manifest'.maxSequence = manifest.maxSequence /\ (Saved <=> Saved')
  <2>1. CASE manifest' = manifest
    BY <1>2, <1>3, <2>1 DEF Saved
  <2>2. CASE manifest' = [manifest EXCEPT !.nextTableId = @ + 1]
    <3>1. manifest.nextTableId + 1 \in Nat /\ manifest.nextTableId < manifest.nextTableId + 1
      BY <1>3
    <3>2. IdsTaken(manifest.nextTableId + 1)
      BY <2>2, <3>1 DEF IdsTaken
    <3> QED BY <1>2, <1>3, <3>1, <3>2, IdsTakenFields
  <2> QED BY <1>2, <2>1, <2>2
<1>7. TypeOK'
  BY <1>2, <1>4, <1>5, <1>6 DEF TypeInv, TypeOK
<1>8. PhaseInv'
  BY <1>2, <1>6 DEF TypeInv, PhaseInv
<1>9. RecsInv'
  <2>1. Live' \subseteq Live \cup {t}
    BY <1>2, <1>5, <1>6 DEF Live, Pending, Flushed
  <2> QED BY <1>2, <1>4, <2>1 DEF TypeInv, RecsInv
<1> QED BY <1>7, <1>8, <1>9 DEF TypeInv

\* A compaction installs its table.
LEMMA CompInstallTypes ==
    ASSUME TypeInv, CompInstall
    PROVE  TypeInv'
<1>1. life # "closing"
  BY DEF TypeInv, PhaseInv
<1>2. /\ compPc = "install" /\ Persist(Compacted)
      /\ compTables' = MergeSet(Compacted.tables)
      /\ compPc' \in {"idle", "queued"} /\ (compPc' = "idle" => compTables' = {})
      /\ compDrop' = FALSE /\ compNew' = {}
      /\ gcPc' \in {gcPc, "queued"} /\ (gcPc' # gcPc => gcPc = "idle")
      /\ tails' = tails \cup {[tables |-> FileIds(compTables), blobs |-> {}]}
      /\ UNCHANGED <<tableFiles, blobFiles, memVars, writeVars, flushVars, gc, closeVars,
                     boundVars>>
  BY <1>1 DEF CompInstall, ScheduleGc
<1>3. /\ Compacted \in Manifest
      /\ Compacted.tables = (manifest.tables \ compTables) \cup compNew
  BY ReplacedFields DEF TypeInv, TypeOK
<1>4. Compacted.tables \in SUBSET Table
  BY <1>3, ManifestFields
<1>5. /\ disk' = Compacted /\ disk' \in Manifest /\ manifest' \in Manifest /\ Saved'
      /\ manifest'.tables = Compacted.tables
  BY <1>2, <1>3, PersistEffect, PersistedFields
<1>6. compTables' \subseteq Compacted.tables
  BY <1>2, <1>4, MergeSetEffect
<1>7. FileIds(compTables) \in SUBSET Nat
  BY CompTablesOK, TableFields DEF FileIds, TypeInv
<1>8. tails' \subseteq [tables : SUBSET Nat, blobs : SUBSET Nat]
  <2>1. [tables |-> FileIds(compTables), blobs |-> {}] \in [tables : SUBSET Nat, blobs : SUBSET Nat]
    BY <1>7
  <2> QED BY <1>2, <2>1 DEF TypeInv, TypeOK
<1>9. TypeOK'
  BY <1>2, <1>4, <1>5, <1>6, <1>8 DEF TypeInv, TypeOK
<1>10. life = "open"
  BY <1>2 DEF TypeInv, PhaseInv
<1>11. PhaseInv'
  BY <1>2, <1>5, <1>6, <1>10 DEF TypeInv, PhaseInv
<1>12. RecsInv'
  <2>1. Live' \subseteq Live /\ disk'.tables \subseteq Live
    BY <1>2, <1>3, <1>5 DEF Live, Pending, Flushed
  <2> QED BY <1>2, <2>1 DEF TypeInv, RecsInv
<1> QED BY <1>9, <1>11, <1>12 DEF TypeInv

\* A pass that fails.
LEMMA CompFailsTypes ==
    ASSUME TypeInv, CompFails
    PROVE  TypeInv'
<1>1. /\ \/ /\ compPc = "merge" /\ faults' = faults + 1 /\ UNCHANGED disk
            /\ \/ UNCHANGED <<manifest, tableFiles>>
               \/ /\ manifest' = [manifest EXCEPT !.nextTableId = @ + 1]
                  /\ tableFiles' \in {tableFiles, tableFiles \cup {manifest.nextTableId}}
         \/ compPc = "install" /\ PersistFails(Compacted) /\ UNCHANGED tableFiles
      /\ compPc' = "idle" /\ compTables' = {} /\ compDrop' = FALSE /\ compNew' = {}
      /\ UNCHANGED <<blobFiles, memVars, writeVars, flushVars, gcVars, closeVars, crashes,
                     closes, tails>>
  BY DEF CompFails, CompEnds
<1>2. /\ manifest \in Manifest /\ disk \in Manifest /\ faults \in Nat /\ tableFiles \subseteq Nat
      /\ manifest.nextTableId \in Nat
  BY ManifestFields DEF TypeInv, TypeOK
<1>3. /\ Compacted \in Manifest /\ Compacted.manifestId = manifest.manifestId
      /\ Compacted.tables = (manifest.tables \ compTables) \cup compNew
  BY ReplacedFields DEF TypeInv, TypeOK
<1>4. life = "open" /\ (disk.manifestId = manifest.manifestId \/ Saved)
  BY <1>1 DEF TypeInv, PhaseInv
<1>5. /\ manifest' \in Manifest /\ disk' \in Manifest /\ manifest'.tables = manifest.tables
      /\ (disk'.manifestId = manifest'.manifestId \/ Saved') /\ (Saved => Saved')
      /\ disk' = disk \/ disk' = Compacted
      /\ tableFiles' \subseteq Nat /\ faults' = faults + 1
  <2>1. CASE UNCHANGED disk /\ manifest' = [manifest EXCEPT !.nextTableId = @ + 1]
             /\ tableFiles' \in {tableFiles, tableFiles \cup {manifest.nextTableId}}
             /\ faults' = faults + 1
    <3>1. manifest.nextTableId + 1 \in Nat /\ manifest.nextTableId < manifest.nextTableId + 1
      BY <1>2
    <3>2. IdsTaken(manifest.nextTableId + 1)
      BY <2>1, <3>1 DEF IdsTaken
    <3>3. /\ manifest' \in Manifest /\ manifest'.tables = manifest.tables
          /\ manifest'.manifestId = manifest.manifestId /\ (Saved <=> Saved')
      BY <1>2, <2>1, <3>1, <3>2, IdsTakenFields
    <3> QED BY <1>2, <1>4, <2>1, <3>3
  <2>2. CASE UNCHANGED <<disk, manifest, tableFiles>> /\ faults' = faults + 1
    BY <1>2, <1>4, <2>2 DEF Saved
  <2>3. CASE compPc = "install" /\ PersistFails(Compacted) /\ UNCHANGED tableFiles
    <3>1. NotPersisted(Compacted)
      BY <2>3, PersistEffect
    <3> QED BY <1>2, <1>3, <1>4, <2>3, <3>1, NotPersistedFields DEF NotPersisted
  <2> QED BY <1>1, <2>1, <2>2, <2>3
<1>6. TypeOK'
  <2>1. /\ compPc' = "idle" /\ compTables' = {} /\ compDrop' = FALSE /\ compNew' = {}
        /\ UNCHANGED <<blobFiles, memVars, writeVars, flushVars, gcVars, closeVars, crashes,
                       closes, tails>>
    BY <1>1
  <2>2. /\ disk' \in Manifest /\ manifest' \in Manifest /\ tableFiles' \subseteq Nat
        /\ faults' \in Nat
    BY <1>2, <1>5
  <2> QED BY <2>1, <2>2 DEF TypeInv, TypeOK
<1>7. PhaseInv'
  BY <1>1, <1>4, <1>5 DEF TypeInv, PhaseInv
<1>8. RecsInv'
  <2>1. Live' \subseteq Live /\ disk'.tables \subseteq disk.tables \cup Live
    BY <1>1, <1>3, <1>5 DEF Live, Pending, Flushed
  <2> QED BY <1>1, <2>1 DEF TypeInv, RecsInv
<1> QED BY <1>6, <1>7, <1>8 DEF TypeInv

\* A job deletes its files.
LEMMA DeleteFilesTypes ==
    ASSUME TypeInv, NEW job \in tails, DeleteFiles(job)
    PROVE  TypeInv'
<1>1. /\ tails' = tails \ {job} /\ tableFiles' \subseteq tableFiles /\ blobFiles' \subseteq blobFiles
      /\ UNCHANGED <<disk, memVars, writeVars, flushVars, compVars, gcVars, closeVars,
                     boundVars, manifest>>
  BY DEF DeleteFiles
<1>2. TypeOK'
  BY <1>1 DEF TypeInv, TypeOK
<1>3. PhaseInv'
  BY <1>1 DEF TypeInv, PhaseInv, Saved
<1>4. RecsInv'
  <2>1. Live' = Live
    BY <1>1 DEF Live, Pending, Flushed
  <2> QED BY <1>1, <2>1 DEF TypeInv, RecsInv
<1> QED BY <1>2, <1>3, <1>4 DEF TypeInv

\* What a collection that starts takes.
LEMMA GcStartEffect ==
    ASSUME GcStart
    PROVE  /\ gcPc = "queued"
           /\ \/ gcPc' = "idle" /\ gc' = NoGc
              \/ /\ gcPc' = "list" /\ GcMayRun(compPc # "idle")
                 /\ gc' = [NoGc EXCEPT !.tables = manifest.tables, !.recs = LiveRecs(manifest.tables),
                                       !.seq = lastVisible, !.manifestId = manifest.manifestId]
           /\ UNCHANGED <<diskVars, memVars, writeVars, flushVars, compVars, closeVars,
                          boundVars, manifest, tails>>
<1>1. LiveRecs(manifest.tables) =
         LET newest == NewestRecs({t.recs : t \in manifest.tables})
         IN  [k \in Keys |-> IF newest[k].del THEN NoRecord ELSE newest[k]]
  BY DEF LiveRecs
<1> QED BY <1>1 DEF GcStart, GcEnds

\* A collection starts.
LEMMA GcStartTypes ==
    ASSUME TypeInv, GcStart
    PROVE  TypeInv'
<1> DEFINE live == LiveRecs(manifest.tables)
           start == [NoGc EXCEPT !.tables = manifest.tables, !.recs = live,
                                 !.seq = lastVisible, !.manifestId = manifest.manifestId]
<1>1. /\ gcPc = "queued"
      /\ \/ gcPc' = "idle" /\ gc' = NoGc
         \/ gcPc' = "list" /\ gc' = start
      /\ UNCHANGED <<diskVars, memVars, writeVars, flushVars, compVars, closeVars,
                     boundVars, manifest, tails>>
  BY GcStartEffect
<1>2. /\ manifest.tables \in SUBSET Table /\ manifest.manifestId \in Nat /\ lastVisible \in Nat
      /\ \A t \in manifest.tables : TableRecsOK(t.recs)
  BY ManifestFields DEF TypeInv, TypeOK, RecsInv, Live
<1>3. live \in [Keys -> Record] /\ RecsOK(live)
  BY <1>2, LiveOK DEF TableRecsOK
<1> HIDE DEF live
<1>4. start \in Collection /\ start.recs = live /\ start.new = {}
  <2>1. \A g \in Collection :
           LET x == [g EXCEPT !.tables = manifest.tables, !.recs = live,
                              !.seq = lastVisible, !.manifestId = manifest.manifestId]
           IN  x \in Collection /\ x.recs = live /\ x.new = g.new
    BY <1>2, <1>3 DEF Collection
  <2> QED BY <2>1, CollectionFields
<1>5. NoGc \in Collection /\ NoGc.recs = NoRecords /\ NoGc.new = {}
  BY CollectionFields
<1> HIDE DEF start
<1>6. gc' \in Collection /\ RecsOK(gc'.recs) /\ gc'.new = {}
  BY <1>1, <1>3, <1>4, <1>5, EmptyRecs DEF MemRecsOK
<1>7. TypeOK'
  BY <1>1, <1>6 DEF TypeInv, TypeOK, Collection
<1>8. PhaseInv'
  BY <1>1, <1>6 DEF TypeInv, PhaseInv, Saved
<1>9. RecsInv'
  <2>1. Live' \subseteq Live
    BY <1>1, <1>6 DEF Live, Pending, Flushed
  <2> QED BY <1>1, <1>6, <2>1 DEF TypeInv, RecsInv
<1> QED BY <1>7, <1>8, <1>9 DEF TypeInv

\* The records to rewrite, their values in memory.
LEMMA InlinedOK ==
    ASSUME NEW recs \in [Keys -> Record], RecsOK(recs), NEW new,
           new = [k \in Keys |-> [recs[k] EXCEPT !.blob = 0]]
    PROVE  /\ new \in [Keys -> Record] /\ RecsOK(new)
           /\ \A k \in Keys : /\ new[k].blob = 0 /\ new[k].seq = recs[k].seq
                              /\ new[k].del = recs[k].del /\ new[k].big = recs[k].big
<1>1. \A k \in Keys : /\ new[k] \in Record /\ new[k].blob = 0 /\ new[k].seq = recs[k].seq
                      /\ new[k].del = recs[k].del /\ new[k].big = recs[k].big
  <2> TAKE k \in Keys
  <2>1. recs[k] \in Record /\ 0 \in Nat
    OBVIOUS
  <2>2. new[k] = [recs[k] EXCEPT !.blob = 0]
    OBVIOUS
  <2> QED BY <2>1, <2>2, RecordFields
<1>2. new \in [Keys -> Record]
  BY <1>1
<1>3. ASSUME NEW k \in Keys, recs[k] = NoRecord PROVE new[k] = NoRecord
  <2>1. new[k] = [NoRecord EXCEPT !.blob = 0]
    BY <1>3
  <2>2. [NoRecord EXCEPT !.blob = 0] = NoRecord
    BY DEF NoRecord
  <2> QED BY <2>1, <2>2
<1>4. RecsOK(new)
  <2>1. \A k \in Keys : recs[k].seq <= MaxSequence /\ (recs[k].seq = 0 => recs[k] = NoRecord)
    BY DEF RecsOK, Bounded
  <2> HIDE DEF RecsOK
  <2>2. \A k \in Keys : new[k].seq <= MaxSequence /\ (new[k].seq = 0 => new[k] = NoRecord)
    BY <1>1, <1>3, <2>1
  <2> QED BY <1>1, <2>2 DEF RecsOK, Bounded
<1> QED BY <1>1, <1>2, <1>4

\* A collection lists the blob files.
LEMMA GcListTypes ==
    ASSUME TypeInv, GcList
    PROVE  TypeInv'
<1> DEFINE ids == {b.id : b \in blobFiles}
           inlined == [k \in Keys |-> [gc.recs[k] EXCEPT !.blob = 0]]
           next == [gc EXCEPT !.listed = ids, !.recs = inlined]
<1>1. /\ gcPc = "list"
      /\ \/ gcPc' = "idle" /\ gc' = NoGc
         \/ gcPc' = "write" /\ gc' = next
      /\ UNCHANGED <<diskVars, memVars, writeVars, flushVars, compVars, closeVars,
                     boundVars, manifest, tails>>
  BY DEF GcList, GcEnds
<1>2. gc \in Collection /\ gc.recs \in [Keys -> Record] /\ RecsOK(gc.recs) /\ ids \in SUBSET Nat
  BY DEF TypeInv, TypeOK, RecsInv, Collection
<1>3. inlined \in [Keys -> Record] /\ RecsOK(inlined) /\ \A k \in Keys : inlined[k].blob = 0
  BY <1>2, InlinedOK
<1> HIDE DEF ids, inlined
<1>4. next \in Collection /\ next.recs = inlined /\ next.new = gc.new
  BY <1>2, <1>3 DEF Collection
<1>5. NoGc \in Collection /\ NoGc.recs = NoRecords /\ NoGc.new = {}
  BY CollectionFields
<1> HIDE DEF next
<1>6. gc.new = {}
  BY <1>1 DEF TypeInv, PhaseInv
<1>7. /\ gc' \in Collection /\ RecsOK(gc'.recs) /\ gc'.new = {}
      /\ gcPc' = "write" => \A k \in Keys : gc'.recs[k].blob = 0
  BY <1>1, <1>3, <1>4, <1>5, <1>6, EmptyRecs DEF MemRecsOK
<1>8. TypeOK'
  BY <1>1, <1>7 DEF TypeInv, TypeOK, Collection
<1>9. PhaseInv'
  BY <1>1, <1>7 DEF TypeInv, PhaseInv, Saved
<1>10. RecsInv'
  <2>1. Live' \subseteq Live
    BY <1>1, <1>7 DEF Live, Pending, Flushed
  <2> QED BY <1>1, <1>7, <2>1 DEF TypeInv, RecsInv
<1> QED BY <1>8, <1>9, <1>10 DEF TypeInv

\* What the collection rewrites.
LEMMA GcRecsFields ==
    ASSUME TypeInv
    PROVE  /\ gc \in Collection /\ gc.recs \in [Keys -> Record] /\ RecsOK(gc.recs)
           /\ gc.new \in SUBSET Table /\ gc.tables \in SUBSET Table
           /\ manifest \in Manifest /\ disk \in Manifest /\ BlobTypes /\ tableFiles \subseteq Nat
           /\ manifest.nextTableId \in Nat
           /\ gcPc = "write" => /\ TableOf(1, gc.recs) \in Table
                                /\ TableRecsOK(TableOf(1, gc.recs).recs)
<1>1. /\ gc \in Collection /\ gc.recs \in [Keys -> Record] /\ RecsOK(gc.recs)
      /\ gc.new \in SUBSET Table /\ gc.tables \in SUBSET Table
      /\ manifest \in Manifest /\ disk \in Manifest /\ BlobTypes /\ tableFiles \subseteq Nat
  BY DEF TypeInv, TypeOK, RecsInv, Collection, BlobTypes
<1>2. manifest.nextTableId \in Nat
  BY <1>1, ManifestFields
<1>3. gcPc = "write" => \A k \in Keys : gc.recs[k].blob = 0
  BY DEF TypeInv, RecsInv
<1>4. gcPc = "write" => /\ TableOf(1, gc.recs) \in Table
                        /\ TableRecsOK(TableOf(1, gc.recs).recs)
  BY <1>1, <1>3, TableOfOK
<1> QED BY <1>1, <1>2, <1>4

\* A collection writes its table.
LEMMA GcWriteTypes ==
    ASSUME TypeInv, GcWrite
    PROVE  TypeInv'
<1> DEFINE t == TableOf(1, gc.recs)
           next == [gc EXCEPT !.new = {t}]
<1>1. /\ gcPc = "write" /\ gcPc' = "commit"
      /\ \/ UNCHANGED <<tableFiles, blobFiles, manifest, gc>>
         \/ WriteTable(gc.recs) /\ gc' = next
      /\ UNCHANGED <<disk, memVars, writeVars, flushVars, compVars, closeVars, boundVars, tails>>
  BY DEF GcWrite
<1>2. /\ gc \in Collection /\ gc.recs \in [Keys -> Record] /\ RecsOK(gc.recs)
      /\ manifest \in Manifest /\ BlobTypes /\ tableFiles \subseteq Nat
      /\ manifest.nextTableId \in Nat /\ t \in Table /\ TableRecsOK(t.recs)
  BY <1>1, GcRecsFields
<1> HIDE DEF t
<1>3. next \in Collection /\ next.recs = gc.recs /\ next.new = {t}
  BY <1>2 DEF Collection
<1>4. gc.new = {} /\ \A k \in Keys : gc.recs[k].blob = 0
  BY <1>1 DEF TypeInv, PhaseInv, RecsInv
<1> HIDE DEF next
<1>5. /\ manifest' \in Manifest /\ manifest'.tables = manifest.tables
      /\ manifest'.manifestId = manifest.manifestId /\ (Saved <=> Saved')
      /\ BlobTypes' /\ tableFiles' \subseteq Nat
      /\ gc' \in Collection /\ gc'.recs = gc.recs /\ gc'.new \subseteq {t}
  <2>1. CASE UNCHANGED <<tableFiles, blobFiles, manifest, gc>>
    BY <1>1, <1>2, <1>4, <2>1 DEF Saved, BlobTypes
  <2>2. CASE WriteTable(gc.recs) /\ gc' = next
    <3>1. /\ \E n \in Nat : IdsTaken(n)
          /\ BlobTypes' /\ tableFiles' = tableFiles \cup {manifest.nextTableId}
      BY <1>2, <2>2, WriteEffect
    <3>2. /\ manifest' \in Manifest /\ manifest'.tables = manifest.tables
          /\ manifest'.manifestId = manifest.manifestId /\ (Saved <=> Saved')
      BY <1>1, <1>2, <3>1, IdsTakenFields
    <3> QED BY <1>2, <1>3, <2>2, <3>1, <3>2
  <2> QED BY <1>1, <2>1, <2>2
<1>6. TypeOK'
  BY <1>1, <1>5 DEF TypeInv, TypeOK, BlobTypes, Collection
<1>7. PhaseInv'
  BY <1>1, <1>5 DEF TypeInv, PhaseInv
<1>8. RecsInv'
  <2>1. Live' \subseteq Live \cup {t}
    BY <1>1, <1>5 DEF Live, Pending, Flushed
  <2> QED BY <1>1, <1>2, <1>4, <1>5, <2>1 DEF TypeInv, RecsInv
<1> QED BY <1>6, <1>7, <1>8 DEF TypeInv

\* The job that deletes the files of a collection.
LEMMA GcJobTypes ==
    ASSUME TypeInv
    PROVE  /\ Uncommitted \in [tables : SUBSET Nat, blobs : SUBSET Nat]
           /\ [tables |-> FileIds(gc.tables), blobs |-> gc.listed \ GcBlobs]
                 \in [tables : SUBSET Nat, blobs : SUBSET Nat]
<1>1. gc.tables \in SUBSET Table /\ gc.new \in SUBSET Table /\ gc.listed \in SUBSET Nat
  BY DEF TypeInv, TypeOK
<1>2. FileIds(gc.tables) \in SUBSET Nat /\ FileIds(gc.new) \in SUBSET Nat
  BY <1>1, TableFields DEF FileIds
<1>3. GcBlobs \in SUBSET Nat
  BY <1>1, TableFields DEF GcBlobs
<1> QED BY <1>1, <1>2, <1>3 DEF Uncommitted

\* A collection commits, or leaves its files to be deleted.
LEMMA GcCommitTypes ==
    ASSUME TypeInv, GcCommit
    PROVE  TypeInv'
<1> DEFINE done == [tables |-> FileIds(gc.tables), blobs |-> gc.listed \ GcBlobs]
<1>1. /\ gcPc = "commit"
      /\ \/ GcStable /\ Persist(Collected) /\ tails' = tails \cup {done}
         \/ /\ tails' = tails \/ tails' = tails \cup {Uncommitted}
            /\ UNCHANGED <<disk, manifest>>
      /\ gcPc' = "idle" /\ gc' = NoGc
      /\ UNCHANGED <<tableFiles, blobFiles, memVars, writeVars, flushVars, compVars, closeVars,
                     boundVars>>
  BY DEF GcCommit, GcEnds
<1>2. /\ done \in [tables : SUBSET Nat, blobs : SUBSET Nat]
      /\ Uncommitted \in [tables : SUBSET Nat, blobs : SUBSET Nat]
  BY GcJobTypes
<1> HIDE DEF done
<1>3. /\ Collected \in Manifest /\ Collected.tables = (manifest.tables \ gc.tables) \cup gc.new
      /\ manifest \in Manifest /\ disk \in Manifest
  BY GcRecsFields, ReplacedFields
<1>4. /\ manifest' \in Manifest /\ disk' \in Manifest /\ Saved'
      /\ \/ manifest'.tables = manifest.tables /\ UNCHANGED disk
         \/ GcStable /\ manifest'.tables = Collected.tables /\ disk' = Collected
  <2>1. Saved
    BY <1>1 DEF TypeInv, PhaseInv
  <2>2. CASE UNCHANGED <<disk, manifest>>
    BY <1>3, <2>1, <2>2 DEF Saved
  <2>3. CASE GcStable /\ Persist(Collected)
    BY <1>3, <2>3, PersistEffect, PersistedFields
  <2> QED BY <1>1, <2>2, <2>3
<1>5. tails' \subseteq [tables : SUBSET Nat, blobs : SUBSET Nat]
  BY <1>1, <1>2 DEF TypeInv, TypeOK
<1>6. NoGc \in Collection /\ NoGc.recs = NoRecords /\ NoGc.new = {} /\ RecsOK(NoRecords)
  BY CollectionFields, EmptyRecs DEF MemRecsOK
<1>7. TypeOK'
  BY <1>1, <1>4, <1>5, <1>6 DEF TypeInv, TypeOK, Collection
<1>8. life = "open" /\ compPc \in {"idle", "queued", "merge", "install"}
  BY <1>1 DEF TypeInv, PhaseInv, TypeOK
<1>9. compTables \subseteq manifest'.tables
  <2>1. GcStable => compPc = "idle"
    BY DEF GcStable, GcMayRun
  <2> QED BY <1>4, <2>1 DEF TypeInv, PhaseInv
<1>10. PhaseInv'
  BY <1>1, <1>4, <1>6, <1>8, <1>9 DEF TypeInv, PhaseInv
<1>11. RecsInv'
  <2>1. Live' \subseteq Live /\ disk'.tables \subseteq disk.tables \cup Live
    BY <1>1, <1>3, <1>4, <1>6 DEF Live, Pending, Flushed
  <2> QED BY <1>1, <1>6, <2>1 DEF TypeInv, RecsInv
<1> QED BY <1>7, <1>10, <1>11 DEF TypeInv

\* A collection that fails.
LEMMA GcFailsTypes ==
    ASSUME TypeInv, GcFails
    PROVE  TypeInv'
<1>1. /\ gcPc \in {"write", "commit"}
      /\ \/ /\ gcPc = "write" /\ WriteTableFails(gc.recs, {}) /\ UNCHANGED <<disk, tails>>
         \/ /\ gcPc = "commit" /\ PersistFails(Collected) /\ UNCHANGED <<tableFiles, blobFiles>>
            /\ tails' = tails \/ tails' = tails \cup {Uncommitted}
      /\ gcPc' = "idle" /\ gc' = NoGc
      /\ UNCHANGED <<memVars, writeVars, flushVars, compVars, closeVars, crashes, closes>>
  BY DEF GcFails, GcEnds
<1>2. /\ Uncommitted \in [tables : SUBSET Nat, blobs : SUBSET Nat] /\ faults \in Nat
      /\ gc.recs \in [Keys -> Record] /\ manifest \in Manifest /\ disk \in Manifest
      /\ BlobTypes /\ tableFiles \subseteq Nat
  BY GcJobTypes, GcRecsFields DEF TypeInv, TypeOK
<1>3. Collected \in Manifest /\ Collected.manifestId = manifest.manifestId
  BY GcRecsFields, ReplacedFields
<1>4. Saved /\ life = "open"
  BY <1>1 DEF TypeInv, PhaseInv
<1>5. /\ manifest' \in Manifest /\ manifest'.tables = manifest.tables /\ Saved'
      /\ disk' = disk /\ BlobTypes' /\ tableFiles' \subseteq Nat /\ faults' = faults + 1
      /\ tails' = tails \/ tails' = tails \cup {Uncommitted}
  <2>1. CASE gcPc = "write" /\ WriteTableFails(gc.recs, {}) /\ UNCHANGED <<disk, tails>>
    <3>1. /\ \E n \in Nat : IdsTaken(n)
          /\ BlobTypes' /\ tableFiles' \in {tableFiles, tableFiles \cup {}}
          /\ faults' = faults + 1
      BY <1>2, <2>1, WriteFailsEffect
    <3>2. /\ manifest' \in Manifest /\ manifest'.tables = manifest.tables
          /\ manifest'.manifestId = manifest.manifestId /\ (Saved <=> Saved')
      BY <1>2, <2>1, <3>1, IdsTakenFields
    <3> QED BY <1>2, <1>4, <2>1, <3>1, <3>2
  <2>2. CASE /\ PersistFails(Collected) /\ UNCHANGED <<tableFiles, blobFiles>>
             /\ tails' = tails \/ tails' = tails \cup {Uncommitted}
    <3>1. NotPersisted(Collected)
      BY <2>2, PersistEffect
    <3>2. disk' = disk /\ Saved' /\ manifest' = manifest
      BY <1>2, <1>3, <1>4, <3>1, NotPersistedFields
    <3> QED BY <1>2, <2>2, <3>1, <3>2 DEF BlobTypes, NotPersisted
  <2> QED BY <1>1, <2>1, <2>2
<1>6. NoGc \in Collection /\ NoGc.recs = NoRecords /\ NoGc.new = {} /\ RecsOK(NoRecords)
  BY CollectionFields, EmptyRecs DEF MemRecsOK
<1>7. TypeOK'
  <2>1. faults' \in Nat /\ disk' \in Manifest
        /\ tails' \subseteq [tables : SUBSET Nat, blobs : SUBSET Nat]
    BY <1>2, <1>5 DEF TypeInv, TypeOK
  <2>2. /\ gcPc' = "idle" /\ gc' = NoGc
        /\ UNCHANGED <<memVars, writeVars, flushVars, compVars, closeVars, crashes, closes>>
    BY <1>1
  <2> QED BY <1>5, <1>6, <2>1, <2>2 DEF TypeInv, TypeOK, Collection, BlobTypes
<1>8. PhaseInv'
  BY <1>1, <1>4, <1>5, <1>6 DEF TypeInv, PhaseInv
<1>9. RecsInv'
  <2>1. Live' \subseteq Live
    BY <1>1, <1>5, <1>6 DEF Live, Pending, Flushed
  <2> QED BY <1>1, <1>5, <1>6, <2>1 DEF TypeInv, RecsInv
<1> QED BY <1>7, <1>8, <1>9 DEF TypeInv

\* The process dies.
LEMMA CrashTypes ==
    ASSUME TypeInv, Crash
    PROVE  TypeInv'
<1>1. /\ life' = "closed" /\ manifest' = NewManifest /\ mutable' = EmptyMem /\ immutables' = <<>>
      /\ nextSequence' = 1 /\ lastVisible' = 0
      /\ flushPc' = "idle" /\ flushMem' = EmptyMem /\ flushTable' = NoTable
      /\ compPc' = "idle" /\ compTables' = {} /\ compDrop' = FALSE /\ compNew' = {}
      /\ gcPc' = "idle" /\ gc' = NoGc /\ tails' = {}
      /\ closePc' = "idle" /\ closeMem' = EmptyMem /\ closeTable' = NoTable
      /\ crashes' = crashes + 1 /\ pc' = [w \in Writers |-> "idle"]
      /\ UNCHANGED <<diskVars, log, req, faults, closes>>
  BY DEF Crash, ForgetState, CompEnds, GcEnds
<1>2. /\ EmptyMem \in MemTable /\ NoTable \in Table /\ NewManifest \in Manifest
      /\ NewManifest.tables = {} /\ EmptyMem.recs = NoRecords
  BY EmptyTypes
<1>3. /\ NoGc \in Collection /\ NoGc.recs = NoRecords /\ NoGc.new = {}
      /\ RecsOK(NoRecords) /\ MemRecsOK(NoRecords)
  BY CollectionFields, EmptyRecs DEF MemRecsOK
<1>4. TypeOK'
  <2>1. crashes' \in Nat /\ pc' \in [Writers -> {"idle", "encode"}] /\ immutables' \in Seq(MemTable)
    BY <1>1 DEF TypeInv, TypeOK
  <2> QED BY <1>1, <1>2, <1>3, <2>1 DEF TypeInv, TypeOK, Collection
<1>5. PhaseInv'
  BY <1>1, <1>2, <1>3 DEF PhaseInv
<1>6. RecsInv'
  <2>1. Live' = {}
    BY <1>1, <1>2, <1>3 DEF Live, Pending, Flushed
  <2>2. DOMAIN immutables' = {}
    BY <1>1
  <2>3. \A w \in Writers : pc'[w] # "encode"
    BY <1>1
  <2> QED BY <1>1, <1>2, <1>3, <2>1, <2>2, <2>3 DEF TypeInv, RecsInv
<1> QED BY <1>4, <1>5, <1>6 DEF TypeInv

\* Table ids are below n, the next one to hand out, and no two tables share one.
IdsOK(tables, n) ==
    /\ \A t \in tables : t.fileId < n /\ \A k \in Keys : t.recs[k].blob < n
    /\ \A t, u \in tables : t.fileId = u.fileId => t = u

IdsInv == IdsOK(disk.tables, disk.nextTableId) /\ IdsOK(Live, manifest.nextTableId)

\* A set of operations of the journal has a newest one.
LEMMA NewestOp ==
    ASSUME TypeInv, NEW S \in SUBSET log, S # {}, NEW top,
           top = CHOOSE op \in S : \A o \in S : o.seq <= op.seq
    PROVE  top \in S /\ \A o \in S : o.seq <= top.seq
<1> DEFINE Q == {op.seq : op \in S}
<1>1. /\ \A op \in S : op.seq \in 1..MaxSequence
      /\ MaxSequence \in Nat
  BY TablesBoundsAssumption DEF TypeInv, RecsInv
<1>2. Q \in SUBSET Nat /\ Q # {} /\ \A x \in Q : x <= MaxSequence
  BY <1>1
<1>3. Max(Q) \in Q /\ \A y \in Q : Max(Q) >= y
  BY <1>1, <1>2, BoundedMax
<1>4. PICK op \in S : op.seq = Max(Q)
  BY <1>3
<1>5. \A o \in S : o.seq <= op.seq
  <2> TAKE o \in S
  <2>1. o.seq \in Q
    OBVIOUS
  <2> HIDE DEF Q
  <2> QED BY <1>1, <1>3, <1>4, <2>1
<1> QED BY <1>4, <1>5

\* The records replay gives the memtable.
ReplayedRecs == [k \in Keys |->
    LET of_k == {op \in Replayed : op.key = k}
    IN  IF of_k = {} THEN NoRecord
        ELSE RecordOf(CHOOSE op \in of_k : \A o \in of_k : o.seq <= op.seq)]

\* Replay applies the newest operation of every key that the tables do not have.
LEMMA ReplayedNewest ==
    ASSUME TypeInv, NEW k \in Keys
    PROVE  \/ ReplayedRecs[k] = NoRecord /\ \A op \in Replayed : op.key # k
           \/ \E op \in Replayed : /\ op.key = k /\ ReplayedRecs[k] = RecordOf(op)
                                   /\ \A o \in Replayed : o.key = k => o.seq <= op.seq
<1> DEFINE of_k == {op \in Replayed : op.key = k}
           top == CHOOSE op \in of_k : \A o \in of_k : o.seq <= op.seq
<1>1. ReplayedRecs[k] = IF of_k = {} THEN NoRecord ELSE RecordOf(top)
  BY DEF ReplayedRecs
<1>2. of_k \in SUBSET log
  BY DEF Replayed
<1>3. of_k # {} => top \in of_k /\ \A o \in of_k : o.seq <= top.seq
  <2>1. top = CHOOSE op \in of_k : \A o \in of_k : o.seq <= op.seq
    OBVIOUS
  <2> HIDE DEF top, of_k
  <2> QED BY <1>2, <2>1, NewestOp
<1> HIDE DEF top
<1> QED BY <1>1, <1>3

\* They are well formed.
LEMMA ReplayedOK ==
    ASSUME TypeInv
    PROVE  ReplayedRecs \in [Keys -> Record] /\ MemRecsOK(ReplayedRecs)
<1>1. \A op \in Replayed : /\ RecordOf(op) \in Record /\ RecordOf(op).seq \in 1..MaxSequence
                           /\ RecordOf(op).blob = 0
  BY OperationFields DEF TypeInv, TypeOK, RecsInv, Replayed
<1>2. MaxSequence \in Nat
  BY TablesBoundsAssumption
<1>3. ASSUME NEW k \in Keys
      PROVE  /\ ReplayedRecs[k] \in Record /\ ReplayedRecs[k].seq <= MaxSequence
             /\ ReplayedRecs[k].blob = 0
             /\ ReplayedRecs[k].seq = 0 => ReplayedRecs[k] = NoRecord
  <2>1. ReplayedRecs[k] = NoRecord \/ \E op \in Replayed : ReplayedRecs[k] = RecordOf(op)
    BY ReplayedNewest
  <2> QED BY <1>1, <1>2, <2>1, EmptyTypes
<1>4. ReplayedRecs \in [Keys -> Record]
  BY <1>3 DEF ReplayedRecs
<1> QED BY <1>3, <1>4 DEF MemRecsOK, RecsOK, Bounded

\* What open() sets up.
LEMMA OpenEffect ==
    ASSUME TypeInv, IdsInv, Open
    PROVE  \E top \in Nat :
           /\ life = "closed" /\ life' = "open"
           /\ FileIds(disk.tables) \subseteq tableFiles
           /\ manifest' = disk
           /\ mutable' \in MemTable /\ mutable'.recs = ReplayedRecs
           /\ mutable'.maxSeq = IF Replayed = {} THEN 0 ELSE top
           /\ disk.maxSequence <= top /\ \A op \in Replayed : op.seq <= top
           /\ top = disk.maxSequence \/ \E op \in Replayed : op.seq = top
           /\ lastVisible' = top /\ nextSequence' = top + 1
           /\ tableFiles' = tableFiles \cap FileIds(disk.tables)
           /\ compTables' \subseteq disk.tables
           /\ \/ compPc' = compPc /\ compTables' = compTables
              \/ compPc' = "queued" /\ compTables' = MergeSet(disk.tables)
           /\ UNCHANGED <<disk, blobFiles, immutables, log, pc, req, flushVars, compDrop, compNew,
                          gcVars, closePc, closeMem, closeTable, boundVars, tails>>
<1> DEFINE seqs == {disk.maxSequence} \cup {op.seq : op \in Replayed}
           top == Max(seqs)
           ids == {disk.nextTableId} \cup {t.fileId + 1 : t \in disk.tables}
                    \cup {t.recs[k].blob + 1 : t \in disk.tables, k \in Keys}
<1>1. /\ disk \in Manifest /\ disk.maxSequence \in Nat /\ disk.nextTableId \in Nat
      /\ disk.tables \in SUBSET Table /\ MaxSequence \in Nat
      /\ \A op \in Replayed : op.seq \in 1..MaxSequence
  BY ManifestFields, TablesBoundsAssumption DEF TypeInv, TypeOK, RecsInv, Replayed
<1>2. top \in seqs /\ \A x \in seqs : x <= top
  <2>1. \A x \in seqs : x \in Nat /\ x <= disk.maxSequence + MaxSequence
    BY <1>1
  <2>2. seqs \in SUBSET Nat /\ seqs # {} /\ disk.maxSequence + MaxSequence \in Nat
    BY <1>1, <2>1
  <2> HIDE DEF seqs
  <2> QED BY <2>1, <2>2, BoundedMax
<1>3. /\ top \in Nat /\ disk.maxSequence <= top /\ \A op \in Replayed : op.seq <= top
      /\ top = disk.maxSequence \/ \E op \in Replayed : op.seq = top
  <2> HIDE DEF top
  <2> QED BY <1>1, <1>2
<1>4. Max(ids) = disk.nextTableId
  <2>1. \A x \in ids : x \in Nat /\ x <= disk.nextTableId
    <3>1. \A t \in disk.tables : t.fileId \in Nat /\ \A k \in Keys : t.recs[k].blob \in Nat
      BY <1>1, TableFields, RecordFields
    <3>2. \A t \in disk.tables : t.fileId < disk.nextTableId
                                  /\ \A k \in Keys : t.recs[k].blob < disk.nextTableId
      BY DEF IdsInv, IdsOK
    <3> QED BY <1>1, <3>1, <3>2
  <2>2. ids \in SUBSET Nat /\ disk.nextTableId \in ids /\ ids # {}
    BY <2>1
  <2> HIDE DEF ids
  <2>3. Max(ids) \in ids /\ \A y \in ids : Max(ids) >= y
    BY <1>1, <2>1, <2>2, BoundedMax
  <2>4. Max(ids) \in Nat /\ Max(ids) <= disk.nextTableId
    BY <2>1, <2>3
  <2>5. Max(ids) >= disk.nextTableId
    BY <2>2, <2>3
  <2> HIDE DEF ids
  <2> QED BY <1>1, <2>4, <2>5
<1>5. [disk EXCEPT !.nextTableId = disk.nextTableId] = disk
  BY <1>1 DEF Manifest
<1>6. /\ life = "closed" /\ life' = "open"
      /\ FileIds(disk.tables) \subseteq tableFiles
      /\ manifest' = [disk EXCEPT !.nextTableId = Max(ids)]
      /\ mutable' = [maxSeq |-> IF Replayed = {} THEN 0 ELSE top,
                     ops |-> Cardinality(Replayed), recs |-> ReplayedRecs]
      /\ lastVisible' = top /\ nextSequence' = top + 1
      /\ tableFiles' = tableFiles \cap FileIds(disk.tables)
      /\ ScheduleCompaction(FALSE, disk.tables)
      /\ UNCHANGED <<disk, blobFiles, immutables, log, pc, req, flushVars, compDrop, compNew,
                     gcVars, closePc, closeMem, closeTable, boundVars, tails>>
  <2>1. manifest' = [disk EXCEPT !.nextTableId = Max(ids)]
    BY DEF Open
  <2>2. mutable' = [maxSeq |-> IF Replayed = {} THEN 0 ELSE top,
                     ops |-> Cardinality(Replayed), recs |-> ReplayedRecs]
    BY DEF Open, ReplayedRecs
  <2>3. lastVisible' = top /\ nextSequence' = top + 1
    BY DEF Open
  <2>4. /\ life = "closed" /\ life' = "open"
        /\ FileIds(disk.tables) \subseteq tableFiles
        /\ tableFiles' = tableFiles \cap FileIds(disk.tables)
        /\ ScheduleCompaction(FALSE, disk.tables)
        /\ UNCHANGED <<disk, blobFiles, immutables, log, pc, req, flushVars, compDrop, compNew,
                       gcVars, closePc, closeMem, closeTable, boundVars, tails>>
    BY DEF Open, KeptTableFiles
  <2> HIDE DEF top, ids
  <2> QED BY <2>1, <2>2, <2>3, <2>4
<1> HIDE DEF top, ids
<1>7. Cardinality(Replayed) \in Nat
  <2>1. Replayed \in SUBSET log
    BY DEF Replayed
  <2> QED BY <2>1, FS_Subset, FS_CardinalityType DEF TypeInv, RecsInv
<1>8. /\ mutable' \in MemTable /\ mutable'.recs = ReplayedRecs
      /\ mutable'.maxSeq = IF Replayed = {} THEN 0 ELSE top
  <2>1. (IF Replayed = {} THEN 0 ELSE top) \in Nat
    BY <1>3
  <2> QED BY <1>6, <1>7, <2>1, ReplayedOK, MemFields
<1>9. \/ compPc' = compPc /\ compTables' = compTables /\ compTables = {}
      \/ compPc' = "queued" /\ compTables' = MergeSet(disk.tables) /\ compTables' \subseteq disk.tables
  <2>1. compTables = {}
    BY <1>6 DEF TypeInv, PhaseInv
  <2> QED BY <1>1, <1>6, <2>1, ScheduleEffect
<1> QED BY <1>3, <1>4, <1>5, <1>6, <1>8, <1>9

\* The database is opened.
LEMMA OpenTypes ==
    ASSUME TypeInv, IdsInv, Open
    PROVE  TypeInv'
<1>1. PICK top \in Nat :
           /\ life = "closed" /\ life' = "open"
           /\ manifest' = disk
           /\ mutable' \in MemTable /\ mutable'.recs = ReplayedRecs
           /\ lastVisible' = top /\ nextSequence' = top + 1
           /\ tableFiles' = tableFiles \cap FileIds(disk.tables)
           /\ compTables' \subseteq disk.tables
           /\ \/ compPc' = compPc /\ compTables' = compTables
              \/ compPc' = "queued" /\ compTables' = MergeSet(disk.tables)
           /\ UNCHANGED <<disk, blobFiles, immutables, log, pc, req, flushVars, compDrop, compNew,
                          gcVars, closePc, closeMem, closeTable, boundVars, tails>>
  BY OpenEffect
<1>2. disk \in Manifest /\ disk.tables \in SUBSET Table
  BY ManifestFields DEF TypeInv, TypeOK
<1>3. MemRecsOK(mutable'.recs)
  BY <1>1, ReplayedOK
<1>4. TypeOK'
  <2>1. nextSequence' \in Nat /\ lastVisible' \in Nat
    BY <1>1
  <2>2. tableFiles' \subseteq Nat
    BY <1>1 DEF TypeInv, TypeOK
  <2>3. compPc' \in {"idle", "queued", "merge", "install"}
    BY <1>1 DEF TypeInv, TypeOK
  <2>4. compTables' \subseteq Table
    BY <1>1, <1>2
  <2> QED BY <1>1, <1>2, <2>1, <2>2, <2>3, <2>4 DEF TypeInv, TypeOK
<1>5. PhaseInv'
  BY <1>1 DEF TypeInv, PhaseInv
<1>6. RecsInv'
  <2>1. Live' \subseteq Live \cup disk.tables
    BY <1>1 DEF Live, Pending, Flushed
  <2> QED BY <1>1, <1>3, <2>1 DEF TypeInv, RecsInv
<1> QED BY <1>4, <1>5, <1>6 DEF TypeInv

-----------------------------------------------------------------------------
(* The inductive invariant about files.                                    *)

\* The blob files that records of some tables refer to.
BlobsOf(tables) == {t.recs[k].blob : t \in tables, k \in Keys} \ {0}

\* A table waiting to be installed is in nobody else's hands.
Apart == /\ Pending \cap manifest.tables = {}
         /\ Flushed \cap compNew = {} /\ Flushed \cap gc.new = {} /\ compNew \cap gc.new = {}

\* What the collector has: as long as no manifest was persisted, its tables are the
\* ones of the manifest; the blob file it wrote is its own.
GcInv ==
    /\ gcPc \in {"list", "write", "commit"} =>
          /\ gc.manifestId <= manifest.manifestId
          /\ gc.manifestId = manifest.manifestId => gc.tables = manifest.tables
    /\ BlobsOf(gc.new) \subseteq GcBlobs
    /\ \A id \in GcBlobs : id < manifest.nextTableId
    /\ GcBlobs \cap BlobsOf(manifest.tables \cup Flushed \cup compNew) = {}

\* A table is complete: its file exists, and the blob files of its records.
Exists(t) == t.fileId \in tableFiles /\ \A k \in Keys : Resolves(t.recs[k])

\* A job deletes nothing that these tables need.
Spares(job, tables) == /\ job.tables \cap FileIds(tables) = {}
                       /\ job.blobs \cap BlobsOf(tables) = {}

\* Everything that a manifest or a pending table refers to exists, and no job is going
\* to delete it.
FilesInv ==
    /\ \A t \in disk.tables \cup Live : Exists(t)
    /\ \A job \in tails : Spares(job, Live) /\ \A id \in job.tables : id < manifest.nextTableId

\* A condition on behaviours: no job is about to delete a blob file whose id the
\* manifest will hand out again (an orphan of an earlier life of the process).
DeletesOldBlobs == \A job \in tails : \A id \in job.blobs : id < manifest.nextTableId

\* What there is to prove of a step: the ids, and under the condition the files.
FileStep == /\ IdsInv'
            /\ FilesInv /\ DeletesOldBlobs => FilesInv'

\* Tables with ids below n, some of them left out.
LEMMA IdsKept ==
    ASSUME NEW all \in SUBSET Table, NEW tables \in SUBSET all, NEW n \in Nat, NEW m \in Nat,
           n <= m, IdsOK(all, n)
    PROVE  IdsOK(tables, m)
<1>1. \A t \in tables : t \in Table /\ t.fileId \in Nat /\ \A k \in Keys : t.recs[k].blob \in Nat
  BY TableFields, RecordFields
<1> QED BY <1>1 DEF IdsOK

\* A table of id n is added.
LEMMA IdsAdded ==
    ASSUME NEW all \in SUBSET Table, NEW t \in Table, NEW tables \in SUBSET (all \cup {t}),
           NEW n \in Nat, NEW m \in Nat, n < m, t.fileId = n, IdsOK(all, n),
           \A k \in Keys : t.recs[k].blob < m
    PROVE  IdsOK(tables, m)
<1>1. \A u \in all : u.fileId \in Nat /\ \A k \in Keys : u.recs[k].blob \in Nat
  BY TableFields, RecordFields
<1>2. \A u \in all : u.fileId < n /\ \A k \in Keys : u.recs[k].blob < n
  BY DEF IdsOK
<1>3. \A u \in tables : u.fileId < m /\ \A k \in Keys : u.recs[k].blob < m
  BY <1>1, <1>2
<1>4. ASSUME NEW u \in tables, NEW v \in tables, u.fileId = v.fileId PROVE u = v
  <2>1. u \in all /\ v \in all => u = v
    BY <1>4 DEF IdsOK
  <2>2. \A w \in all : w.fileId # n
    BY <1>1, <1>2
  <2> QED BY <1>4, <2>1, <2>2
<1> QED BY <1>3, <1>4 DEF IdsOK

\* The sets of tables the invariants are about.
LEMMA LiveTables ==
    ASSUME TypeInv
    PROVE  /\ Live \in SUBSET Table /\ disk.tables \in SUBSET Table
           /\ manifest \in Manifest /\ disk \in Manifest /\ manifest.tables \in SUBSET Table
           /\ manifest.nextTableId \in Nat /\ disk.nextTableId \in Nat
           /\ \A t \in Live \cup disk.tables :
                 t.fileId \in Nat /\ \A k \in Keys : t.recs[k] \in Record /\ t.recs[k].blob \in Nat
<1>1. /\ manifest \in Manifest /\ disk \in Manifest /\ manifest.tables \in SUBSET Table
      /\ disk.tables \in SUBSET Table /\ manifest.nextTableId \in Nat /\ disk.nextTableId \in Nat
  BY ManifestFields DEF TypeInv, TypeOK
<1>2. Live \in SUBSET Table
  BY <1>1 DEF TypeInv, TypeOK, Live, Pending, Flushed
<1> QED BY <1>1, <1>2, TableFields, RecordFields

\* A blob file and a table in it, before and after a step that only adds files.
LEMMA ExistsGrows ==
    ASSUME FilesGrow, NEW t \in Table, Exists(t)
    PROVE  /\ t.fileId \in tableFiles'
           /\ \A k \in Keys : t.recs[k].blob = 0 \/ \E b \in blobFiles' : b.id = t.recs[k].blob
<1>1. t.fileId \in tableFiles'
  BY DEF FilesGrow, Exists
<1>2. ASSUME NEW k \in Keys, t.recs[k].blob # 0
      PROVE  \E b \in blobFiles' : b.id = t.recs[k].blob
  <2> DEFINE id == t.recs[k].blob
  <2>1. id \in Nat
    BY TableFields, RecordFields
  <2>2. \E b \in blobFiles : b.id = id
    BY <1>2 DEF Exists, Resolves
  <2> HIDE DEF id
  <2>3. \A i \in Nat : (\E b \in blobFiles : b.id = i) => \E b \in blobFiles' : b.id = i
    BY DEF FilesGrow, HasBlob
  <2>4. \E b \in blobFiles' : b.id = id
    BY <2>1, <2>2, <2>3
  <2> QED BY <2>4 DEF id
<1> QED BY <1>1, <1>2

\* Steps that leave the files, the manifests and the jobs alone, and add no table.
LEMMA QuietFiles ==
    ASSUME TypeInv, IdsInv, UNCHANGED <<disk, tableFiles, blobFiles, manifest, tails>>,
           Live' \subseteq Live
    PROVE  FileStep
<1>1. IdsInv'
  BY LiveTables, IdsKept DEF IdsInv
<1>2. FilesInv => FilesInv'
  BY DEF FilesInv, Exists, Resolves, Spares, FileIds, BlobsOf
<1> QED BY <1>1, <1>2 DEF FileStep

\* A table was written: its id is new, the blob files of its records are new or those
\* of other tables.
Written(t) == \E n \in Nat :
    /\ IdsTaken(n) /\ UNCHANGED <<disk, tails>> /\ FilesGrow
    /\ Live' \subseteq Live \cup {t}
    /\ t \in Table /\ t.fileId = manifest.nextTableId /\ t.fileId \in tableFiles'
    /\ \A k \in Keys :
          \/ t.recs[k].blob = 0
          \/ t.recs[k].blob \in BlobsOf(Live)
          \/ /\ t.recs[k].blob = manifest.nextTableId + 1
             /\ manifest.nextTableId + 1 < n
             /\ \E b \in blobFiles' : b.id = manifest.nextTableId + 1

\* Writing a table takes nothing away.
LEMMA WrittenFiles ==
    ASSUME TypeInv, IdsInv, NEW t, Written(t)
    PROVE  FileStep
<1>1. PICK n \in Nat :
        /\ IdsTaken(n) /\ UNCHANGED <<disk, tails>> /\ FilesGrow
        /\ Live' \subseteq Live \cup {t}
        /\ t \in Table /\ t.fileId = manifest.nextTableId /\ t.fileId \in tableFiles'
        /\ \A k \in Keys :
              \/ t.recs[k].blob = 0
              \/ t.recs[k].blob \in BlobsOf(Live)
              \/ /\ t.recs[k].blob = manifest.nextTableId + 1
                 /\ manifest.nextTableId + 1 < n
                 /\ \E b \in blobFiles' : b.id = manifest.nextTableId + 1
  BY DEF Written
<1> DEFINE id == manifest.nextTableId
<1>2. /\ Live \in SUBSET Table /\ manifest \in Manifest /\ id \in Nat
      /\ \A u \in Live \cup disk.tables : u \in Table /\ u.fileId \in Nat
      /\ \A u \in Live : \A k \in Keys : u.recs[k].blob \in Nat
  BY LiveTables
<1>3. manifest'.nextTableId = n /\ id < n
  BY <1>1, <1>2, IdsTakenFields DEF IdsTaken
<1>4. \A i \in BlobsOf(Live) : i \in Nat /\ i < id
  BY <1>2 DEF IdsInv, IdsOK, BlobsOf
<1>5. \A k \in Keys : t.recs[k].blob < n
  BY <1>1, <1>2, <1>3, <1>4
<1>6. IdsInv'
  <2>1. IdsOK(Live', n)
    BY <1>1, <1>2, <1>3, <1>5, IdsAdded DEF IdsInv
  <2> QED BY <1>1, <1>3, <2>1 DEF IdsInv
<1>7. ASSUME FilesInv, DeletesOldBlobs PROVE FilesInv'
  <2>1. ASSUME NEW u \in disk'.tables \cup Live' PROVE Exists(u)'
    <3>1. CASE u \in disk.tables \cup Live
      <4>1. u \in Table /\ Exists(u)
        BY <1>2, <1>7, <3>1 DEF FilesInv
      <4> QED BY <1>1, <4>1, ExistsGrows DEF Exists, Resolves
    <3>2. CASE u = t
      <4>1. ASSUME NEW k \in Keys
            PROVE t.recs[k].blob = 0 \/ \E b \in blobFiles' : b.id = t.recs[k].blob
        <5>1. CASE t.recs[k].blob \in BlobsOf(Live)
          <6>1. PICK v \in Live, j \in Keys : v.recs[j].blob = t.recs[k].blob
            BY <5>1 DEF BlobsOf
          <6>2. v \in Table /\ Exists(v)
            BY <1>2, <1>7 DEF FilesInv
          <6> QED BY <1>1, <6>1, <6>2, ExistsGrows
        <5> QED BY <1>1, <5>1
      <4> QED BY <1>1, <3>2, <4>1 DEF Exists, Resolves
    <3> QED BY <1>1, <3>1, <3>2
  <2>2. ASSUME NEW job \in tails'
        PROVE  Spares(job, Live') /\ \A i \in job.tables : i < n
    <3>1. /\ job \in tails /\ Spares(job, Live)
          /\ \A i \in job.tables : i < id
          /\ \A i \in job.blobs : i < id
          /\ job.tables \subseteq Nat /\ job.blobs \subseteq Nat
      BY <1>1, <1>7 DEF FilesInv, DeletesOldBlobs, TypeInv, TypeOK
    <3>2. job.tables \cap FileIds(Live') = {}
      <4>1. \A u \in Live' : u \in Live \/ u.fileId = id
        BY <1>1
      <4>2. \A u \in Live : u.fileId \notin job.tables
        BY <3>1 DEF Spares, FileIds
      <4>3. id \notin job.tables
        BY <1>2, <3>1
      <4> QED BY <4>1, <4>2, <4>3 DEF FileIds
    <3>3. job.blobs \cap BlobsOf(Live') = {}
      <4>1. \A i \in BlobsOf(Live') : i \in BlobsOf(Live) \/ i = id + 1
        <5>1. ASSUME NEW u \in Live', NEW k \in Keys, u.recs[k].blob # 0
              PROVE  u.recs[k].blob \in BlobsOf(Live) \/ u.recs[k].blob = id + 1
          BY <1>1, <5>1 DEF BlobsOf
        <5> QED BY <5>1 DEF BlobsOf
      <4>2. id + 1 \notin job.blobs
        BY <1>2, <3>1
      <4> QED BY <3>1, <4>1, <4>2 DEF Spares
    <3>4. \A i \in job.tables : i < n
      BY <1>2, <1>3, <3>1
    <3> QED BY <3>2, <3>3, <3>4 DEF Spares
  <2>3. \A job \in tails' : Spares(job, Live)' /\ \A i \in job.tables : i < manifest'.nextTableId
    BY <1>3, <2>2 DEF Spares, FileIds, BlobsOf
  <2> QED BY <2>1, <2>3 DEF FilesInv
<1> QED BY <1>6, <1>7 DEF FileStep

\* Ids were taken, and files may have been left behind.
LEMMA AbandonedFiles ==
    ASSUME TypeInv, IdsInv, NEW n \in Nat, IdsTaken(n), UNCHANGED <<disk, tails>>, FilesGrow,
           Live' \subseteq Live
    PROVE  FileStep
<1>1. /\ Live \in SUBSET Table /\ manifest \in Manifest /\ manifest.nextTableId \in Nat
      /\ \A u \in Live \cup disk.tables : u \in Table
  BY LiveTables
<1>2. manifest'.nextTableId = n /\ manifest.nextTableId < n
  BY <1>1, IdsTakenFields DEF IdsTaken
<1>3. IdsInv'
  <2>1. IdsOK(Live', n)
    BY <1>1, <1>2, IdsKept DEF IdsInv
  <2> QED BY <1>2, <2>1 DEF IdsInv
<1>4. ASSUME FilesInv PROVE FilesInv'
  <2>1. ASSUME NEW u \in disk'.tables \cup Live' PROVE Exists(u)'
    <3>1. u \in Table /\ Exists(u)
      BY <1>1, <1>4 DEF FilesInv
    <3> QED BY <3>1, ExistsGrows DEF Exists, Resolves
  <2>2. \A job \in tails' : Spares(job, Live)' /\ \A i \in job.tables : i < n
    <3>1. \A job \in tails : Spares(job, Live) /\ \A i \in job.tables : i \in Nat /\ i < manifest.nextTableId
      BY <1>4 DEF FilesInv, TypeInv, TypeOK
    <3>2. \A job \in tails : Spares(job, Live')
      BY <3>1 DEF Spares, FileIds, BlobsOf
    <3>3. \A job \in tails : \A i \in job.tables : i < n
      BY <1>1, <1>2, <3>1
    <3> QED BY <3>2, <3>3 DEF Spares, FileIds, BlobsOf
  <2> QED BY <1>2, <2>1, <2>2 DEF FilesInv
<1> QED BY <1>3, <1>4 DEF FileStep

\* A job to come deletes nothing that is needed.
GoodJob(job, tables) == /\ Spares(job, tables)
                        /\ \A id \in job.tables : id < manifest.nextTableId

\* A manifest of known tables was persisted.
LEMMA InstalledFiles ==
    ASSUME TypeInv, IdsInv, NEW m \in Manifest, Persisted(m), m.tables \subseteq Live,
           m.nextTableId = manifest.nextTableId,
           Live' \subseteq Live, UNCHANGED <<tableFiles, blobFiles>>,
           \A job \in tails' \ tails : FilesInv => GoodJob(job, Live')
    PROVE  FileStep
<1>1. disk' = m /\ manifest'.nextTableId = manifest.nextTableId
  BY PersistedFields
<1>2. IdsInv'
  <2>1. IdsOK(Live', manifest.nextTableId) /\ IdsOK(m.tables, m.nextTableId)
    BY LiveTables, IdsKept DEF IdsInv
  <2> QED BY <1>1, <2>1 DEF IdsInv
<1>3. ASSUME FilesInv PROVE FilesInv'
  <2>1. \A u \in disk'.tables \cup Live' : Exists(u)'
    BY <1>1, <1>3 DEF FilesInv, Exists, Resolves
  <2>2. ASSUME NEW job \in tails' PROVE GoodJob(job, Live')
    <3>1. job \in tails => Spares(job, Live) /\ \A id \in job.tables : id < manifest.nextTableId
      BY <1>3 DEF FilesInv
    <3>2. job \in tails => GoodJob(job, Live')
      BY <3>1 DEF GoodJob, Spares, FileIds, BlobsOf
    <3> QED BY <1>3, <3>2
  <2> QED BY <1>1, <2>1, <2>2 DEF FilesInv, GoodJob, Spares, FileIds, BlobsOf
<1> QED BY <1>2, <1>3 DEF FileStep

\* Persisting it failed.
LEMMA NotInstalledFiles ==
    ASSUME TypeInv, IdsInv, NEW m \in Manifest, m.tables \subseteq Live,
           m.nextTableId = manifest.nextTableId, manifest' = manifest, disk' \in {disk, m},
           Live' \subseteq Live, UNCHANGED <<tableFiles, blobFiles>>,
           \A job \in tails' \ tails : FilesInv => GoodJob(job, Live')
    PROVE  FileStep
<1>1. IdsInv'
  <2>1. IdsOK(Live', manifest.nextTableId) /\ IdsOK(m.tables, m.nextTableId)
    BY LiveTables, IdsKept DEF IdsInv
  <2> QED BY <2>1 DEF IdsInv
<1>2. ASSUME FilesInv PROVE FilesInv'
  <2>1. \A u \in disk'.tables \cup Live' : Exists(u)'
    BY <1>2 DEF FilesInv, Exists, Resolves
  <2>2. ASSUME NEW job \in tails' PROVE GoodJob(job, Live')
    <3>1. job \in tails => Spares(job, Live) /\ \A id \in job.tables : id < manifest.nextTableId
      BY <1>2 DEF FilesInv
    <3>2. job \in tails => GoodJob(job, Live')
      BY <3>1 DEF GoodJob, Spares, FileIds, BlobsOf
    <3> QED BY <1>2, <3>2
  <2> QED BY <2>1, <2>2 DEF FilesInv, GoodJob, Spares, FileIds, BlobsOf
<1> QED BY <1>1, <1>2 DEF FileStep

\* A job deletes its files: those of no table of the manifest.
LEMMA DeletedFiles ==
    ASSUME TypeInv, IdsInv, NEW job \in tails, DeleteFiles(job)
    PROVE  FileStep
<1>1. /\ tails' = tails \ {job} /\ tableFiles' = tableFiles \ job.tables
      /\ blobFiles' = {b \in blobFiles : b.id \notin job.blobs}
      /\ UNCHANGED <<disk, flushVars, compVars, gcVars, manifest>>
  BY DEF DeleteFiles
<1>2. Live' = Live
  BY <1>1 DEF Live, Pending, Flushed
<1>3. IdsInv'
  BY <1>1, <1>2 DEF IdsInv
<1>4. disk.tables = manifest.tables
  BY DEF TypeInv, PhaseInv, Saved
<1>5. ASSUME FilesInv PROVE FilesInv'
  <2>1. Spares(job, Live)
    BY <1>5 DEF FilesInv
  <2>2. ASSUME NEW t \in disk'.tables \cup Live' PROVE Exists(t)'
    <3>1. t \in Live /\ Exists(t)
      BY <1>1, <1>2, <1>4, <1>5 DEF FilesInv, Live
    <3>2. t.fileId \in tableFiles'
      BY <1>1, <2>1, <3>1 DEF Spares, FileIds, Exists
    <3>3. ASSUME NEW k \in Keys PROVE t.recs[k].blob = 0 \/ \E b \in blobFiles' : b.id = t.recs[k].blob
      <4>1. t.recs[k].blob # 0 => t.recs[k].blob \notin job.blobs
        BY <2>1, <3>1 DEF Spares, BlobsOf
      <4> QED BY <1>1, <3>1, <4>1 DEF Exists, Resolves
    <3> QED BY <3>2, <3>3 DEF Exists, Resolves
  <2>3. \A j \in tails' : Spares(j, Live)' /\ \A id \in j.tables : id < manifest'.nextTableId
    BY <1>1, <1>2, <1>5 DEF FilesInv, Spares, FileIds, BlobsOf
  <2> QED BY <2>2, <2>3 DEF FilesInv
<1> QED BY <1>3, <1>5 DEF FileStep

\* A crash leaves the files, and forgets what was pending.
LEMMA CrashFiles ==
    ASSUME TypeInv, IdsInv, Crash
    PROVE  FileStep /\ Live' = {} /\ Pending' = {} /\ Flushed' = {} /\ compNew' = {} /\ gc' = NoGc
<1>1. /\ manifest' = NewManifest /\ flushPc' = "idle" /\ compNew' = {} /\ gc' = NoGc
      /\ tails' = {} /\ UNCHANGED diskVars
  BY DEF Crash, ForgetState, CompEnds, GcEnds
<1>2. /\ NewManifest.tables = {} /\ NoGc.new = {}
  BY EmptyTypes, CollectionFields
<1>3. Live' = {} /\ Pending' = {} /\ Flushed' = {}
  BY <1>1, <1>2 DEF Live, Pending, Flushed
<1>4. IdsInv'
  BY <1>1, <1>3 DEF IdsInv, IdsOK
<1>5. FilesInv => FilesInv'
  BY <1>1, <1>3 DEF FilesInv, Exists, Resolves
<1> QED BY <1>1, <1>3, <1>4, <1>5 DEF FileStep

\* open() keeps the files of the tables on disk.
LEMMA OpenFiles ==
    ASSUME TypeInv, IdsInv, Open
    PROVE  FileStep /\ Pending = {} /\ Pending' = {} /\ Flushed' = {} /\ Live' = disk.tables
<1>1. /\ life = "closed" /\ manifest' = disk
      /\ tableFiles' = tableFiles \cap FileIds(disk.tables)
      /\ UNCHANGED <<disk, blobFiles, flushVars, compNew, gcVars, tails>>
  BY OpenEffect
<1>2. /\ flushPc = "idle" /\ compNew = {} /\ gc.new = {} /\ tails = {}
  BY <1>1 DEF TypeInv, PhaseInv
<1>3. Pending = {} /\ Pending' = {} /\ Flushed' = {} /\ Live' = disk.tables
  BY <1>1, <1>2 DEF Live, Pending, Flushed
<1>4. IdsInv'
  BY <1>1, <1>3 DEF IdsInv
<1>5. FilesInv => FilesInv'
  BY <1>1, <1>2, <1>3 DEF FilesInv, Exists, Resolves, FileIds
<1> QED BY <1>3, <1>4, <1>5 DEF FileStep

-----------------------------------------------------------------------------
(* What the collector knows, kept by the other steps.                      *)

FileInv == IdsInv /\ Apart /\ GcInv

\* The tables that are not the collector's.
Rest == manifest.tables \cup Flushed \cup compNew

\* Other jobs leave the collector's blob file alone: they add no table, or one whose
\* blob files are new or those of other tables.
LEMMA GcKept ==
    ASSUME TypeInv, FileInv, gc' = gc,
           gcPc' \in {"list", "write", "commit"} => gcPc' = gcPc,
           manifest' \in Manifest, manifest.nextTableId <= manifest'.nextTableId,
           \/ manifest'.manifestId = manifest.manifestId /\ manifest'.tables = manifest.tables
           \/ manifest'.manifestId = manifest.manifestId + 1,
           \A id \in BlobsOf(Rest)' : id \in BlobsOf(Rest) \/ id = manifest.nextTableId + 1
    PROVE  GcInv'
<1>1. /\ manifest.manifestId \in Nat /\ manifest'.manifestId \in Nat /\ gc.manifestId \in Nat
      /\ manifest.nextTableId \in Nat /\ manifest'.nextTableId \in Nat
  BY ManifestFields DEF TypeInv, TypeOK
<1>2. GcBlobs' = GcBlobs /\ BlobsOf(gc.new)' = BlobsOf(gc.new)
  BY DEF GcBlobs, BlobsOf, BigValues
<1>3. \A id \in GcBlobs : id \in Nat /\ id <= manifest.nextTableId
  <2>1. \A t \in gc.new : t.fileId \in Nat /\ t.fileId < manifest.nextTableId
    BY LiveTables DEF FileInv, IdsInv, IdsOK, Live, Pending
  <2> QED BY <1>1, <2>1 DEF GcBlobs
<1>4. gcPc' \in {"list", "write", "commit"} =>
          /\ gc.manifestId <= manifest'.manifestId
          /\ gc.manifestId = manifest'.manifestId => gc.tables = manifest'.tables
  BY <1>1 DEF FileInv, GcInv
<1>5. \A id \in GcBlobs : id < manifest'.nextTableId
  BY <1>1, <1>3 DEF FileInv, GcInv
<1>6. GcBlobs \cap BlobsOf(Rest)' = {}
  <2>1. GcBlobs \cap BlobsOf(Rest) = {}
    BY DEF FileInv, GcInv, Rest
  <2>2. \A id \in GcBlobs : id # manifest.nextTableId + 1
    BY <1>1, <1>3
  <2> QED BY <2>1, <2>2
<1>7. BlobsOf(gc.new) \subseteq GcBlobs
  BY DEF FileInv, GcInv
<1> QED BY <1>2, <1>4, <1>5, <1>6, <1>7 DEF GcInv, Rest

\* No more tables than before.
LEMMA GcKeptQuiet ==
    ASSUME TypeInv, FileInv, gc' = gc,
           gcPc' \in {"list", "write", "commit"} => gcPc' = gcPc,
           manifest' \in Manifest, manifest.nextTableId <= manifest'.nextTableId,
           \/ manifest'.manifestId = manifest.manifestId /\ manifest'.tables = manifest.tables
           \/ manifest'.manifestId = manifest.manifestId + 1,
           Rest' \subseteq Rest
    PROVE  GcInv'
<1>1. \A id \in BlobsOf(Rest)' : id \in BlobsOf(Rest)
  BY DEF BlobsOf
<1> QED BY <1>1, GcKept

\* When a collection is over there is nothing to know.
LEMMA GcOver ==
    ASSUME gc' = NoGc, gcPc' \in {"idle", "queued"}
    PROVE  GcInv'
<1>1. gc'.new = {}
  BY CollectionFields
<1>2. GcBlobs' = {} /\ BlobsOf(gc.new)' = {}
  BY <1>1 DEF GcBlobs, BlobsOf
<1> QED BY <1>2 DEF GcInv

\* Steps of write(), and the first of the flush.
LEMMA WriteStepsFiles ==
    ASSUME TypeInv, FileInv,
           \/ \E w \in Writers, k \in Keys, kind \in Kinds : BeginWrite(w, k, kind)
           \/ \E w \in Writers : ApplyWrite(w)
           \/ FlushPick \/ FlushRemove \/ CompStart
    PROVE  FileStep /\ Apart' /\ GcInv'
<1>1. UNCHANGED <<disk, tableFiles, blobFiles, manifest, tails, gcVars, compNew>>
  <2>1. CASE \E w \in Writers, k \in Keys, kind \in Kinds : BeginWrite(w, k, kind)
    BY <2>1 DEF BeginWrite
  <2>2. CASE \E w \in Writers : ApplyWrite(w)
    BY <2>2 DEF ApplyWrite
  <2>3. CASE FlushPick
    BY <2>3 DEF FlushPick
  <2>4. CASE FlushRemove
    BY <2>4 DEF FlushRemove
  <2>5. CASE CompStart
    <3>1. compPc # "install"
      BY <2>5 DEF CompStart
    <3>2. compNew = {}
      BY <3>1 DEF TypeInv, PhaseInv
    <3> QED BY <2>5, <3>2 DEF CompStart, CompEnds
  <2> QED BY <2>1, <2>2, <2>3, <2>4, <2>5
<1>2. Flushed' = Flushed
  <2>1. CASE \E w \in Writers, k \in Keys, kind \in Kinds : BeginWrite(w, k, kind)
    BY <2>1 DEF BeginWrite, Flushed
  <2>2. CASE \E w \in Writers : ApplyWrite(w)
    BY <2>2 DEF ApplyWrite, Flushed
  <2>3. CASE FlushPick
    BY <2>3 DEF FlushPick, Flushed
  <2>4. CASE FlushRemove
    BY <2>4 DEF FlushRemove, Flushed
  <2>5. CASE CompStart
    BY <2>5 DEF CompStart, Flushed
  <2> QED BY <2>1, <2>2, <2>3, <2>4, <2>5
<1>3. Live' = Live /\ Pending' = Pending /\ Rest' = Rest
  BY <1>1, <1>2 DEF Live, Pending, Rest
<1>4. FileStep
  BY <1>1, <1>3, QuietFiles DEF FileInv
<1>5. Apart'
  BY <1>1, <1>2, <1>3 DEF FileInv, Apart
<1>6. GcInv'
  BY <1>1, <1>3, GcKeptQuiet, ManifestFields DEF FileInv, TypeInv, TypeOK
<1> QED BY <1>4, <1>5, <1>6

\* The blob files of a table made of inline records.
LEMMA TableOfBlobs ==
    ASSUME manifest \in Manifest, NEW recs \in [Keys -> Record], \A k \in Keys : recs[k].blob = 0,
           NEW level \in {0, 1}, NEW k \in Keys
    PROVE  LET t == TableOf(level, recs) IN
           \/ t.recs[k].blob = 0
           \/ t.recs[k].blob = manifest.nextTableId + 1 /\ recs[k].big /\ BigValues(recs) # 0
<1> DEFINE t == TableOf(level, recs)
<1>1. /\ recs[k].big => t.recs[k].blob = manifest.nextTableId + 1
      /\ ~recs[k].big => t.recs[k] = recs[k]
  BY TableOfFields
<1> HIDE DEF t
<1>2. recs[k].big => BigValues(recs) # 0
  BY BigCount
<1> QED BY <1>1, <1>2 DEF t

\* A table written by a flush or by the collector.
LEMMA WriteTableWritten ==
    ASSUME TypeInv, NEW recs \in [Keys -> Record], \A k \in Keys : recs[k].blob = 0,
           NEW level \in {0, 1}, WriteTable(recs), UNCHANGED <<disk, tails>>,
           Live' \subseteq Live \cup {TableOf(level, recs)}
    PROVE  /\ Written(TableOf(level, recs))
           /\ manifest' \in Manifest /\ manifest.nextTableId < manifest'.nextTableId
           /\ manifest'.manifestId = manifest.manifestId /\ manifest'.tables = manifest.tables
           /\ BigValues(recs) # 0 => manifest.nextTableId + 1 < manifest'.nextTableId
<1> DEFINE t == TableOf(level, recs)
<1>1. manifest \in Manifest /\ BlobTypes
  BY DEF TypeInv, TypeOK, BlobTypes
<1>2. PICK n \in Nat : IdsTaken(n) /\ (BigValues(recs) # 0 => manifest.nextTableId + 1 < n)
  BY <1>1, WriteEffect
<1>3. /\ FilesGrow /\ tableFiles' = tableFiles \cup {manifest.nextTableId}
      /\ BigValues(recs) # 0 => \E b \in blobFiles' : b.id = manifest.nextTableId + 1
  BY <1>1, WriteEffect
<1>4. t \in Table /\ t.fileId = manifest.nextTableId
  BY <1>1, TableOfFields
<1>5. \A k \in Keys : \/ t.recs[k].blob = 0
                      \/ t.recs[k].blob = manifest.nextTableId + 1 /\ BigValues(recs) # 0
  BY <1>1, TableOfBlobs
<1> HIDE DEF t
<1>6. Live' \subseteq Live \cup {t}
  BY DEF t
<1>7. Written(t)
  BY <1>2, <1>3, <1>4, <1>5, <1>6 DEF Written
<1>8. /\ manifest' \in Manifest /\ manifest.nextTableId < manifest'.nextTableId
      /\ manifest'.manifestId = manifest.manifestId /\ manifest'.tables = manifest.tables
      /\ BigValues(recs) # 0 => manifest.nextTableId + 1 < manifest'.nextTableId
  BY <1>1, <1>2, IdsTakenFields DEF IdsTaken
<1> QED BY <1>7, <1>8 DEF t

\* A table with the next id is no other table.
LEMMA FreshTable ==
    ASSUME TypeInv, FileInv, NEW t, t.fileId = manifest.nextTableId
    PROVE  t \notin Live
<1>1. \A u \in Live : u.fileId \in Nat /\ u.fileId < manifest.nextTableId
  BY LiveTables DEF FileInv, IdsInv, IdsOK
<1> QED BY <1>1, LiveTables

\* The memtable being flushed has its values in memory.
LEMMA FlushMemOK ==
    ASSUME TypeInv, flushPc = "write"
    PROVE  flushMem.recs \in [Keys -> Record] /\ MemRecsOK(flushMem.recs)
<1>1. flushMem \in MemTable /\ immutables \in Seq(MemTable)
  BY DEF TypeInv, TypeOK
<1>2. immutables # <<>> /\ flushMem = Head(immutables)
  BY DEF TypeInv, PhaseInv
<1> QED BY <1>1, <1>2, TailElements, MemFields DEF TypeInv, RecsInv

\* The flush writes its table.
LEMMA FlushWriteFiles ==
    ASSUME TypeInv, FileInv, FlushWrite
    PROVE  FileStep /\ Apart' /\ GcInv'
<1> DEFINE t == TableOf(0, flushMem.recs)
<1>1. /\ flushPc = "write" /\ WriteTable(flushMem.recs)
      /\ flushTable' = t /\ flushPc' = "install"
      /\ UNCHANGED <<disk, memVars, writeVars, flushMem, compVars, gcVars, closeVars,
                     boundVars, tails>>
  BY DEF FlushWrite
<1>2. /\ flushMem.recs \in [Keys -> Record] /\ \A k \in Keys : flushMem.recs[k].blob = 0
      /\ manifest \in Manifest
  BY <1>1, FlushMemOK DEF MemRecsOK, TypeInv, TypeOK
<1>3. manifest'.tables = manifest.tables
  <2>1. PICK n \in Nat : IdsTaken(n)
    BY <1>1, <1>2, WriteEffect DEF TypeInv, TypeOK, BlobTypes
  <2> QED BY <1>1, <1>2, <2>1, IdsTakenFields
<1>4. t.fileId = manifest.nextTableId
  BY <1>2, TableOfFields
<1>5. \A k \in Keys : t.recs[k].blob = 0 \/ t.recs[k].blob = manifest.nextTableId + 1
  BY <1>2, TableOfBlobs
<1> HIDE DEF t
<1>6. /\ Flushed = {} /\ Flushed' = {t} /\ Live' \subseteq Live \cup {t}
      /\ Rest' \subseteq Rest \cup {t}
  BY <1>1, <1>3 DEF Flushed, Live, Pending, Rest
<1>7. /\ Written(t)
      /\ manifest' \in Manifest /\ manifest.nextTableId < manifest'.nextTableId
      /\ manifest'.manifestId = manifest.manifestId
  BY <1>1, <1>2, <1>6, WriteTableWritten DEF t
<1>8. FileStep
  BY <1>7, WrittenFiles DEF FileInv
<1>9. Apart'
  <2>1. t \notin Live
    BY <1>4, FreshTable
  <2> QED BY <1>1, <1>3, <1>6, <2>1 DEF FileInv, Apart, Live, Pending
<1>10. GcInv'
  <2>1. \A id \in BlobsOf(Rest)' : id \in BlobsOf(Rest) \/ id = manifest.nextTableId + 1
    BY <1>5, <1>6 DEF BlobsOf
  <2>2. manifest.nextTableId <= manifest'.nextTableId
    BY <1>2, <1>7, ManifestFields
  <2> QED BY <1>1, <1>3, <1>7, <2>1, <2>2, GcKept
<1> QED BY <1>8, <1>9, <1>10

\* A flush installs its table.
LEMMA FlushInstallFiles ==
    ASSUME TypeInv, FileInv, FlushInstall
    PROVE  FileStep /\ Apart' /\ GcInv'
<1> DEFINE m == WithTable(flushMem, flushTable)
<1>1. /\ flushPc = "install" /\ Persist(m) /\ flushPc' = "remove"
      /\ gcPc' \in {gcPc, "queued"}
      /\ UNCHANGED <<tableFiles, blobFiles, compNew, gc, tails>>
  BY DEF FlushInstall, ScheduleGc
<1>2. manifest \in Manifest /\ flushMem \in MemTable /\ flushTable \in Table
  BY DEF TypeInv, TypeOK
<1>3. /\ m \in Manifest /\ m.tables = manifest.tables \cup {flushTable}
      /\ m.manifestId = manifest.manifestId /\ m.nextTableId = manifest.nextTableId
  BY <1>2, WithTableFields
<1> HIDE DEF m
<1>4. /\ manifest' \in Manifest /\ manifest'.tables = m.tables
      /\ manifest'.nextTableId = m.nextTableId /\ manifest'.manifestId = m.manifestId + 1
      /\ Persisted(m)
  BY <1>1, <1>3, PersistEffect, PersistedFields
<1>5. /\ Flushed = {flushTable} /\ Flushed' = {} /\ Live' \subseteq Live /\ m.tables \subseteq Live
      /\ Rest' \subseteq Rest
  BY <1>1, <1>3, <1>4 DEF Flushed, Live, Pending, Rest
<1>6. FileStep
  BY <1>1, <1>3, <1>4, <1>5, InstalledFiles DEF FileInv
<1>7. Apart'
  BY <1>1, <1>3, <1>4, <1>5 DEF FileInv, Apart, Pending
<1>8. GcInv'
  BY <1>1, <1>2, <1>3, <1>4, <1>5, GcKeptQuiet, ManifestFields
<1> QED BY <1>6, <1>7, <1>8

\* A flush fails.
LEMMA FlushFailsFiles ==
    ASSUME TypeInv, FileInv, FlushFails
    PROVE  FileStep /\ Apart' /\ GcInv'
<1> DEFINE m == WithTable(flushMem, flushTable)
<1>1. /\ \/ /\ flushPc = "write" /\ WriteTableFails(flushMem.recs, {manifest.nextTableId})
            /\ UNCHANGED disk
         \/ /\ flushPc = "install" /\ PersistFails(m) /\ UNCHANGED <<tableFiles, blobFiles>>
      /\ flushPc' = "idle"
      /\ UNCHANGED <<compVars, gcVars, tails>>
  BY DEF FlushFails
<1>2. /\ manifest \in Manifest /\ disk \in Manifest /\ flushMem \in MemTable
      /\ flushTable \in Table /\ BlobTypes /\ flushMem.recs \in [Keys -> Record]
      /\ manifest.nextTableId \in Nat
  BY MemFields, ManifestFields DEF TypeInv, TypeOK, BlobTypes
<1>3. /\ m \in Manifest /\ m.tables = manifest.tables \cup {flushTable}
      /\ m.manifestId = manifest.manifestId /\ m.nextTableId = manifest.nextTableId
  BY <1>2, WithTableFields
<1> HIDE DEF m
<1>4. Flushed' = {}
  BY <1>1 DEF Flushed
<1>5. CASE flushPc = "write" /\ WriteTableFails(flushMem.recs, {manifest.nextTableId}) /\ UNCHANGED disk
  <2>1. PICK n \in Nat : IdsTaken(n)
    BY <1>2, <1>5, WriteFailsEffect
  <2>2. FilesGrow
    BY <1>2, <1>5, WriteFailsEffect
  <2>3. /\ manifest' \in Manifest /\ manifest'.tables = manifest.tables
        /\ manifest'.manifestId = manifest.manifestId /\ manifest.nextTableId <= manifest'.nextTableId
    BY <1>2, <1>5, <2>1, IdsTakenFields DEF IdsTaken
  <2>4. Live' \subseteq Live /\ Rest' \subseteq Rest /\ Pending' \subseteq Pending
    BY <1>1, <1>4, <2>3 DEF Live, Pending, Rest
  <2>5. FileStep
    BY <1>1, <1>5, <2>1, <2>2, <2>4, AbandonedFiles DEF FileInv
  <2>6. Apart'
    BY <1>1, <1>4, <2>3, <2>4 DEF FileInv, Apart
  <2>7. GcInv'
    BY <1>1, <2>3, <2>4, GcKeptQuiet
  <2> QED BY <2>5, <2>6, <2>7
<1>6. CASE flushPc = "install" /\ PersistFails(m) /\ UNCHANGED <<tableFiles, blobFiles>>
  <2>1. manifest' = manifest /\ disk' \in {disk, m}
    BY <1>6, PersistEffect DEF NotPersisted
  <2>2. Flushed = {flushTable}
    BY <1>6 DEF Flushed
  <2>3. /\ Live' \subseteq Live /\ Rest' \subseteq Rest /\ Pending' \subseteq Pending
        /\ m.tables \subseteq Live
    BY <1>1, <1>3, <1>4, <2>1, <2>2 DEF Live, Pending, Rest
  <2>4. FileStep
    BY <1>1, <1>3, <1>6, <2>1, <2>3, NotInstalledFiles DEF FileInv
  <2>5. Apart'
    BY <1>1, <1>4, <2>1, <2>3 DEF FileInv, Apart
  <2>6. GcInv'
    BY <1>1, <1>2, <2>1, <2>3, GcKeptQuiet
  <2> QED BY <2>4, <2>5, <2>6
<1> QED BY <1>1, <1>5, <1>6

\* Compacted records keep the blob files of the tables they come from.
LEMMA CompactedBlobs ==
    ASSUME TypeInv, NEW k \in Keys
    PROVE  CompactedRecs[k].blob = 0 \/ CompactedRecs[k].blob \in BlobsOf(manifest.tables)
<1> DEFINE maps == {t.recs : t \in compTables}
           newest == NewestRecs(maps)
<1>1. CompactedRecs[k] = NoRecord \/ CompactedRecs[k] = newest[k]
  BY DEF CompactedRecs
<1>2. maps \in SUBSET [Keys -> Record] /\ \A r \in maps : Bounded(r)
  BY CompTablesOK, TableMaps
<1>3. newest[k] = NoRecord \/ \E t \in compTables : newest[k] = t.recs[k]
  <2>1. newest[k] = NewestOf(k, maps)
    BY DEF NewestRecs
  <2>2. NewestOf(k, maps) = NoRecord \/ \E r \in maps : NewestOf(k, maps) = r[k]
    BY <1>2, NewestChoice
  <2> HIDE DEF newest
  <2> QED BY <2>1, <2>2
<1> HIDE DEF newest
<1>4. compTables \subseteq manifest.tables
  BY DEF TypeInv, PhaseInv
<1>5. ASSUME NEW t \in compTables, CompactedRecs[k] = t.recs[k], CompactedRecs[k].blob # 0
      PROVE  CompactedRecs[k].blob \in BlobsOf(manifest.tables)
  BY <1>4, <1>5 DEF BlobsOf
<1> QED BY <1>1, <1>3, <1>5, EmptyTypes

\* A compaction writes its table.
LEMMA CompMergeFiles ==
    ASSUME TypeInv, FileInv, CompMerge
    PROVE  FileStep /\ Apart' /\ GcInv'
<1> DEFINE t == [level |-> 1, fileId |-> manifest.nextTableId, recs |-> CompactedRecs]
<1>1. life # "closing"
  BY DEF TypeInv, PhaseInv
<1>2. /\ compPc = "merge" /\ compPc' = "install"
      /\ \/ compNew' = {} /\ UNCHANGED <<tableFiles, manifest>>
         \/ /\ compNew' = {t} /\ tableFiles' = tableFiles \cup {manifest.nextTableId}
            /\ manifest' = [manifest EXCEPT !.nextTableId = @ + 1]
      /\ UNCHANGED <<disk, blobFiles, flushVars, gcVars, tails>>
  BY <1>1 DEF CompMerge, MergedLevel
<1>3. manifest \in Manifest /\ manifest.nextTableId \in Nat /\ compNew = {}
  BY <1>2, ManifestFields DEF TypeInv, TypeOK, PhaseInv
<1>4. t \in Table /\ t.fileId = manifest.nextTableId /\ t.recs = CompactedRecs
  BY <1>3, CompTablesOK, TableFields
<1> HIDE DEF t
<1>5. Flushed' = Flushed
  BY <1>2 DEF Flushed
<1>6. CASE compNew' = {} /\ UNCHANGED <<tableFiles, manifest>>
  <2>1. Live' = Live /\ Rest' = Rest /\ Pending' = Pending
    BY <1>2, <1>3, <1>5, <1>6 DEF Live, Pending, Rest
  <2>2. FileStep
    BY <1>2, <1>6, <2>1, QuietFiles DEF FileInv
  <2>3. Apart'
    BY <1>2, <1>3, <1>5, <1>6, <2>1 DEF FileInv, Apart
  <2>4. GcInv'
    BY <1>2, <1>3, <1>6, <2>1, GcKeptQuiet
  <2> QED BY <2>2, <2>3, <2>4
<1>7. CASE /\ compNew' = {t} /\ tableFiles' = tableFiles \cup {manifest.nextTableId}
           /\ manifest' = [manifest EXCEPT !.nextTableId = @ + 1]
  <2>1. IdsTaken(manifest.nextTableId + 1) /\ manifest.nextTableId + 1 \in Nat
    BY <1>3, <1>7 DEF IdsTaken
  <2>2. /\ manifest' \in Manifest /\ manifest'.tables = manifest.tables
        /\ manifest'.manifestId = manifest.manifestId
        /\ manifest.nextTableId <= manifest'.nextTableId
    BY <1>2, <1>3, <2>1, IdsTakenFields
  <2>3. FilesGrow
    BY <1>2, <1>7 DEF FilesGrow, HasBlob
  <2>4. Live' \subseteq Live \cup {t} /\ Rest' \subseteq Rest \cup {t} /\ Pending' = Pending \cup {t}
    BY <1>2, <1>3, <1>5, <1>7, <2>2 DEF Live, Pending, Rest
  <2>5. \A k \in Keys : t.recs[k].blob = 0 \/ t.recs[k].blob \in BlobsOf(manifest.tables)
    BY <1>4, CompactedBlobs
  <2>6. Written(t)
    <3>1. \A k \in Keys : t.recs[k].blob = 0 \/ t.recs[k].blob \in BlobsOf(Live)
      BY <2>5 DEF BlobsOf, Live
    <3> QED BY <1>2, <1>4, <1>7, <2>1, <2>3, <2>4, <3>1 DEF Written
  <2>7. FileStep
    BY <2>6, WrittenFiles DEF FileInv
  <2>8. Apart'
    <3>1. t \notin Live
      BY <1>4, FreshTable
    <3> QED BY <1>2, <1>5, <1>7, <2>2, <2>4, <3>1 DEF FileInv, Apart, Live, Pending
  <2>9. GcInv'
    <3>1. \A id \in BlobsOf(Rest)' : id \in BlobsOf(Rest) \/ id = manifest.nextTableId + 1
      BY <2>4, <2>5 DEF BlobsOf, Rest
    <3> QED BY <1>2, <2>2, <3>1, GcKept
  <2> QED BY <2>7, <2>8, <2>9
<1> QED BY <1>2, <1>6, <1>7

\* Tables of other ids than those of these tables.
LEMMA OtherIds ==
    ASSUME TypeInv, IdsInv, NEW old \in SUBSET Live, NEW tables \in SUBSET Live,
           old \cap tables = {}
    PROVE  /\ FileIds(old) \cap FileIds(tables) = {}
           /\ \A id \in FileIds(old) : id < manifest.nextTableId
  BY DEF IdsInv, IdsOK, FileIds

\* A compaction installs its table: nobody needs the tables it replaced.
LEMMA CompInstallFiles ==
    ASSUME TypeInv, FileInv, CompInstall
    PROVE  FileStep /\ Apart' /\ GcInv'
<1> DEFINE job == [tables |-> FileIds(compTables), blobs |-> {}]
<1>1. life # "closing"
  BY DEF TypeInv, PhaseInv
<1>2. /\ compPc = "install" /\ Persist(Compacted) /\ compNew' = {}
      /\ gcPc' \in {gcPc, "queued"}
      /\ tails' = tails \cup {job}
      /\ UNCHANGED <<tableFiles, blobFiles, flushVars, gc>>
  BY <1>1 DEF CompInstall, ScheduleGc
<1>3. manifest \in Manifest /\ compNew \subseteq Table /\ compTables \subseteq manifest.tables
  BY DEF TypeInv, TypeOK, PhaseInv
<1>4. /\ Compacted \in Manifest
      /\ Compacted.tables = (manifest.tables \ compTables) \cup compNew
      /\ Compacted.manifestId = manifest.manifestId /\ Compacted.nextTableId = manifest.nextTableId
  BY <1>3, ReplacedFields
<1>5. /\ manifest' \in Manifest /\ manifest'.tables = Compacted.tables
      /\ manifest'.nextTableId = Compacted.nextTableId
      /\ manifest'.manifestId = Compacted.manifestId + 1 /\ Persisted(Compacted)
  BY <1>2, <1>4, PersistEffect, PersistedFields
<1>6. Flushed' = Flushed
  BY <1>2 DEF Flushed
<1>7. /\ Live' \subseteq Live /\ Rest' \subseteq Rest /\ Compacted.tables \subseteq Live
  BY <1>2, <1>4, <1>5, <1>6 DEF Live, Pending, Rest
<1>8. GoodJob(job, Live')
  <2>1. compTables \cap Live' = {}
    BY <1>2, <1>3, <1>4, <1>5, <1>6 DEF FileInv, Apart, Live, Pending
  <2>2. compTables \subseteq Live
    BY <1>3 DEF Live
  <2> HIDE DEF job
  <2>3. job.tables = FileIds(compTables) /\ job.blobs = {}
    BY DEF job
  <2>4. /\ FileIds(compTables) \cap FileIds(Live') = {}
        /\ \A id \in FileIds(compTables) : id < manifest.nextTableId
    BY <1>7, <2>1, <2>2, OtherIds DEF FileInv
  <2> QED BY <2>3, <2>4 DEF GoodJob, Spares
<1> HIDE DEF job
<1>9. FileStep
  BY <1>2, <1>4, <1>5, <1>7, <1>8, InstalledFiles DEF FileInv
<1>10. Apart'
  BY <1>2, <1>4, <1>5, <1>6 DEF FileInv, Apart, Pending
<1>11. GcInv'
  BY <1>2, <1>3, <1>4, <1>5, <1>7, GcKeptQuiet, ManifestFields
<1> QED BY <1>9, <1>10, <1>11

\* A compaction is abandoned.
LEMMA CompFailsFiles ==
    ASSUME TypeInv, FileInv, CompFails
    PROVE  FileStep /\ Apart' /\ GcInv'
<1>1. /\ \/ /\ compPc = "merge" /\ UNCHANGED disk
            /\ \/ UNCHANGED <<manifest, tableFiles>>
               \/ /\ manifest' = [manifest EXCEPT !.nextTableId = @ + 1]
                  /\ tableFiles' \in {tableFiles, tableFiles \cup {manifest.nextTableId}}
         \/ compPc = "install" /\ PersistFails(Compacted) /\ UNCHANGED tableFiles
      /\ compNew' = {}
      /\ UNCHANGED <<blobFiles, flushVars, gcVars, tails>>
  BY DEF CompFails, CompEnds
<1>2. manifest \in Manifest /\ manifest.nextTableId \in Nat /\ compNew \subseteq Table
  BY ManifestFields DEF TypeInv, TypeOK
<1>3. Flushed' = Flushed
  BY <1>1 DEF Flushed
<1>4. /\ Compacted \in Manifest /\ Compacted.nextTableId = manifest.nextTableId
      /\ Compacted.tables = (manifest.tables \ compTables) \cup compNew
  BY <1>2, ReplacedFields
<1>5. Compacted.tables \subseteq Live
  BY <1>4 DEF Live, Pending
<1>6. ASSUME manifest' \in Manifest, manifest'.tables = manifest.tables,
             manifest'.manifestId = manifest.manifestId,
             manifest.nextTableId <= manifest'.nextTableId
      PROVE  /\ Live' \subseteq Live /\ Apart' /\ GcInv'
  <2>1. Live' \subseteq Live /\ Rest' \subseteq Rest /\ Pending' \subseteq Pending
    BY <1>1, <1>3, <1>6 DEF Live, Pending, Rest
  <2>2. Apart'
    BY <1>1, <1>3, <1>6, <2>1 DEF FileInv, Apart
  <2>3. GcInv'
    BY <1>1, <1>6, <2>1, GcKeptQuiet
  <2> QED BY <2>1, <2>2, <2>3
<1>7. CASE UNCHANGED <<disk, manifest, tableFiles>>
  <2>1. Live' \subseteq Live /\ Apart' /\ GcInv'
    BY <1>2, <1>6, <1>7
  <2> QED BY <1>1, <1>7, <2>1, QuietFiles DEF FileInv
<1>8. CASE /\ UNCHANGED disk /\ manifest' = [manifest EXCEPT !.nextTableId = @ + 1]
           /\ tableFiles' \in {tableFiles, tableFiles \cup {manifest.nextTableId}}
  <2>1. IdsTaken(manifest.nextTableId + 1) /\ manifest.nextTableId + 1 \in Nat
    BY <1>2, <1>8 DEF IdsTaken
  <2>2. /\ manifest' \in Manifest /\ manifest'.tables = manifest.tables
        /\ manifest'.manifestId = manifest.manifestId
        /\ manifest.nextTableId <= manifest'.nextTableId
    BY <1>2, <1>8, <2>1, IdsTakenFields
  <2>3. Live' \subseteq Live /\ Apart' /\ GcInv'
    BY <1>6, <2>2
  <2>4. FilesGrow
    BY <1>1, <1>8 DEF FilesGrow, HasBlob
  <2> QED BY <1>1, <1>8, <2>1, <2>3, <2>4, AbandonedFiles DEF FileInv
<1>9. CASE PersistFails(Compacted) /\ UNCHANGED tableFiles
  <2>1. manifest' = manifest /\ disk' \in {disk, Compacted}
    BY <1>9, PersistEffect DEF NotPersisted
  <2>2. Live' \subseteq Live /\ Apart' /\ GcInv'
    BY <1>2, <1>6, <2>1
  <2> QED BY <1>1, <1>4, <1>5, <1>9, <2>1, <2>2, NotInstalledFiles DEF FileInv
<1> QED BY <1>1, <1>7, <1>8, <1>9

\* A collection starts, or goes on to list the blob files.
LEMMA GcReadFiles ==
    ASSUME TypeInv, FileInv, GcStart \/ GcList
    PROVE  FileStep /\ Apart' /\ GcInv'
<1>1. /\ gcPc \in {"queued", "list"}
      /\ UNCHANGED <<disk, tableFiles, blobFiles, manifest, tails, flushVars, compNew>>
  <2>1. CASE GcStart
    BY <2>1, GcStartEffect
  <2>2. CASE GcList
    BY <2>2 DEF GcList
  <2> QED BY <2>1, <2>2
<1>2. /\ manifest \in Manifest /\ manifest.tables \in SUBSET Table /\ manifest.manifestId \in Nat
      /\ gc \in Collection /\ gc.new = {} /\ NoGc \in Collection /\ NoGc.new = {}
      /\ lastVisible \in Nat
  BY <1>1, CollectionFields, ManifestFields DEF TypeInv, TypeOK, PhaseInv, Collection
<1>3. /\ gc'.new = {}
      /\ gcPc' \in {"list", "write", "commit"} =>
            /\ gc'.manifestId <= manifest'.manifestId
            /\ gc'.manifestId = manifest'.manifestId => gc'.tables = manifest'.tables
  <2>1. CASE GcStart
    <3> DEFINE live == LiveRecs(manifest.tables)
               start == [NoGc EXCEPT !.tables = manifest.tables, !.recs = live,
                                     !.seq = lastVisible, !.manifestId = manifest.manifestId]
    <3>1. \/ gcPc' = "idle" /\ gc' = NoGc
          \/ gcPc' = "list" /\ gc' = start
      BY <2>1, GcStartEffect
    <3>2. \A g \in Collection :
             LET x == [g EXCEPT !.tables = manifest.tables, !.recs = live,
                                !.seq = lastVisible, !.manifestId = manifest.manifestId]
             IN  x.tables = manifest.tables /\ x.manifestId = manifest.manifestId /\ x.new = g.new
      BY DEF Collection
    <3>3. /\ start.tables = manifest.tables /\ start.manifestId = manifest.manifestId
          /\ start.new = {}
      BY <1>2, <3>2
    <3> HIDE DEF start
    <3> QED BY <1>1, <1>2, <3>1, <3>3
  <2>2. CASE GcList
    <3> DEFINE next == [gc EXCEPT !.listed = {b.id : b \in blobFiles},
                                  !.recs = [k \in Keys |-> [gc.recs[k] EXCEPT !.blob = 0]]]
    <3>1. \/ gcPc' = "idle" /\ gc' = NoGc
          \/ gcPc = "list" /\ gcPc' = "write" /\ gc' = next
      BY <2>2 DEF GcList, GcEnds
    <3>2. next.tables = gc.tables /\ next.manifestId = gc.manifestId /\ next.new = gc.new
      BY <1>2 DEF Collection
    <3> HIDE DEF next
    <3> QED BY <1>1, <1>2, <3>1, <3>2 DEF FileInv, GcInv
  <2> QED BY <2>1, <2>2
<1>4. Flushed' = Flushed
  BY <1>1 DEF Flushed
<1>5. Live' = Live /\ Pending' = Pending
  BY <1>1, <1>2, <1>3, <1>4 DEF Live, Pending
<1>6. FileStep
  BY <1>1, <1>5, QuietFiles DEF FileInv
<1>7. Apart'
  BY <1>1, <1>2, <1>3, <1>4, <1>5 DEF FileInv, Apart
<1>8. GcInv'
  <2>1. GcBlobs' = {} /\ BlobsOf(gc.new)' = {}
    BY <1>3 DEF GcBlobs, BlobsOf
  <2> QED BY <1>3, <2>1 DEF GcInv
<1> QED BY <1>6, <1>7, <1>8

\* A collection writes its table.
LEMMA GcWriteFiles ==
    ASSUME TypeInv, FileInv, GcWrite
    PROVE  FileStep /\ Apart' /\ GcInv'
<1> DEFINE t == TableOf(1, gc.recs)
           next == [gc EXCEPT !.new = {t}]
<1>1. /\ gcPc = "write" /\ gcPc' = "commit"
      /\ \/ UNCHANGED <<tableFiles, blobFiles, manifest, gc>>
         \/ WriteTable(gc.recs) /\ gc' = next
      /\ UNCHANGED <<disk, flushVars, compVars, tails>>
  BY DEF GcWrite
<1>2. /\ gc \in Collection /\ gc.recs \in [Keys -> Record]
      /\ manifest \in Manifest /\ manifest.nextTableId \in Nat /\ t \in Table
      /\ gc.new = {} /\ \A k \in Keys : gc.recs[k].blob = 0
  BY <1>1, GcRecsFields DEF TypeInv, PhaseInv, RecsInv
<1>3. /\ t.fileId = manifest.nextTableId
      /\ \A k \in Keys : t.recs[k].big <=> gc.recs[k].big
      /\ \A k \in Keys : \/ t.recs[k].blob = 0
                         \/ t.recs[k].blob = manifest.nextTableId + 1 /\ BigValues(gc.recs) # 0
  BY <1>2, TableOfFields, TableOfBlobs
<1> HIDE DEF t
<1>4. next \in Collection /\ next.tables = gc.tables /\ next.manifestId = gc.manifestId /\ next.new = {t}
  BY <1>2 DEF Collection
<1> HIDE DEF next
<1>5. Flushed' = Flushed
  BY <1>1 DEF Flushed
<1>6. CASE UNCHANGED <<tableFiles, blobFiles, manifest, gc>>
  <2>1. Live' = Live /\ Rest' = Rest /\ Pending' = Pending
    BY <1>1, <1>5, <1>6 DEF Live, Pending, Rest
  <2>2. FileStep
    BY <1>1, <1>6, <2>1, QuietFiles DEF FileInv
  <2>3. Apart'
    BY <1>1, <1>5, <1>6, <2>1 DEF FileInv, Apart
  <2>4. GcInv'
    <3>1. GcBlobs' = {} /\ BlobsOf(gc.new)' = {}
      BY <1>2, <1>6 DEF GcBlobs, BlobsOf
    <3> QED BY <1>1, <1>6, <3>1 DEF FileInv, GcInv
  <2> QED BY <2>2, <2>3, <2>4
<1>7. CASE WriteTable(gc.recs) /\ gc' = next
  <2>1. gc'.tables = gc.tables /\ gc'.manifestId = gc.manifestId /\ gc'.new = {t}
    BY <1>4, <1>7
  <2>2. manifest'.tables = manifest.tables
    <3>1. PICK n \in Nat : IdsTaken(n)
      BY <1>2, <1>7, WriteEffect DEF TypeInv, TypeOK, BlobTypes
    <3> QED BY <1>1, <1>2, <3>1, IdsTakenFields
  <2>3. /\ Live' \subseteq Live \cup {t} /\ Rest' = Rest
        /\ Pending' = Pending \cup {t}
    BY <1>1, <1>2, <1>5, <2>1, <2>2 DEF Live, Pending, Rest
  <2>4. /\ Written(t)
        /\ manifest' \in Manifest /\ manifest.nextTableId < manifest'.nextTableId
        /\ manifest'.manifestId = manifest.manifestId
        /\ BigValues(gc.recs) # 0 => manifest.nextTableId + 1 < manifest'.nextTableId
    BY <1>1, <1>2, <1>7, <2>3, WriteTableWritten DEF t
  <2>5. FileStep
    BY <2>4, WrittenFiles DEF FileInv
  <2>6. Apart'
    <3>1. t \notin Live
      BY <1>3, FreshTable
    <3> QED BY <1>1, <1>2, <1>5, <2>1, <2>2, <2>3, <3>1 DEF FileInv, Apart, Live, Pending
  <2>7. BigValues(t.recs) # 0 <=> BigValues(gc.recs) # 0
    BY <1>3, BigCount
  <2>8. GcBlobs' = IF BigValues(gc.recs) # 0 THEN {manifest.nextTableId + 1} ELSE {}
    <3>1. BigValues(t.recs)' = BigValues(t.recs)' /\ GcBlobs' = {u.fileId + 1 : u \in {v \in gc'.new : BigValues(v.recs) # 0}}
      BY DEF GcBlobs, BigValues
    <3> QED BY <1>3, <2>1, <2>7, <3>1
  <2>9. BlobsOf(gc.new)' \subseteq GcBlobs'
    BY <1>3, <2>1, <2>8 DEF BlobsOf
  <2>10. GcBlobs' \cap BlobsOf(Rest)' = {}
    <3>1. \A id \in BlobsOf(Rest) : id \in Nat /\ id < manifest.nextTableId
      BY LiveTables DEF FileInv, IdsInv, IdsOK, BlobsOf, Rest, Live, Pending
    <3>2. BlobsOf(Rest)' = BlobsOf(Rest)
      BY <2>3 DEF BlobsOf
    <3> QED BY <1>2, <2>8, <3>1, <3>2
  <2>11. /\ gc'.manifestId <= manifest'.manifestId
         /\ gc'.manifestId = manifest'.manifestId => gc'.tables = manifest'.tables
    BY <1>1, <2>1, <2>2, <2>4 DEF FileInv, GcInv
  <2>12. GcInv'
    BY <2>4, <2>8, <2>9, <2>10, <2>11 DEF GcInv, Rest
  <2> QED BY <2>5, <2>6, <2>12
<1> QED BY <1>1, <1>6, <1>7

\* The files of a rewrite that is not committed are nobody else's.
LEMMA UncommittedSpares ==
    ASSUME TypeInv, FileInv, NEW tables, tables \subseteq Rest
    PROVE  GoodJob(Uncommitted, tables)
<1>1. Uncommitted.tables = FileIds(gc.new) /\ Uncommitted.blobs = GcBlobs
  BY DEF Uncommitted
<1>2. gc.new \subseteq Live /\ tables \subseteq Live /\ gc.new \cap tables = {}
  BY DEF FileInv, Apart, Live, Pending, Rest
<1>3. /\ FileIds(gc.new) \cap FileIds(tables) = {}
      /\ \A id \in FileIds(gc.new) : id < manifest.nextTableId
  BY <1>2, OtherIds DEF FileInv
<1>4. GcBlobs \cap BlobsOf(tables) = {}
  BY DEF FileInv, GcInv, BlobsOf, Rest
<1> QED BY <1>1, <1>3, <1>4 DEF GoodJob, Spares

\* When nothing moved, the collector has all the tables there are.
LEMMA StableFacts ==
    ASSUME TypeInv, FileInv, gcPc = "commit", GcStable
    PROVE  /\ Rest = manifest.tables /\ gc.tables = manifest.tables
           /\ Flushed = {} /\ compNew = {} /\ Live = manifest.tables \cup gc.new
<1>1. immutables = <<>> /\ compPc = "idle" /\ gc.manifestId = manifest.manifestId
  BY DEF GcStable, GcMayRun
<1>2. flushPc # "install" /\ compNew = {}
  BY <1>1 DEF TypeInv, PhaseInv
<1>3. gc.tables = manifest.tables
  BY <1>1 DEF FileInv, GcInv
<1> QED BY <1>2, <1>3 DEF Rest, Flushed, Live, Pending

\* A collection commits: the tables and blob files it deletes are those it replaced.
LEMMA GcCommitFiles ==
    ASSUME TypeInv, FileInv, GcCommit
    PROVE  FileStep /\ Apart' /\ GcInv'
<1> DEFINE done == [tables |-> FileIds(gc.tables), blobs |-> gc.listed \ GcBlobs]
<1>1. /\ gcPc = "commit"
      /\ \/ GcStable /\ Persist(Collected) /\ tails' = tails \cup {done}
         \/ /\ tails' = tails \/ tails' = tails \cup {Uncommitted}
            /\ UNCHANGED <<disk, manifest>>
      /\ gcPc' = "idle" /\ gc' = NoGc
      /\ UNCHANGED <<tableFiles, blobFiles, flushVars, compVars>>
  BY DEF GcCommit, GcEnds
<1>2. Flushed' = Flushed /\ gc'.new = {}
  BY <1>1, CollectionFields DEF Flushed
<1>3. GcInv'
  BY <1>1, GcOver
<1>4. done.tables = FileIds(gc.tables) /\ done.blobs = gc.listed \ GcBlobs
  OBVIOUS
<1> HIDE DEF done
<1>5. manifest \in Manifest /\ disk \in Manifest
  BY DEF TypeInv, TypeOK
<1>6. /\ Collected \in Manifest /\ Collected.tables = (manifest.tables \ gc.tables) \cup gc.new
      /\ Collected.nextTableId = manifest.nextTableId
  BY GcRecsFields, ReplacedFields
<1>7. CASE GcStable /\ Persist(Collected) /\ tails' = tails \cup {done}
  <2>1. /\ gc.tables = manifest.tables /\ Flushed = {} /\ compNew = {}
        /\ Live = manifest.tables \cup gc.new
    BY <1>1, <1>7, StableFacts
  <2>2. Persisted(Collected) /\ manifest'.tables = Collected.tables
    BY <1>6, <1>7, PersistEffect, PersistedFields
  <2>3. Collected.tables = gc.new /\ Live' = gc.new /\ Pending' = {}
    BY <1>1, <1>2, <1>6, <2>1, <2>2 DEF Live, Pending
  <2>4. GoodJob(done, Live')
    <3>1. gc.tables \cap gc.new = {} /\ gc.tables \subseteq Live /\ gc.new \subseteq Live
      BY <2>1 DEF FileInv, Apart, Pending
    <3>2. /\ FileIds(gc.tables) \cap FileIds(gc.new) = {}
          /\ \A id \in FileIds(gc.tables) : id < manifest.nextTableId
      BY <3>1, OtherIds DEF FileInv
    <3>3. BlobsOf(gc.new) \subseteq GcBlobs
      BY DEF FileInv, GcInv
    <3> QED BY <1>4, <2>3, <3>2, <3>3 DEF GoodJob, Spares
  <2>5. FileStep
    BY <1>1, <1>6, <1>7, <2>1, <2>2, <2>3, <2>4, InstalledFiles DEF FileInv
  <2>6. Apart'
    BY <1>1, <1>2, <2>1, <2>3 DEF Apart
  <2> QED BY <1>3, <2>5, <2>6
<1>8. CASE (tails' = tails \/ tails' = tails \cup {Uncommitted}) /\ UNCHANGED <<disk, manifest>>
  <2>1. Live' \subseteq Live /\ Live' \subseteq Rest /\ Pending' \subseteq Pending
    BY <1>1, <1>2, <1>8 DEF Live, Pending, Rest
  <2>2. GoodJob(Uncommitted, Live')
    BY <2>1, UncommittedSpares
  <2>3. manifest.tables \subseteq Live
    BY DEF Live
  <2>4. FileStep
    BY <1>1, <1>5, <1>8, <2>1, <2>2, <2>3, NotInstalledFiles DEF FileInv
  <2>5. Apart'
    BY <1>1, <1>2, <1>8, <2>1 DEF FileInv, Apart
  <2> QED BY <1>3, <2>4, <2>5
<1> QED BY <1>1, <1>7, <1>8

\* A collection fails.
LEMMA GcFailsFiles ==
    ASSUME TypeInv, FileInv, GcFails
    PROVE  FileStep /\ Apart' /\ GcInv'
<1>1. /\ \/ gcPc = "write" /\ WriteTableFails(gc.recs, {}) /\ UNCHANGED <<disk, tails>>
         \/ /\ gcPc = "commit" /\ PersistFails(Collected) /\ UNCHANGED <<tableFiles, blobFiles>>
            /\ tails' = tails \/ tails' = tails \cup {Uncommitted}
      /\ gcPc' = "idle" /\ gc' = NoGc
      /\ UNCHANGED <<flushVars, compVars>>
  BY DEF GcFails, GcEnds
<1>2. Flushed' = Flushed /\ gc'.new = {}
  BY <1>1, CollectionFields DEF Flushed
<1>3. GcInv'
  BY <1>1, GcOver
<1>4. manifest \in Manifest /\ BlobTypes /\ gc.recs \in [Keys -> Record] /\ disk \in Manifest
  BY GcRecsFields
<1>5. ASSUME manifest'.tables = manifest.tables
      PROVE  Live' \subseteq Live /\ Live' \subseteq Rest /\ Apart'
  <2>1. Live' \subseteq Live /\ Live' \subseteq Rest /\ Pending' \subseteq Pending
    BY <1>1, <1>2, <1>5 DEF Live, Pending, Rest
  <2>2. Apart'
    BY <1>1, <1>2, <1>5, <2>1 DEF FileInv, Apart
  <2> QED BY <2>1, <2>2
<1>6. CASE gcPc = "write" /\ WriteTableFails(gc.recs, {}) /\ UNCHANGED <<disk, tails>>
  <2>1. PICK n \in Nat : IdsTaken(n)
    BY <1>4, <1>6, WriteFailsEffect
  <2>2. FilesGrow
    BY <1>4, <1>6, WriteFailsEffect
  <2>3. manifest'.tables = manifest.tables
    BY <1>4, <1>6, <2>1, IdsTakenFields
  <2>4. Live' \subseteq Live /\ Apart'
    BY <1>5, <2>3
  <2> QED BY <1>3, <1>6, <2>1, <2>2, <2>4, AbandonedFiles DEF FileInv
<1>7. CASE /\ gcPc = "commit" /\ PersistFails(Collected) /\ UNCHANGED <<tableFiles, blobFiles>>
           /\ tails' = tails \/ tails' = tails \cup {Uncommitted}
  <2>1. manifest' = manifest /\ disk' \in {disk, Collected}
    BY <1>7, PersistEffect DEF NotPersisted
  <2>2. Live' \subseteq Live /\ Live' \subseteq Rest /\ Apart'
    BY <1>5, <2>1
  <2>3. GoodJob(Uncommitted, Live')
    BY <2>2, UncommittedSpares
  <2>4. /\ Collected \in Manifest /\ Collected.tables \subseteq Live
        /\ Collected.nextTableId = manifest.nextTableId
    BY GcRecsFields, ReplacedFields DEF Live, Pending
  <2> QED BY <1>3, <1>7, <2>1, <2>2, <2>3, <2>4, NotInstalledFiles DEF FileInv
<1> QED BY <1>1, <1>6, <1>7

\* Deleting files, crashing, opening.
LEMMA OtherFiles ==
    ASSUME TypeInv, FileInv, TailStep \/ Crash \/ Open
    PROVE  FileStep /\ Apart' /\ GcInv'
<1>1. CASE TailStep
  <2>1. PICK job \in tails : DeleteFiles(job)
    BY <1>1 DEF TailStep
  <2>2. UNCHANGED <<manifest, flushVars, compVars, gcVars>>
    BY <2>1 DEF DeleteFiles
  <2>3. Live' = Live /\ Pending' = Pending /\ Rest' = Rest /\ Flushed' = Flushed
    BY <2>2 DEF Live, Pending, Rest, Flushed
  <2>4. FileStep
    BY <2>1, DeletedFiles DEF FileInv
  <2>5. Apart'
    BY <2>2, <2>3 DEF FileInv, Apart
  <2>6. manifest' \in Manifest /\ manifest.nextTableId <= manifest'.nextTableId
    BY <2>2, ManifestFields DEF TypeInv, TypeOK
  <2>7. GcInv'
    BY <2>2, <2>3, <2>6, GcKeptQuiet
  <2> QED BY <2>4, <2>5, <2>7
<1>2. CASE Crash
  <2>1. FileStep /\ Pending' = {} /\ Flushed' = {} /\ compNew' = {} /\ gc' = NoGc
    BY <1>2, CrashFiles DEF FileInv
  <2>2. gcPc' = "idle"
    BY <1>2 DEF Crash, ForgetState, GcEnds
  <2>3. GcInv'
    BY <2>1, <2>2, GcOver
  <2>4. Apart'
    BY <2>1 DEF Apart
  <2> QED BY <2>1, <2>3, <2>4
<1>3. CASE Open
  <2>1. FileStep /\ Pending = {} /\ Pending' = {} /\ Flushed' = {}
    BY <1>3, OpenFiles DEF FileInv
  <2>2. /\ life = "closed" /\ UNCHANGED <<gcVars, compNew>>
    BY <1>3 DEF Open
  <2>3. gcPc = "idle" /\ gc = NoGc
    BY <2>2 DEF TypeInv, PhaseInv
  <2>4. GcInv'
    BY <2>2, <2>3, GcOver
  <2>5. Apart'
    <3>1. compNew = {}
      BY <2>1 DEF Pending
    <3> QED BY <2>1, <2>2, <3>1 DEF Apart
  <2> QED BY <2>1, <2>4, <2>5
<1> QED BY <1>1, <1>2, <1>3

-----------------------------------------------------------------------------
(* The theorems.                                                           *)

IInv == TypeInv /\ FileInv

\* The empty database.
LEMMA InitInv == Init => IInv /\ FilesInv
<1> SUFFICES ASSUME Init PROVE IInv /\ FilesInv
  OBVIOUS
<1>1. /\ EmptyMem \in MemTable /\ EmptyMem.recs = NoRecords /\ NoTable \in Table
      /\ NewManifest \in Manifest /\ NewManifest.tables = {}
      /\ NoGc \in Collection /\ NoGc.new = {} /\ NoGc.recs = NoRecords
      /\ MemRecsOK(NoRecords) /\ RecsOK(NoRecords)
  BY EmptyTypes, EmptyRecs, CollectionFields DEF MemRecsOK
<1>2. (CHOOSE k \in Keys : TRUE) \in Keys /\ (CHOOSE x \in Kinds : TRUE) \in Kinds
  BY TablesKeysAssumption
<1>3. req \in [Writers -> Operation]
  <2> DEFINE op == [seq |-> 0, key |-> CHOOSE k \in Keys : TRUE, kind |-> CHOOSE x \in Kinds : TRUE]
  <2>1. op \in Operation
    BY <1>2 DEF Operation
  <2>2. req \in [Writers -> {op}]
    BY DEF Init
  <2> HIDE DEF op
  <2> QED BY <2>1, <2>2
<1>4. TypeOK
  <2>1. /\ disk \in Manifest /\ manifest \in Manifest /\ mutable \in MemTable
        /\ flushMem \in MemTable /\ flushTable \in Table /\ closeMem \in MemTable
        /\ closeTable \in Table /\ gc \in Collection
    BY <1>1 DEF Init
  <2>2. immutables \in Seq(MemTable) /\ pc \in [Writers -> {"idle", "encode"}]
    BY DEF Init
  <2> QED BY <1>3, <2>1, <2>2 DEF Init, TypeOK, Collection
<1>5. PhaseInv
  BY <1>1 DEF Init, PhaseInv
<1>6. Live = {} /\ Pending = {} /\ Flushed = {} /\ disk.tables = {} /\ tails = {}
  BY <1>1 DEF Init, Live, Pending, Flushed
<1>7. RecsInv
  <2>1. IsFiniteSet(log) /\ log = {}
    BY FS_EmptySet DEF Init
  <2>2. DOMAIN immutables = {} /\ \A w \in Writers : pc[w] # "encode"
    BY DEF Init
  <2>3. nextSequence # 0 /\ mutable = EmptyMem /\ gc = NoGc /\ gcPc = "idle"
    BY DEF Init
  <2> QED BY <1>1, <1>6, <2>1, <2>2, <2>3 DEF RecsInv
<1>8. IdsInv /\ Apart
  BY <1>1, <1>6 DEF Init, IdsInv, IdsOK, Apart
<1>9. GcInv
  <2>1. gc.new = {} /\ gcPc = "idle"
    BY <1>1 DEF Init
  <2>2. GcBlobs = {} /\ BlobsOf(gc.new) = {}
    BY <2>1 DEF GcBlobs, BlobsOf
  <2> QED BY <2>1, <2>2 DEF GcInv
<1>10. FilesInv
  BY <1>6 DEF FilesInv
<1> QED BY <1>4, <1>5, <1>7, <1>8, <1>9, <1>10 DEF IInv, TypeInv, FileInv

\* Types, phases and records are kept by every step.
LEMMA TypesKept ==
    ASSUME TypeInv, IdsInv, [Next]_vars
    PROVE  TypeInv'
<1>1. CASE \E w \in Writers, k \in Keys, kind \in Kinds : BeginWrite(w, k, kind)
  BY <1>1, BeginWriteTypes
<1>2. CASE \E w \in Writers : ApplyWrite(w)
  BY <1>2, ApplyWriteTypes
<1>3. CASE FlushStep
  BY <1>3, FlushPickTypes, FlushWriteTypes, FlushInstallTypes, FlushFailsTypes,
     FlushRemoveTypes DEF FlushStep
<1>4. CASE CompStep
  BY <1>4, CompStartTypes, CompMergeTypes, CompInstallTypes, CompFailsTypes DEF CompStep
<1>5. CASE GcStep
  BY <1>5, GcStartTypes, GcListTypes, GcWriteTypes, GcCommitTypes, GcFailsTypes DEF GcStep
<1>6. CASE TailStep
  BY <1>6, DeleteFilesTypes DEF TailStep
<1>7. CASE Crash
  BY <1>7, CrashTypes
<1>8. CASE Open
  BY <1>8, OpenTypes
<1>9. CASE UNCHANGED vars
  <2>1. TypeOK'
    BY <1>9 DEF vars, TypeInv, TypeOK
  <2>2. PhaseInv'
    BY <1>9 DEF vars, TypeInv, PhaseInv, Saved
  <2>3. RecsInv'
    BY <1>9 DEF vars, TypeInv, RecsInv, Live, Pending, Flushed
  <2> QED BY <2>1, <2>2, <2>3 DEF TypeInv
<1> QED BY <1>1, <1>2, <1>3, <1>4, <1>5, <1>6, <1>7, <1>8, <1>9 DEF Next

\* So is what is known about files.
LEMMA FilesKept ==
    ASSUME TypeInv, FileInv, [Next]_vars
    PROVE  FileInv' /\ (FilesInv /\ DeletesOldBlobs => FilesInv')
<1>1. FileStep /\ Apart' /\ GcInv'
  <2>1. CASE \E w \in Writers, k \in Keys, kind \in Kinds : BeginWrite(w, k, kind)
    BY <2>1, WriteStepsFiles
  <2>2. CASE \E w \in Writers : ApplyWrite(w)
    BY <2>2, WriteStepsFiles
  <2>3. CASE FlushStep
    BY <2>3, WriteStepsFiles, FlushWriteFiles, FlushInstallFiles, FlushFailsFiles DEF FlushStep
  <2>4. CASE CompStep
    BY <2>4, WriteStepsFiles, CompMergeFiles, CompInstallFiles, CompFailsFiles DEF CompStep
  <2>5. CASE GcStep
    BY <2>5, GcReadFiles, GcWriteFiles, GcCommitFiles, GcFailsFiles DEF GcStep
  <2>6. CASE TailStep \/ Crash \/ Open
    BY <2>6, OtherFiles
  <2>7. CASE UNCHANGED vars
    <3>1. /\ UNCHANGED <<disk, tableFiles, blobFiles, manifest, tails, gcVars, compNew>>
          /\ Live' = Live /\ Pending' = Pending /\ Flushed' = Flushed /\ Rest' = Rest
      BY <2>7 DEF vars, Live, Pending, Flushed, Rest
    <3>2. FileStep
      BY <3>1, QuietFiles DEF FileInv
    <3>3. Apart'
      BY <3>1 DEF FileInv, Apart
    <3>4. manifest' \in Manifest /\ manifest.nextTableId <= manifest'.nextTableId
      BY <3>1, ManifestFields DEF TypeInv, TypeOK
    <3>5. GcInv'
      BY <3>1, <3>4, GcKeptQuiet
    <3> QED BY <3>2, <3>3, <3>5
  <2> QED BY <2>1, <2>2, <2>3, <2>4, <2>5, <2>6, <2>7 DEF Next
<1> QED BY <1>1 DEF FileInv, FileStep

\* The invariant of every behaviour.
LEMMA InvAlways == Spec => []IInv
<1>1. Init => IInv
  BY InitInv
<1>2. IInv /\ [Next]_vars => IInv'
  BY TypesKept, FilesKept DEF IInv, FileInv
<1> QED BY <1>1, <1>2, PTL DEF Spec

\* The whole state keeps its types: whatever writers, flushes, compactions, blob
\* collections, failed I/O calls, crashes and replays do to it, and in any order.
THEOREM TypeCorrect == Spec => []TypeOK
<1>1. IInv => TypeOK
  BY DEF IInv, TypeInv
<1> QED BY <1>1, InvAlways, PTL

\* Under the condition on orphan blob files, what is known about files holds.
LEMMA FilesAlways == Spec /\ []DeletesOldBlobs => []FilesInv
<1>1. Init => FilesInv
  BY InitInv
<1>2. IInv /\ FilesInv /\ DeletesOldBlobs /\ [Next]_vars => FilesInv'
  BY FilesKept DEF IInv
<1> QED BY <1>1, <1>2, InvAlways, PTL DEF Spec

\* As long as no job deletes a blob file whose id will be handed out again, every table
\* the manifest on disk lists exists, with the blob files its records refer to: no
\* flush, compaction, collection or deletion, in any order and failing anywhere,
\* keeps open() from succeeding.
THEOREM FilesExist == Spec /\ []DeletesOldBlobs => []ManifestFilesExist
<1>1. FilesInv => ManifestFilesExist
  BY DEF FilesInv, Exists, ManifestFilesExist
<1> QED BY <1>1, FilesAlways, PTL

-----------------------------------------------------------------------------
(* Two conditions under which DeletesOldBlobs always holds: nothing has    *)
(* crashed yet, or there are no big values.                                *)

\* Blob ids in use, listed or to be deleted are below the next one to hand out.
OldIds == /\ \A b \in blobFiles : b.id < manifest.nextTableId
          /\ \A id \in gc.listed : id < manifest.nextTableId
          /\ DeletesOldBlobs

\* A process that has not crashed started without blob files.
OldInv == crashes = 0 => OldIds /\ (life = "closed" => blobFiles = {})

\* A step may hand out ids, write files of those ids, list files and give up listed ones.
LEMMA OldKept ==
    ASSUME TypeInv, OldIds, manifest'.nextTableId \in Nat,
           manifest.nextTableId <= manifest'.nextTableId,
           \A b \in blobFiles' : b \in blobFiles \/ b.id < manifest'.nextTableId,
           \A id \in gc'.listed : id \in gc.listed \/ \E b \in blobFiles : b.id = id,
           \A job \in tails' : \/ job \in tails
                               \/ \A id \in job.blobs : id \in gc.listed \/ id < manifest'.nextTableId
    PROVE  OldIds'
<1>1. /\ manifest.nextTableId \in Nat /\ \A b \in blobFiles : b.id \in Nat
      /\ \A id \in gc.listed : id \in Nat
      /\ \A job \in tails : \A id \in job.blobs : id \in Nat
  BY ManifestFields, CollectionFields DEF TypeInv, TypeOK, Collection
<1>2. \A b \in blobFiles' : b.id < manifest'.nextTableId
  BY <1>1 DEF OldIds
<1>3. \A id \in gc'.listed : id < manifest'.nextTableId
  BY <1>1 DEF OldIds
<1>4. \A job \in tails' : \A id \in job.blobs : id < manifest'.nextTableId
  BY <1>1 DEF OldIds, DeletesOldBlobs
<1> QED BY <1>2, <1>3, <1>4 DEF OldIds, DeletesOldBlobs

\* writeTableFile_, failing or not, writes the blob file of an id it has taken.
LEMMA WriteIds ==
    ASSUME manifest \in Manifest, disk' = disk, NEW recs \in [Keys -> Record], TakeIdsFor(recs),
           blobFiles' \in {blobFiles, WithBlobs(recs)}
    PROVE  /\ manifest'.nextTableId \in Nat /\ manifest.nextTableId <= manifest'.nextTableId
           /\ \A b \in blobFiles' : b \in blobFiles \/ b.id < manifest'.nextTableId
<1>1. PICK n \in Nat : IdsTaken(n) /\ (BigValues(recs) # 0 => manifest.nextTableId + 1 < n)
  BY IdsEffect
<1>2. manifest'.nextTableId = n /\ manifest.nextTableId \in Nat /\ manifest.nextTableId < n
  BY <1>1, IdsTakenFields, ManifestFields DEF IdsTaken
<1>3. \A b \in WithBlobs(recs) : \/ b \in blobFiles
                                 \/ b.id = manifest.nextTableId + 1 /\ BigValues(recs) # 0
  BY DEF WithBlobs
<1> QED BY <1>1, <1>2, <1>3

\* A persisted manifest, or one that is not, has the ids it had.
LEMMA PersistIds ==
    ASSUME NEW m \in Manifest, manifest \in Manifest, m.nextTableId = manifest.nextTableId,
           Persist(m) \/ PersistFails(m)
    PROVE  manifest'.nextTableId = manifest.nextTableId
<1>1. CASE Persist(m)
  BY <1>1, PersistEffect, PersistedFields
<1>2. CASE PersistFails(m)
  BY <1>2, PersistEffect DEF NotPersisted
<1> QED BY <1>1, <1>2

\* One id is taken, or none.
LEMMA OneIdTaken ==
    ASSUME manifest \in Manifest, disk' = disk,
           manifest' = manifest \/ manifest' = [manifest EXCEPT !.nextTableId = @ + 1]
    PROVE  /\ manifest'.nextTableId \in Nat /\ manifest.nextTableId <= manifest'.nextTableId
           /\ manifest'.tables = manifest.tables
<1>1. /\ manifest.nextTableId \in Nat /\ manifest.nextTableId + 1 \in Nat
      /\ manifest.nextTableId < manifest.nextTableId + 1
  BY ManifestFields
<1>2. CASE manifest' = manifest
  BY <1>1, <1>2
<1>3. CASE manifest' = [manifest EXCEPT !.nextTableId = @ + 1]
  <2>1. IdsTaken(manifest.nextTableId + 1)
    BY <1>1, <1>3 DEF IdsTaken
  <2> QED BY <1>1, <2>1, IdsTakenFields
<1> QED BY <1>2, <1>3

\* The steps of flushes and compactions.
LEMMA WriteJobsOld ==
    ASSUME TypeInv, OldIds, FlushStep \/ CompStep
    PROVE  OldIds'
<1>1. /\ manifest \in Manifest /\ manifest.nextTableId \in Nat
      /\ flushMem \in MemTable /\ flushTable \in Table /\ compNew \in SUBSET Table
  BY ManifestFields DEF TypeInv, TypeOK
<1>2. flushMem.recs \in [Keys -> Record]
  BY <1>1 DEF MemTable
<1>3. /\ WithTable(flushMem, flushTable) \in Manifest
      /\ WithTable(flushMem, flushTable).nextTableId = manifest.nextTableId
  BY <1>1, WithTableFields
<1>4. Compacted \in Manifest /\ Compacted.nextTableId = manifest.nextTableId
  BY <1>1, ReplacedFields
<1>5. CASE FlushPick \/ FlushRemove \/ CompStart
  <2>1. manifest' = manifest /\ blobFiles' = blobFiles /\ gc' = gc /\ tails' = tails
    BY <1>5 DEF FlushPick, FlushRemove, CompStart
  <2> QED BY <1>1, <2>1, OldKept
<1>6. CASE FlushWrite
  <2>1. TakeIdsFor(flushMem.recs) /\ blobFiles' = WithBlobs(flushMem.recs) /\ disk' = disk
    BY <1>6 DEF FlushWrite, WriteTable
  <2>2. gc' = gc /\ tails' = tails
    BY <1>6 DEF FlushWrite
  <2> QED BY <1>1, <1>2, <2>1, <2>2, WriteIds, OldKept
<1>7. CASE FlushInstall
  <2>1. Persist(WithTable(flushMem, flushTable)) /\ blobFiles' = blobFiles
        /\ gc' = gc /\ tails' = tails
    BY <1>7 DEF FlushInstall
  <2> QED BY <1>1, <1>3, <2>1, PersistIds, OldKept
<1>8. CASE FlushFails
  <2>1. gc' = gc /\ tails' = tails
    BY <1>8 DEF FlushFails
  <2>2. CASE WriteTableFails(flushMem.recs, {manifest.nextTableId}) /\ disk' = disk
    <3>1. TakeIdsFor(flushMem.recs) /\ blobFiles' \in {blobFiles, WithBlobs(flushMem.recs)}
      BY <2>2 DEF WriteTableFails
    <3> QED BY <1>1, <1>2, <2>1, <2>2, <3>1, WriteIds, OldKept
  <2>3. CASE PersistFails(WithTable(flushMem, flushTable)) /\ blobFiles' = blobFiles
    BY <1>1, <1>3, <2>1, <2>3, PersistIds, OldKept
  <2> QED BY <1>8, <2>2, <2>3 DEF FlushFails
<1>9. CASE CompMerge
  <2>1. blobFiles' = blobFiles /\ gc' = gc /\ tails' = tails
    BY <1>9 DEF CompMerge
  <2>2. /\ disk' = disk
        /\ manifest' = manifest \/ manifest' = [manifest EXCEPT !.nextTableId = @ + 1]
    BY <1>9 DEF CompMerge
  <2>3. manifest'.nextTableId \in Nat /\ manifest.nextTableId <= manifest'.nextTableId
    BY <1>1, <2>2, OneIdTaken
  <2> QED BY <2>1, <2>3, OldKept
<1>10. CASE CompInstall
  <2>1. life # "closing"
    BY DEF TypeInv, PhaseInv
  <2>2. /\ Persist(Compacted) /\ blobFiles' = blobFiles /\ gc' = gc
        /\ tails' = tails \cup {[tables |-> FileIds(compTables), blobs |-> {}]}
    BY <1>10, <2>1 DEF CompInstall
  <2>3. \A job \in tails' : job \in tails \/ job.blobs = {}
    BY <2>2
  <2> QED BY <1>1, <1>4, <2>2, <2>3, PersistIds, OldKept
<1>11. CASE CompFails
  <2>1. blobFiles' = blobFiles /\ gc' = gc /\ tails' = tails
    BY <1>11 DEF CompFails
  <2>2. \/ /\ disk' = disk
           /\ manifest' = manifest \/ manifest' = [manifest EXCEPT !.nextTableId = @ + 1]
        \/ PersistFails(Compacted)
    BY <1>11 DEF CompFails
  <2>3. manifest'.nextTableId \in Nat /\ manifest.nextTableId <= manifest'.nextTableId
    <3>1. CASE PersistFails(Compacted)
      BY <1>1, <1>4, <3>1, PersistIds
    <3>2. CASE /\ disk' = disk
               /\ manifest' = manifest \/ manifest' = [manifest EXCEPT !.nextTableId = @ + 1]
      BY <1>1, <3>2, OneIdTaken
    <3> QED BY <2>2, <3>1, <3>2
  <2> QED BY <2>1, <2>3, OldKept
<1> QED BY <1>5, <1>6, <1>7, <1>8, <1>9, <1>10, <1>11 DEF FlushStep, CompStep

\* Those of a collection: it deletes files it listed, or the one it wrote.
LEMMA GcOld ==
    ASSUME TypeInv, FileInv, OldIds, GcStep
    PROVE  OldIds'
<1>1. /\ manifest \in Manifest /\ manifest.nextTableId \in Nat
      /\ gc \in Collection /\ gc.recs \in [Keys -> Record]
      /\ gc.new \in SUBSET Table
  BY GcRecsFields
<1>2. Collected \in Manifest /\ Collected.nextTableId = manifest.nextTableId
  BY <1>1, ReplacedFields
<1>3. NoGc.listed = {}
  BY DEF NoGc
<1>4. Uncommitted.blobs = GcBlobs /\ \A id \in GcBlobs : id < manifest.nextTableId
  BY DEF Uncommitted, FileInv, GcInv
<1>5. CASE GcStart
  <2>1. manifest' = manifest /\ blobFiles' = blobFiles /\ tails' = tails
    BY <1>5 DEF GcStart
  <2>2. gc'.listed = {}
    <3>1. ASSUME gc' = [NoGc EXCEPT !.tables = manifest.tables, !.recs = LiveRecs(manifest.tables),
                                    !.seq = lastVisible, !.manifestId = manifest.manifestId]
          PROVE  gc'.listed = {}
      BY <3>1 DEF NoGc
    <3> QED BY <1>3, <1>5, <3>1, GcStartEffect
  <2> QED BY <1>1, <2>1, <2>2, OldKept
<1>6. CASE GcList
  <2>1. manifest' = manifest /\ blobFiles' = blobFiles /\ tails' = tails
    BY <1>6 DEF GcList
  <2>2. gc'.listed \in {{}, {b.id : b \in blobFiles}}
    <3> DEFINE new == [k \in Keys |-> [gc.recs[k] EXCEPT !.blob = 0]]
               ids == {b.id : b \in blobFiles}
    <3>1. gc' = NoGc \/ gc' = [gc EXCEPT !.listed = ids, !.recs = new]
      BY <1>6 DEF GcList, GcEnds
    <3> HIDE DEF new, ids
    <3>2. gc'.listed \in {{}, ids}
      BY <1>1, <1>3, <3>1 DEF Collection
    <3> QED BY <3>2 DEF ids
  <2>3. \A id \in gc'.listed : \E b \in blobFiles : b.id = id
    BY <2>2
  <2> QED BY <1>1, <2>1, <2>3, OldKept
<1>7. CASE GcWrite
  <2>1. disk' = disk /\ tails' = tails
    BY <1>7 DEF GcWrite
  <2>2. \/ UNCHANGED <<blobFiles, manifest, gc>>
        \/ WriteTable(gc.recs) /\ gc' = [gc EXCEPT !.new = {TableOf(1, gc.recs)}]
    BY <1>7 DEF GcWrite
  <2>3. gc'.listed = gc.listed
    <3> DEFINE new == {TableOf(1, gc.recs)}
    <3>1. gc' = gc \/ gc' = [gc EXCEPT !.new = new]
      BY <2>2
    <3> HIDE DEF new
    <3> QED BY <1>1, <3>1 DEF Collection
  <2>4. CASE UNCHANGED <<blobFiles, manifest, gc>>
    BY <1>1, <2>1, <2>4, OldKept
  <2>5. CASE WriteTable(gc.recs)
    <3>1. TakeIdsFor(gc.recs) /\ blobFiles' = WithBlobs(gc.recs)
      BY <2>5 DEF WriteTable
    <3> QED BY <1>1, <2>1, <2>3, <3>1, WriteIds, OldKept
  <2> QED BY <2>2, <2>4, <2>5
<1>8. CASE GcCommit
  <2> DEFINE done == [tables |-> FileIds(gc.tables), blobs |-> gc.listed \ GcBlobs]
  <2>1. /\ gc' = NoGc /\ blobFiles' = blobFiles
        /\ \/ Persist(Collected) /\ tails' = tails \cup {done}
           \/ manifest' = manifest /\ tails' \in {tails, tails \cup {Uncommitted}}
    BY <1>8 DEF GcCommit, GcEnds
  <2>2. done.blobs \subseteq gc.listed
    OBVIOUS
  <2> HIDE DEF done
  <2>3. manifest'.nextTableId = manifest.nextTableId
    BY <1>1, <1>2, <2>1, PersistIds
  <2>4. \A job \in tails' : \/ job \in tails
                            \/ \A id \in job.blobs : id \in gc.listed \/ id < manifest'.nextTableId
    BY <1>4, <2>1, <2>2, <2>3
  <2> QED BY <1>1, <1>3, <2>1, <2>3, <2>4, OldKept
<1>9. CASE GcFails
  <2>1. gc' = NoGc
    BY <1>9 DEF GcFails, GcEnds
  <2>2. CASE WriteTableFails(gc.recs, {}) /\ disk' = disk /\ tails' = tails
    <3>1. TakeIdsFor(gc.recs) /\ blobFiles' \in {blobFiles, WithBlobs(gc.recs)}
      BY <2>2 DEF WriteTableFails
    <3> QED BY <1>1, <1>3, <2>1, <2>2, <3>1, WriteIds, OldKept
  <2>3. CASE /\ PersistFails(Collected) /\ blobFiles' = blobFiles
             /\ tails' \in {tails, tails \cup {Uncommitted}}
    <3>1. manifest'.nextTableId = manifest.nextTableId
      BY <1>1, <1>2, <2>3, PersistIds
    <3>2. \A job \in tails' : job \in tails \/ \A id \in job.blobs : id < manifest'.nextTableId
      BY <1>4, <2>3, <3>1
    <3> QED BY <1>1, <1>3, <2>1, <2>3, <3>1, <3>2, OldKept
  <2> QED BY <1>9, <2>2, <2>3 DEF GcFails
<1> QED BY <1>5, <1>6, <1>7, <1>8, <1>9 DEF GcStep

\* Without a crash no blob file is an orphan of an earlier life.
LEMMA OldInvKept ==
    ASSUME IInv, OldInv, [Next]_vars
    PROVE  OldInv'
<1>1. /\ TypeInv /\ FileInv /\ manifest.nextTableId \in Nat /\ crashes \in Nat
      /\ life \in {"open", "closed"}
  BY ManifestFields DEF IInv, TypeInv, TypeOK, PhaseInv
<1>2. CASE Crash
  BY <1>1, <1>2 DEF OldInv, Crash
<1>3. CASE Open
  <2>1. /\ life = "closed" /\ life' = "open" /\ manifest' = disk /\ blobFiles' = blobFiles
        /\ gc' = gc /\ tails' = tails /\ crashes' = crashes
    BY <1>1, <1>3, OpenEffect DEF FileInv
  <2>2. gc.listed = {} /\ tails = {}
    BY <1>1, <2>1 DEF TypeInv, PhaseInv, NoGc
  <2> QED BY <2>1, <2>2 DEF OldInv, OldIds, DeletesOldBlobs
<1>4. CASE \/ \E w \in Writers, k \in Keys, kind \in Kinds : BeginWrite(w, k, kind)
           \/ \E w \in Writers : ApplyWrite(w)
           \/ TailStep
           \/ UNCHANGED vars
  <2>1. /\ manifest' = manifest /\ gc' = gc /\ life' = life /\ crashes' = crashes
        /\ blobFiles' \subseteq blobFiles /\ tails' \subseteq tails
    <3>1. ASSUME NEW w \in Writers, NEW k \in Keys, NEW kind \in Kinds, BeginWrite(w, k, kind)
          PROVE  <2>1!:
      BY <3>1 DEF BeginWrite
    <3>2. ASSUME NEW w \in Writers, ApplyWrite(w)
          PROVE  <2>1!:
      BY <3>2 DEF ApplyWrite
    <3>3. ASSUME NEW job \in tails, DeleteFiles(job)
          PROVE  <2>1!:
      BY <3>3 DEF DeleteFiles
    <3>4. CASE UNCHANGED vars
      BY <3>4 DEF vars
    <3> QED BY <1>4, <3>1, <3>2, <3>3, <3>4 DEF TailStep
  <2> QED BY <1>1, <2>1, OldKept DEF OldInv
<1>5. CASE FlushStep \/ CompStep \/ GcStep
  <2>1. life # "closed" /\ life' = life /\ crashes' = crashes
    <3>1. CASE FlushStep
      BY <1>1, <3>1 DEF TypeInv, PhaseInv, FlushStep, FlushPick, FlushWrite, FlushInstall,
                        FlushFails, FlushRemove
    <3>2. CASE CompStep
      BY <1>1, <3>2 DEF TypeInv, PhaseInv, CompStep, CompStart, CompMerge, CompInstall, CompFails
    <3>3. CASE GcStep
      BY <1>1, <3>3 DEF TypeInv, PhaseInv, GcStep, GcStart, GcList, GcWrite, GcCommit, GcFails
    <3> QED BY <1>5, <3>1, <3>2, <3>3
  <2>2. OldIds => OldIds'
    BY <1>1, <1>5, WriteJobsOld, GcOld
  <2> QED BY <2>1, <2>2 DEF OldInv
<1> QED BY <1>2, <1>3, <1>4, <1>5 DEF Next

\* Crashes are only counted.
LEMMA CrashCount ==
    ASSUME crashes \in Nat, [Next]_vars, crashes' = 0
    PROVE  crashes = 0
<1>1. CASE Crash
  BY <1>1 DEF Crash
<1>2. ASSUME NEW w \in Writers, NEW k \in Keys, NEW kind \in Kinds, BeginWrite(w, k, kind)
      PROVE  crashes' = crashes
  BY <1>2 DEF BeginWrite
<1>3. ASSUME NEW w \in Writers, ApplyWrite(w) PROVE crashes' = crashes
  BY <1>3 DEF ApplyWrite
<1>4. ASSUME NEW job \in tails, DeleteFiles(job) PROVE crashes' = crashes
  BY <1>4 DEF DeleteFiles
<1>5. CASE Open
  BY <1>5 DEF Open
<1>6. ASSUME FlushStep PROVE crashes' = crashes
  BY <1>6 DEF FlushStep, FlushPick, FlushWrite, FlushInstall, FlushFails, FlushRemove
<1>7. ASSUME CompStep PROVE crashes' = crashes
  BY <1>7 DEF CompStep, CompStart, CompMerge, CompInstall, CompFails
<1>8. ASSUME GcStep PROVE crashes' = crashes
  BY <1>8 DEF GcStep, GcStart, GcList, GcWrite, GcCommit, GcFails
<1>9. CASE UNCHANGED vars
  BY <1>9 DEF vars
<1> QED BY <1>1, <1>2, <1>3, <1>4, <1>5, <1>6, <1>7, <1>8, <1>9 DEF Next, TailStep

\* Until the first crash the files are safe.
SafeUntilCrash == crashes = 0 => FilesInv /\ DeletesOldBlobs

\* So the invariants say.
LEMMA OldAlways == Spec => []SafeUntilCrash
<1>1. Init => OldInv /\ SafeUntilCrash
  <2> SUFFICES ASSUME Init PROVE OldInv /\ SafeUntilCrash
    OBVIOUS
  <2>1. blobFiles = {} /\ gc.listed = {} /\ tails = {}
    BY DEF Init, NoGc
  <2> QED BY <2>1, InitInv DEF OldInv, OldIds, DeletesOldBlobs, SafeUntilCrash
<1>2. IInv /\ OldInv /\ [Next]_vars => OldInv'
  BY OldInvKept
<1>3. IInv /\ OldInv /\ SafeUntilCrash /\ OldInv' /\ [Next]_vars => SafeUntilCrash'
  <2> SUFFICES ASSUME IInv, OldInv, SafeUntilCrash, OldInv', [Next]_vars, crashes' = 0
               PROVE  FilesInv' /\ DeletesOldBlobs'
    BY DEF SafeUntilCrash
  <2>1. crashes \in Nat
    BY DEF IInv, TypeInv, TypeOK
  <2>2. crashes = 0
    BY <2>1, CrashCount
  <2>3. FilesInv'
    BY <2>2, FilesKept DEF IInv, SafeUntilCrash
  <2> QED BY <2>3 DEF OldInv, OldIds
<1> QED BY <1>1, <1>2, <1>3, InvAlways, PTL DEF Spec

\* Until the process dies for the first time, every table the manifest on disk lists is
\* there with its blob files, whatever flushes, compactions and collections do in any
\* order, and whichever of their I/O calls fail: the deletions they queue take only
\* files that no manifest names any more.
THEOREM FilesExistUntilCrash == Spec => [](crashes = 0 => ManifestFilesExist)
<1>1. SafeUntilCrash => (crashes = 0 => ManifestFilesExist)
  BY DEF SafeUntilCrash, FilesInv, Exists, ManifestFilesExist
<1> QED BY <1>1, OldAlways, PTL

\* No record needs a blob file.
Small(recs) == \A k \in Keys : ~recs[k].big

\* The records of tables and collections, in memory, in blob files.
SmallTables == Small(gc.recs) /\ \A t \in disk.tables \cup Live : Small(t.recs)
SmallMems   == Small(mutable.recs) /\ \A i \in DOMAIN immutables : Small(immutables[i].recs)
NoBlobs     == blobFiles = {} /\ gc.listed = {} /\ \A job \in tails : job.blobs = {}
SmallInv    == SmallTables /\ SmallMems /\ NoBlobs

\* Writing small records writes no blob file, and moves no table.
LEMMA SmallWrite ==
    ASSUME manifest \in Manifest, disk' = disk, NEW recs \in [Keys -> Record], Small(recs),
           TakeIdsFor(recs), blobFiles' \in {blobFiles, WithBlobs(recs)}
    PROVE  /\ blobFiles' = blobFiles /\ manifest'.tables = manifest.tables
           /\ \A level \in {0, 1} : Small(TableOf(level, recs).recs)
<1>1. BigValues(recs) = 0
  BY BigCount DEF Small
<1>2. PICK n \in Nat : IdsTaken(n)
  BY IdsEffect
<1>3. manifest'.tables = manifest.tables
  BY <1>2, IdsTakenFields
<1>4. ASSUME NEW level \in {0, 1} PROVE Small(TableOf(level, recs).recs)
  BY TableOfFields DEF Small
<1>5. WithBlobs(recs) = blobFiles
  BY <1>1 DEF WithBlobs
<1> QED BY <1>3, <1>4, <1>5

\* Merging small records leaves small records.
LEMMA SmallMerge ==
    ASSUME NEW tables \in SUBSET Table, \A t \in tables : TableRecsOK(t.recs) /\ Small(t.recs)
    PROVE  Small(NewestRecs({t.recs : t \in tables}))
<1> DEFINE maps == {t.recs : t \in tables}
<1>1. maps \in SUBSET [Keys -> Record] /\ \A r \in maps : Bounded(r) /\ Small(r)
  BY TableMaps
<1> HIDE DEF maps
<1>2. \A k \in Keys : NewestRecs(maps)[k] = NewestOf(k, maps)
  BY <1>1, NewestTypes
<1>3. ASSUME NEW k \in Keys PROVE ~NewestOf(k, maps).big
  <2>1. NewestOf(k, maps) = NoRecord \/ \E r \in maps : NewestOf(k, maps) = r[k]
    BY <1>1, NewestChoice
  <2> QED BY <1>1, <2>1, EmptyTypes DEF Small
<1>4. Small(NewestRecs(maps))
  BY <1>2, <1>3 DEF Small
<1> QED BY <1>4 DEF maps

\* So do compactions and collections.
LEMMA SmallRewrites ==
    ASSUME TypeInv, SmallTables
    PROVE  Small(CompactedRecs) /\ Small(LiveRecs(manifest.tables))
<1>1. /\ compTables \in SUBSET Table /\ manifest.tables \in SUBSET Table
      /\ compTables \subseteq manifest.tables
      /\ \A t \in manifest.tables : TableRecsOK(t.recs) /\ Small(t.recs)
  BY ManifestFields DEF TypeInv, TypeOK, PhaseInv, RecsInv, SmallTables, Live
<1>2. ~NoRecord.big
  BY EmptyTypes
<1>3. Small(CompactedRecs)
  <2> DEFINE newest == NewestRecs({t.recs : t \in compTables})
  <2>1. CompactedRecs = [k \in Keys |-> IF compDrop /\ newest[k].del THEN NoRecord ELSE newest[k]]
    BY DEF CompactedRecs
  <2>2. Small(newest)
    BY <1>1, SmallMerge
  <2> HIDE DEF newest
  <2> QED BY <1>2, <2>1, <2>2 DEF Small
<1>4. Small(LiveRecs(manifest.tables))
  <2> DEFINE newest == NewestRecs({t.recs : t \in manifest.tables})
  <2>1. LiveRecs(manifest.tables) = [k \in Keys |-> IF newest[k].del THEN NoRecord ELSE newest[k]]
    BY DEF LiveRecs
  <2>2. Small(newest)
    BY <1>1, SmallMerge
  <2> HIDE DEF newest
  <2> QED BY <1>2, <2>1, <2>2 DEF Small
<1> QED BY <1>3, <1>4

\* Steps that bring no table but small ones.
LEMMA SmallTablesKept ==
    ASSUME SmallTables, Small(gc'.recs),
           \A t \in disk'.tables \cup manifest'.tables \cup Flushed' \cup compNew' \cup gc'.new :
              t \in disk.tables \cup Live \/ Small(t.recs)
    PROVE  SmallTables'
<1>1. \A t \in disk'.tables \cup Live' : Small(t.recs)
  BY DEF SmallTables, Live, Pending
<1> QED BY <1>1 DEF SmallTables

\* Writes: an operation of these kinds is small.
LEMMA SmallApplied ==
    ASSUME "blob" \notin Kinds, TypeInv, SmallInv, NEW w \in Writers, ApplyWrite(w)
    PROVE  SmallInv'
<1> DEFINE op   == req[w]
           mem  == Applied(mutable, op)
           full == mem.ops >= MemTableOps /\ ~IsEmptyMem(mem)
<1>1. /\ mutable' = IF full THEN EmptyMem ELSE mem
      /\ immutables' = IF full THEN Append(immutables, mem) ELSE immutables
      /\ flushPc' = IF full /\ flushPc = "idle" THEN "queued" ELSE flushPc
      /\ UNCHANGED <<disk, blobFiles, manifest, flushTable, compNew, gc, tails>>
  BY DEF ApplyWrite
<1>2. op \in Operation /\ mutable \in MemTable /\ immutables \in Seq(MemTable)
  BY DEF TypeInv, TypeOK
<1> HIDE DEF op
<1>3. op.key \in Keys /\ RecordOf(op) \in Record /\ ~RecordOf(op).big
  BY <1>2, OperationFields
<1>4. mem \in MemTable /\ Small(mem.recs)
  <2>1. mem \in MemTable /\ mutable.recs \in [Keys -> Record]
    BY <1>2, AppliedEffect, MemFields
  <2>2. \/ mem.recs = mutable.recs
        \/ mem.recs = [mutable.recs EXCEPT ![op.key] = RecordOf(op)]
    BY <1>2, AppliedEffect
  <2> QED BY <1>3, <2>1, <2>2 DEF SmallInv, SmallMems, Small
<1>5. Small(EmptyMem.recs)
  BY EmptyTypes DEF Small
<1> HIDE DEF mem, full
<1>6. SmallMems'
  <2>1. \A i \in DOMAIN immutables' : \/ immutables'[i] = mem
                                      \/ i \in DOMAIN immutables /\ immutables'[i] = immutables[i]
    BY <1>1, <1>2, <1>4, AppendElements, SeqElements
  <2>2. Small(mutable'.recs)
    BY <1>1, <1>4, <1>5 DEF SmallInv, SmallMems
  <2> QED BY <1>4, <2>1, <2>2 DEF SmallInv, SmallMems
<1>7. SmallTables'
  <2>1. Flushed' = Flushed
    BY <1>1 DEF Flushed
  <2> QED BY <1>1, <2>1 DEF SmallInv, SmallTables, Live, Pending
<1> QED BY <1>1, <1>6, <1>7 DEF SmallInv, NoBlobs

\* Flushes.
LEMMA SmallFlush ==
    ASSUME TypeInv, SmallInv, FlushStep
    PROVE  SmallInv'
<1>1. /\ manifest \in Manifest /\ immutables \in Seq(MemTable) /\ mutable \in MemTable
      /\ flushMem \in MemTable /\ flushTable \in Table
  BY DEF TypeInv, TypeOK
<1>2. flushPc = "write" => flushMem.recs \in [Keys -> Record] /\ Small(flushMem.recs)
  <2> SUFFICES ASSUME flushPc = "write"
               PROVE  flushMem.recs \in [Keys -> Record] /\ Small(flushMem.recs)
    OBVIOUS
  <2>1. immutables # <<>> /\ flushMem = Head(immutables)
    BY DEF TypeInv, PhaseInv
  <2> QED BY <1>1, <2>1, TailElements, MemFields DEF SmallInv, SmallMems
<1>3. WithTable(flushMem, flushTable).tables = manifest.tables \cup {flushTable}
      /\ WithTable(flushMem, flushTable) \in Manifest
  BY <1>1, WithTableFields
<1>4. compNew' = compNew /\ gc' = gc /\ tails' = tails /\ mutable' = mutable
  BY DEF FlushStep, FlushPick, FlushWrite, FlushInstall, FlushFails, FlushRemove
<1>5. SmallMems'
  <2>1. immutables' = immutables \/ (immutables # <<>> /\ immutables' = Tail(immutables))
    BY DEF FlushStep, FlushPick, FlushWrite, FlushInstall, FlushFails, FlushRemove
  <2>2. \A i \in DOMAIN immutables' : \E j \in DOMAIN immutables : immutables'[i] = immutables[j]
    BY <1>1, <2>1, TailElements
  <2> QED BY <1>4, <2>2 DEF SmallInv, SmallMems
<1>6. /\ disk.tables \subseteq disk.tables \cup Live /\ manifest.tables \subseteq Live
      /\ Flushed \subseteq Live /\ compNew \subseteq Live /\ gc.new \subseteq Live
      /\ Small(gc'.recs)
  BY <1>4 DEF Live, Pending, SmallInv, SmallTables
<1>7. CASE FlushPick \/ FlushRemove
  <2>1. manifest' = manifest /\ disk' = disk /\ blobFiles' = blobFiles /\ Flushed' = {}
    BY <1>7 DEF FlushPick, FlushRemove, Flushed
  <2>2. SmallTables'
    BY <1>4, <1>6, <2>1, SmallTablesKept DEF SmallInv
  <2> QED BY <1>4, <1>5, <2>1, <2>2 DEF SmallInv, NoBlobs
<1>8. CASE FlushWrite
  <2>1. /\ flushPc = "write" /\ TakeIdsFor(flushMem.recs) /\ blobFiles' = WithBlobs(flushMem.recs)
        /\ flushPc' = "install" /\ flushTable' = TableOf(0, flushMem.recs) /\ disk' = disk
    BY <1>8 DEF FlushWrite, WriteTable
  <2>2. blobFiles' = blobFiles /\ manifest'.tables = manifest.tables /\ Small(flushTable'.recs)
    BY <1>1, <1>2, <2>1, SmallWrite
  <2>3. Flushed' = {flushTable'}
    BY <2>1 DEF Flushed
  <2>4. SmallTables'
    BY <1>4, <1>6, <2>1, <2>2, <2>3, SmallTablesKept DEF SmallInv
  <2> QED BY <1>4, <1>5, <2>2, <2>4 DEF SmallInv, NoBlobs
<1>9. CASE FlushInstall \/ (FlushFails /\ flushPc = "install")
  <2>1. /\ \/ Persist(WithTable(flushMem, flushTable)) \/ PersistFails(WithTable(flushMem, flushTable))
        /\ flushPc = "install" /\ flushPc' # "install" /\ blobFiles' = blobFiles
    BY <1>9 DEF FlushInstall, FlushFails
  <2>2. /\ disk'.tables \subseteq disk.tables \cup manifest.tables \cup {flushTable}
        /\ manifest'.tables \subseteq manifest.tables \cup {flushTable}
    BY <1>3, <2>1, PersistEffect, PersistedFields DEF NotPersisted
  <2>3. Flushed = {flushTable} /\ Flushed' = {}
    BY <2>1 DEF Flushed
  <2>4. SmallTables'
    BY <1>4, <1>6, <2>2, <2>3, SmallTablesKept DEF SmallInv
  <2> QED BY <1>4, <1>5, <2>1, <2>4 DEF SmallInv, NoBlobs
<1>10. CASE FlushFails /\ flushPc # "install"
  <2>1. /\ flushPc = "write" /\ WriteTableFails(flushMem.recs, {manifest.nextTableId})
        /\ flushPc' = "idle" /\ disk' = disk
    BY <1>10 DEF FlushFails
  <2>2. TakeIdsFor(flushMem.recs) /\ blobFiles' \in {blobFiles, WithBlobs(flushMem.recs)}
    BY <2>1 DEF WriteTableFails
  <2>3. blobFiles' = blobFiles /\ manifest'.tables = manifest.tables
    BY <1>1, <1>2, <2>1, <2>2, SmallWrite
  <2>4. Flushed' = {}
    BY <2>1 DEF Flushed
  <2>5. SmallTables'
    BY <1>4, <1>6, <2>1, <2>3, <2>4, SmallTablesKept DEF SmallInv
  <2> QED BY <1>4, <1>5, <2>3, <2>5 DEF SmallInv, NoBlobs
<1> QED BY <1>7, <1>8, <1>9, <1>10 DEF FlushStep

\* Compactions.
LEMMA SmallComp ==
    ASSUME TypeInv, SmallInv, CompStep
    PROVE  SmallInv'
<1>1. /\ manifest \in Manifest /\ manifest.nextTableId \in Nat /\ compNew \in SUBSET Table
      /\ life # "closing"
  BY ManifestFields DEF TypeInv, TypeOK, PhaseInv
<1>2. /\ UNCHANGED <<blobFiles, gc, mutable, immutables, flushPc, flushTable>>
      /\ \A job \in tails' : job \in tails \/ job.blobs = {}
  BY <1>1 DEF CompStep, CompStart, CompMerge, CompInstall, CompFails
<1>3. SmallMems' /\ NoBlobs'
  BY <1>2 DEF SmallInv, SmallMems, NoBlobs
<1>4. Flushed' = Flushed
  BY <1>2 DEF Flushed
<1>5. /\ manifest.tables \subseteq Live /\ Flushed \subseteq Live /\ compNew \subseteq Live
      /\ gc.new \subseteq Live /\ Small(gc'.recs)
  BY <1>2 DEF Live, Pending, SmallInv, SmallTables
<1>6. /\ Compacted \in Manifest
      /\ Compacted.tables = (manifest.tables \ compTables) \cup compNew
  BY <1>1, ReplacedFields
<1>7. CASE CompStart
  <2>1. manifest' = manifest /\ disk' = disk /\ compNew' = compNew
    BY <1>1, <1>7 DEF CompStart
  <2> QED BY <1>2, <1>3, <1>4, <1>5, <2>1, SmallTablesKept DEF SmallInv
<1>8. CASE CompMerge
  <2>1. /\ disk' = disk
        /\ \/ compNew' = {} /\ manifest' = manifest
           \/ /\ compNew' = {[level |-> MergedLevel(compTables), fileId |-> manifest.nextTableId,
                              recs |-> CompactedRecs]}
              /\ manifest' = [manifest EXCEPT !.nextTableId = @ + 1]
    BY <1>1, <1>8 DEF CompMerge
  <2>2. manifest'.tables = manifest.tables
    BY <1>1, <2>1, OneIdTaken
  <2>3. \A t \in compNew' : Small(t.recs)
    BY <2>1, SmallRewrites DEF SmallInv
  <2> QED BY <1>2, <1>3, <1>4, <1>5, <2>1, <2>2, <2>3, SmallTablesKept DEF SmallInv
<1>9. CASE CompInstall \/ CompFails
  <2>1. /\ compNew' = {}
        /\ \/ Persist(Compacted) \/ PersistFails(Compacted)
           \/ /\ disk' = disk
              /\ manifest' = manifest \/ manifest' = [manifest EXCEPT !.nextTableId = @ + 1]
    BY <1>1, <1>9 DEF CompInstall, CompFails, CompEnds
  <2>2. /\ manifest'.tables \subseteq manifest.tables \cup compNew
        /\ disk'.tables \subseteq disk.tables \cup manifest.tables \cup compNew
    <3>1. CASE Persist(Compacted)
      BY <1>6, <3>1, PersistEffect, PersistedFields
    <3>2. CASE PersistFails(Compacted)
      BY <1>6, <3>2, PersistEffect DEF NotPersisted
    <3>3. CASE /\ disk' = disk
               /\ manifest' = manifest \/ manifest' = [manifest EXCEPT !.nextTableId = @ + 1]
      BY <1>1, <3>3, OneIdTaken
    <3> QED BY <2>1, <3>1, <3>2, <3>3
  <2> QED BY <1>2, <1>3, <1>4, <1>5, <2>1, <2>2, SmallTablesKept DEF SmallInv
<1> QED BY <1>3, <1>7, <1>8, <1>9 DEF CompStep, SmallInv

\* Collections: there is nothing to collect, and nothing to delete but tables.
LEMMA SmallGc ==
    ASSUME TypeInv, SmallInv, GcStep
    PROVE  SmallInv'
<1>1. /\ manifest \in Manifest /\ gc \in Collection /\ gc.recs \in [Keys -> Record]
      /\ RecsOK(gc.recs) /\ gc.new \in SUBSET Table
  BY GcRecsFields
<1>2. /\ UNCHANGED <<mutable, immutables, flushPc, flushTable, compNew>>
  BY DEF GcStep, GcStart, GcList, GcWrite, GcCommit, GcFails
<1>3. SmallMems' /\ Flushed' = Flushed
  BY <1>2 DEF SmallInv, SmallMems, Flushed
<1>4. /\ manifest.tables \subseteq Live /\ Flushed \subseteq Live /\ compNew \subseteq Live
      /\ gc.new \subseteq Live /\ Small(gc.recs) /\ \A t \in gc.new : Small(t.recs)
  BY DEF Live, Pending, SmallInv, SmallTables
<1>5. /\ NoGc.recs = NoRecords /\ NoGc.new = {} /\ NoGc.listed = {} /\ Small(NoRecords)
  BY EmptyTypes DEF NoGc, Small
<1>6. Collected \in Manifest /\ Collected.tables = (manifest.tables \ gc.tables) \cup gc.new
  BY <1>1, ReplacedFields
<1>7. Uncommitted.blobs = {}
  <2>1. \A t \in gc.new : BigValues(t.recs) = 0
    BY <1>4, BigCount DEF Small
  <2> QED BY <2>1 DEF Uncommitted, GcBlobs
<1>8. CASE GcStart
  <2>1. UNCHANGED <<manifest, disk, blobFiles, tails>>
    BY <1>8 DEF GcStart
  <2>2. gc'.listed = {} /\ gc'.new = {} /\ Small(gc'.recs)
    <3>1. ASSUME gc' = [NoGc EXCEPT !.tables = manifest.tables, !.recs = LiveRecs(manifest.tables),
                                    !.seq = lastVisible, !.manifestId = manifest.manifestId]
          PROVE  gc'.listed = {} /\ gc'.new = {} /\ gc'.recs = LiveRecs(manifest.tables)
      BY <3>1 DEF NoGc
    <3> QED BY <1>5, <1>8, <3>1, GcStartEffect, SmallRewrites DEF SmallInv
  <2>3. SmallTables'
    BY <1>2, <1>3, <1>4, <2>1, <2>2, SmallTablesKept DEF SmallInv
  <2> QED BY <1>3, <2>1, <2>2, <2>3 DEF SmallInv, NoBlobs
<1>9. CASE GcList
  <2> DEFINE new == [k \in Keys |-> [gc.recs[k] EXCEPT !.blob = 0]]
             ids == {b.id : b \in blobFiles}
  <2>1. UNCHANGED <<manifest, disk, blobFiles, tails>>
    BY <1>9 DEF GcList
  <2>2. gc' = NoGc \/ gc' = [gc EXCEPT !.listed = ids, !.recs = new]
    BY <1>9 DEF GcList, GcEnds
  <2>3. ids = {}
    BY DEF SmallInv, NoBlobs
  <2>4. new = [k \in Keys |-> [gc.recs[k] EXCEPT !.blob = 0]]
    OBVIOUS
  <2> HIDE DEF new, ids
  <2>5. Small(new)
    BY <1>1, <1>4, <2>4, InlinedOK DEF Small
  <2>6. gc'.listed = {} /\ Small(gc'.recs) /\ gc'.new \subseteq gc.new
    BY <1>1, <1>5, <2>2, <2>3, <2>5 DEF Collection
  <2>7. SmallTables'
    BY <1>2, <1>3, <1>4, <2>1, <2>6, SmallTablesKept DEF SmallInv
  <2> QED BY <1>3, <2>1, <2>6, <2>7 DEF SmallInv, NoBlobs
<1>10. CASE GcWrite
  <2> DEFINE new == TableOf(1, gc.recs)
  <2>1. /\ UNCHANGED <<disk, tails>>
        /\ \/ UNCHANGED <<blobFiles, manifest, gc>>
           \/ WriteTable(gc.recs) /\ gc' = [gc EXCEPT !.new = {new}]
    BY <1>10 DEF GcWrite
  <2>2. WriteTable(gc.recs) =>
           blobFiles' = blobFiles /\ manifest'.tables = manifest.tables /\ Small(new.recs)
    BY <1>1, <1>4, <2>1, SmallWrite DEF WriteTable
  <2> HIDE DEF new
  <2>3. /\ gc'.listed = gc.listed /\ gc'.recs = gc.recs
        /\ \A t \in gc'.new : t \in gc.new \/ Small(t.recs)
    BY <1>1, <2>1, <2>2 DEF Collection
  <2>4. blobFiles' = blobFiles /\ manifest'.tables = manifest.tables
    BY <2>1, <2>2
  <2>5. SmallTables'
    BY <1>2, <1>3, <1>4, <2>1, <2>3, <2>4, SmallTablesKept DEF SmallInv
  <2> QED BY <1>3, <2>1, <2>3, <2>4, <2>5 DEF SmallInv, NoBlobs
<1>11. CASE GcCommit \/ GcFails
  <2> DEFINE done == [tables |-> FileIds(gc.tables), blobs |-> gc.listed \ GcBlobs]
  <2>1. /\ gc' = NoGc
        /\ tails' \in {tails, tails \cup {done}, tails \cup {Uncommitted}}
        /\ \/ /\ blobFiles' = blobFiles
              /\ \/ Persist(Collected) \/ PersistFails(Collected)
                 \/ manifest' = manifest /\ disk' = disk
           \/ WriteTableFails(gc.recs, {}) /\ disk' = disk
    BY <1>11 DEF GcCommit, GcFails, GcEnds
  <2>2. done.blobs = {}
    BY DEF SmallInv, NoBlobs
  <2> HIDE DEF done
  <2>3. \A job \in tails' : job.blobs = {}
    BY <1>7, <2>1, <2>2 DEF SmallInv, NoBlobs
  <2>4. /\ blobFiles' = blobFiles
        /\ manifest'.tables \subseteq manifest.tables \cup gc.new
        /\ disk'.tables \subseteq disk.tables \cup manifest.tables \cup gc.new
    <3>1. CASE blobFiles' = blobFiles /\ Persist(Collected)
      BY <1>6, <3>1, PersistEffect, PersistedFields
    <3>2. CASE blobFiles' = blobFiles /\ PersistFails(Collected)
      BY <1>6, <3>2, PersistEffect DEF NotPersisted
    <3>3. CASE blobFiles' = blobFiles /\ manifest' = manifest /\ disk' = disk
      BY <3>3
    <3>4. CASE WriteTableFails(gc.recs, {}) /\ disk' = disk
      BY <1>1, <1>4, <3>4, SmallWrite DEF WriteTableFails
    <3> QED BY <2>1, <3>1, <3>2, <3>3, <3>4
  <2>5. SmallTables'
    BY <1>2, <1>3, <1>4, <1>5, <2>1, <2>4, SmallTablesKept DEF SmallInv
  <2> QED BY <1>3, <1>5, <2>1, <2>3, <2>4, <2>5 DEF SmallInv, NoBlobs
<1> QED BY <1>8, <1>9, <1>10, <1>11 DEF GcStep

\* Every step.
LEMMA SmallKept ==
    ASSUME "blob" \notin Kinds, IInv, SmallInv, [Next]_vars
    PROVE  SmallInv'
<1>1. TypeInv /\ IdsInv
  BY DEF IInv, FileInv
<1>2. ~NoRecord.big /\ NoGc.recs = NoRecords /\ NoGc.listed = {} /\ EmptyMem.recs = NoRecords
  BY EmptyTypes DEF NoGc
<1>3. CASE \/ \E w \in Writers, k \in Keys, kind \in Kinds : BeginWrite(w, k, kind)
           \/ TailStep
           \/ UNCHANGED vars
  <2>1. /\ UNCHANGED <<disk, manifest, gc, flushPc, flushTable, compNew, mutable, immutables>>
        /\ blobFiles' \subseteq blobFiles /\ tails' \subseteq tails
    <3>1. ASSUME NEW w \in Writers, NEW k \in Keys, NEW kind \in Kinds, BeginWrite(w, k, kind)
          PROVE  <2>1!:
      BY <3>1 DEF BeginWrite
    <3>2. ASSUME NEW job \in tails, DeleteFiles(job)
          PROVE  <2>1!:
      BY <3>2 DEF DeleteFiles
    <3>3. CASE UNCHANGED vars
      BY <3>3 DEF vars
    <3> QED BY <1>3, <3>1, <3>2, <3>3 DEF TailStep
  <2>2. Live' = Live
    BY <2>1 DEF Live, Pending, Flushed
  <2> QED BY <2>1, <2>2 DEF SmallInv, SmallTables, SmallMems, NoBlobs
<1>4. CASE Crash
  <2>1. /\ UNCHANGED <<disk, blobFiles>> /\ gc' = NoGc /\ tails' = {}
        /\ mutable' = EmptyMem /\ immutables' = <<>>
    BY <1>4 DEF Crash, ForgetState, GcEnds
  <2>2. Live' = {}
    BY <1>1, <1>4, CrashFiles
  <2>3. Small(NoRecords) /\ DOMAIN immutables' = {}
    BY <1>2, <2>1, EmptyTypes DEF Small
  <2> QED BY <1>2, <2>1, <2>2, <2>3 DEF SmallInv, SmallTables, SmallMems, NoBlobs
<1>5. CASE Open
  <2>1. /\ mutable'.recs = ReplayedRecs
        /\ UNCHANGED <<disk, blobFiles, immutables, gc, tails>>
    BY <1>1, <1>5, OpenEffect
  <2>2. Live' = disk.tables
    BY <1>1, <1>5, OpenFiles
  <2>3. Small(ReplayedRecs)
    <3>1. ASSUME NEW k \in Keys PROVE ~ReplayedRecs[k].big
      <4>1. CASE ReplayedRecs[k] = NoRecord
        BY <1>2, <4>1
      <4>2. ASSUME NEW op \in Replayed, ReplayedRecs[k] = RecordOf(op)
            PROVE  ~ReplayedRecs[k].big
        <5>1. op \in Operation
          BY <1>1 DEF Replayed, TypeInv, TypeOK
        <5> QED BY <4>2, <5>1, OperationFields
      <4> QED BY <1>1, <4>1, <4>2, ReplayedNewest
    <3> QED BY <3>1 DEF Small
  <2> QED BY <2>1, <2>2, <2>3 DEF SmallInv, SmallTables, SmallMems, NoBlobs
<1> QED BY <1>1, <1>3, <1>4, <1>5, SmallApplied, SmallFlush, SmallComp, SmallGc DEF Next

\* The empty database has no blob files.
LEMMA InitSmall == Init => SmallInv
<1> SUFFICES ASSUME Init PROVE SmallInv
  OBVIOUS
<1>1. /\ disk.tables = {} /\ Live = {} /\ gc = NoGc /\ mutable = EmptyMem /\ DOMAIN immutables = {}
      /\ blobFiles = {} /\ tails = {}
  BY EmptyTypes, CollectionFields DEF Init, Live, Pending, Flushed
<1>2. Small(NoRecords) /\ NoGc.recs = NoRecords /\ NoGc.listed = {} /\ EmptyMem.recs = NoRecords
  BY EmptyTypes DEF Small, NoGc
<1> QED BY <1>1, <1>2 DEF SmallInv, SmallTables, SmallMems, NoBlobs

\* Without big values no job deletes a blob file.
LEMMA SmallOldBlobs == ASSUME "blob" \notin Kinds PROVE Spec => []DeletesOldBlobs
<1>1. Init => SmallInv
  BY InitSmall
<1>2. IInv /\ SmallInv /\ [Next]_vars => SmallInv'
  BY SmallKept
<1>3. SmallInv => DeletesOldBlobs
  BY DEF SmallInv, NoBlobs, DeletesOldBlobs
<1> QED BY <1>1, <1>2, <1>3, InvAlways, PTL DEF Spec

\* When every value is small enough to stay in its table, open() finds every table it
\* needs after any crash too, as often as the process dies.
THEOREM FilesExistInline == ASSUME "blob" \notin Kinds PROVE Spec => []ManifestFilesExist
<1> QED BY SmallOldBlobs, FilesExist, PTL
=============================================================================
