---------------------- MODULE EmbeddedDbSnapshot_proofs ----------------------
(***************************************************************************)
(* Proofs about EmbeddedDbSnapshot, for every value of its constants and   *)
(* until the first close(): memtables and tables keep the records of a key *)
(* newest first, even when writes are applied out of order, so the read    *)
(* cache stays what get() of the database finds, and a snapshot what it    *)
(* found.                                                                  *)
(***************************************************************************)
EXTENDS EmbeddedDbSnapshot, KvRefinement_proofs

\* The definitions every step of a preservation proof has to see through.
USE DEF diskVars, memVars, writeVars, flushVars, compVars, gcVars, closeVars, boundVars

-----------------------------------------------------------------------------
(* The inductive invariant about the order of records.                     *)

\* A sequence is used once: pending requests have sequences of their own.
NumberInv ==
    /\ OneEach(log)
    /\ \A w \in Writers : pc[w] = "encode" => \A op \in log : op.seq # req[w].seq
    /\ \A v, w \in Writers :
          pc[v] = "encode" /\ pc[w] = "encode" /\ req[v].seq = req[w].seq => v = w
    /\ life = "open" => /\ \A op \in log : op.seq < nextSequence
                        /\ \A w \in Writers : pc[w] = "encode" => req[w].seq < nextSequence

\* The memtables, oldest first; the last one is being filled.
MemAt(imms, mut, i) == IF i <= Len(imms) THEN imms[i] ELSE mut
Layers == 1..(Len(immutables) + 1)
Mem(i) == MemAt(immutables, mutable, i)

\* Where recs has a record, the one of others is older.
Above(recs, others) == \A k \in Keys : recs[k].seq # 0 => others[k].seq < recs[k].seq

\* The tables have record r of k, or it is a tombstone and they have nothing of k.
Moved(r, k) ==
    \/ \E t \in manifest.tables : /\ t.recs[k].seq = r.seq
                                  /\ \A u \in manifest.tables : u.recs[k].seq <= r.seq
    \/ r.del /\ \A t \in manifest.tables : t.recs[k].seq = 0

\* Memtables have newer records than those before them, and than the tables; the oldest
\* one may already be in the tables.
LayersInv ==
    /\ \A i \in Layers : \A k \in Keys : /\ Genuine(log, Mem(i).recs[k], k)
                                         /\ Mem(i).recs[k].seq <= Mem(i).maxSeq
    /\ \A i, j \in Layers : i < j => Above(Mem(j).recs, Mem(i).recs)
    /\ \A i \in Layers : ~(i = 1 /\ flushPc = "remove") =>
          \A t \in manifest.tables : Above(Mem(i).recs, t.recs)
    /\ flushPc = "remove" =>
          \A k \in Keys : Mem(1).recs[k].seq # 0 => Moved(Mem(1).recs[k], k)

\* The tables, on disk and in memory.
SoundInv ==
    /\ Sound(log, disk.tables, disk.maxSequence)
    /\ life = "open" => Sound(log, manifest.tables, manifest.maxSequence)

OrderInv == NumberInv /\ SoundInv /\ (life = "open" => LayersInv)

-----------------------------------------------------------------------------
(* Reading.                                                                *)

\* Two records of a sequence are both tombstones or neither is.
LEMMA SameKind ==
    ASSUME NEW ops, OneEach(ops), NEW k, NEW r, NEW q, Genuine(ops, r, k), Genuine(ops, q, k),
           r.seq = q.seq, r.seq # 0
    PROVE  r.del <=> q.del
<1>1. PICK o \in ops : o.seq = r.seq /\ (r.del <=> o.kind = "erase")
  BY DEF Genuine
<1>2. PICK p \in ops : p.seq = q.seq /\ (q.del <=> p.kind = "erase")
  BY DEF Genuine
<1>3. o = p
  BY <1>1, <1>2 DEF OneEach
<1> QED BY <1>1, <1>2, <1>3

\* The memtables are well formed.
LEMMA LayerTypes ==
    ASSUME TypeInv
    PROVE  /\ Len(immutables) \in Nat /\ Layers \in SUBSET Nat
           /\ 1 \in Layers /\ Len(immutables) + 1 \in Layers
           /\ \A i \in Layers : i <= Len(immutables) <=> i # Len(immutables) + 1
           /\ Mem(Len(immutables) + 1) = mutable
           /\ \A i \in 1..Len(immutables) : i \in Layers /\ Mem(i) = immutables[i]
           /\ \A i \in Layers : Mem(i) \in MemTable
           /\ \A i \in Layers : Mem(i).maxSeq \in Nat /\ Mem(i).recs \in [Keys -> Record]
           /\ \A i \in Layers : \A k \in Keys :
                 /\ Mem(i).recs[k] \in Record /\ Mem(i).recs[k].seq \in Nat
                 /\ Mem(i).recs[k].seq = 0 => Mem(i).recs[k] = NoRecord
                 /\ Mem(i).recs[k].blob = 0
<1> DEFINE n == Len(immutables)
<1>1. n \in Nat
  BY Positions
<1>2. /\ Layers \in SUBSET Nat /\ 1 \in Layers /\ n + 1 \in Layers
      /\ \A i \in Layers : i <= n <=> i # n + 1
      /\ Mem(n + 1) = mutable
      /\ \A i \in 1..n : i \in Layers /\ Mem(i) = immutables[i]
  BY <1>1 DEF Layers, Mem, MemAt
<1>3. ASSUME NEW i \in Layers
      PROVE  Mem(i) \in MemTable /\ MemRecsOK(Mem(i).recs)
  <2>1. CASE i = n + 1
    BY <1>2, <2>1 DEF TypeInv, TypeOK, RecsInv
  <2>2. CASE i # n + 1
    <3>1. i \in 1..n
      BY <1>1, <2>2 DEF Layers
    <3> QED BY <1>2, <3>1, Positions
  <2> QED BY <2>1, <2>2
<1>4. ASSUME NEW i \in Layers
      PROVE  Mem(i).maxSeq \in Nat /\ Mem(i).recs \in [Keys -> Record]
  BY <1>3, MemFields
<1>5. ASSUME NEW i \in Layers, NEW k \in Keys
      PROVE  /\ Mem(i).recs[k] \in Record /\ Mem(i).recs[k].seq \in Nat
             /\ Mem(i).recs[k].seq = 0 => Mem(i).recs[k] = NoRecord
             /\ Mem(i).recs[k].blob = 0
  BY <1>3, <1>4, RecordFields DEF MemRecsOK, RecsOK
<1> QED BY <1>1, <1>2, <1>3, <1>4, <1>5

\* lookupPrimaryLocked_ in given memtables and tables.
Found(imms, mut, tables, k) ==
    LET holding == {i \in DOMAIN imms : imms[i].recs[k].seq # 0}
    IN  IF mut.recs[k].seq # 0 THEN mut.recs[k]
        ELSE IF holding # {} THEN imms[Max(holding)].recs[k]
        ELSE TableLookup(tables, k)

\* Reading the database, or only its memtables.
LEMMA LookupFound ==
    ASSUME NEW k
    PROVE  /\ Lookup(k) = Found(immutables, mutable, manifest.tables, k)
           /\ Lookup(k)' = Found(immutables', mutable', manifest'.tables, k)
           /\ MemLookup(k) = Found(immutables, mutable, {}, k)
<1>1. TableLookup({}, k) = NoRecord
  BY DEF TableLookup
<1> QED BY <1>1 DEF Lookup, MemLookup, Found

\* i is the last memtable with a record of k.
LastAt(imms, mut, k, i) == /\ i \in 1..(Len(imms) + 1)
                           /\ MemAt(imms, mut, i).recs[k].seq # 0
                           /\ \A j \in 1..(Len(imms) + 1) : i < j => MemAt(imms, mut, j).recs[k].seq = 0
NoneAt(imms, mut, k) == \A i \in 1..(Len(imms) + 1) : MemAt(imms, mut, i).recs[k].seq = 0

\* Memtables are searched from the last one, and before the tables.
LEMMA FoundIn ==
    ASSUME NEW imms \in Seq(MemTable), NEW mut, NEW tables, NEW k
    PROVE  \/ \E i \in Nat : /\ LastAt(imms, mut, k, i)
                             /\ Found(imms, mut, tables, k) = MemAt(imms, mut, i).recs[k]
           \/ NoneAt(imms, mut, k) /\ Found(imms, mut, tables, k) = TableLookup(tables, k)
<1> DEFINE n == Len(imms)
           holding == {i \in DOMAIN imms : imms[i].recs[k].seq # 0}
<1>1. /\ n \in Nat /\ DOMAIN imms = 1..n /\ n + 1 \in 1..(n + 1) /\ n + 1 \in Nat
      /\ MemAt(imms, mut, n + 1) = mut
      /\ \A i \in 1..n : i \in Nat /\ i \in 1..(n + 1) /\ MemAt(imms, mut, i) = imms[i]
      /\ \A i \in 1..(n + 1) : i \in 1..n \/ i = n + 1
  BY DEF MemAt
<1>2. CASE mut.recs[k].seq # 0
  <2>1. Found(imms, mut, tables, k) = mut.recs[k]
    BY <1>2 DEF Found
  <2>2. \A j \in 1..(n + 1) : ~(n + 1 < j)
    BY <1>1
  <2> QED BY <1>1, <1>2, <2>1, <2>2 DEF LastAt
<1>3. CASE mut.recs[k].seq = 0 /\ holding # {}
  <2>1. holding \in SUBSET (1..n)
    BY <1>1
  <2>2. Found(imms, mut, tables, k) = imms[Max(holding)].recs[k]
    BY <1>3 DEF Found
  <2>3. Max(holding) \in holding /\ \A y \in holding : Max(holding) >= y
    <3> HIDE DEF holding
    <3> QED BY <1>1, <1>3, <2>1, MaxPosition
  <2> DEFINE i == Max(holding)
  <2>4. i \in 1..n /\ imms[i].recs[k].seq # 0
    BY <2>1, <2>3
  <2>5. \A j \in 1..n : i < j => imms[j].recs[k].seq = 0
    <3>1. \A j \in 1..n : j \in holding => i >= j
      BY <2>3
    <3>2. \A j \in 1..n : i < j => j \notin holding
      <4> HIDE DEF i, holding
      <4> QED BY <2>4, <3>1
    <3> QED BY <1>1, <3>2
  <2> HIDE DEF i, holding
  <2>6. \A j \in 1..(n + 1) : i < j => MemAt(imms, mut, j).recs[k].seq = 0
    BY <1>1, <1>3, <2>5
  <2>7. i \in Nat /\ LastAt(imms, mut, k, i)
    BY <1>1, <2>4, <2>6 DEF LastAt
  <2> QED BY <1>1, <2>2, <2>4, <2>7 DEF i
<1>4. CASE mut.recs[k].seq = 0 /\ holding = {}
  <2>1. Found(imms, mut, tables, k) = TableLookup(tables, k)
    BY <1>4 DEF Found
  <2>2. \A i \in 1..n : imms[i].recs[k].seq = 0
    BY <1>1, <1>4
  <2>3. NoneAt(imms, mut, k)
    BY <1>1, <1>4, <2>2 DEF NoneAt
  <2> QED BY <2>1, <2>3
<1> QED BY <1>2, <1>3, <1>4

\* So what is found is known.
LEMMA FoundLast ==
    ASSUME NEW imms \in Seq(MemTable), NEW mut, NEW tables, NEW k
    PROVE  /\ \A i \in Nat : LastAt(imms, mut, k, i) =>
                 Found(imms, mut, tables, k) = MemAt(imms, mut, i).recs[k]
           /\ NoneAt(imms, mut, k) => Found(imms, mut, tables, k) = TableLookup(tables, k)
<1>1. \A i, j \in Nat : LastAt(imms, mut, k, i) /\ LastAt(imms, mut, k, j) => i = j
  BY DEF LastAt
<1>2. \A i \in Nat : LastAt(imms, mut, k, i) => ~NoneAt(imms, mut, k)
  BY DEF LastAt, NoneAt
<1> QED BY <1>1, <1>2, FoundIn

\* The first table with a record of k has the newest one.
LEMMA FirstTable ==
    ASSUME NEW tables \in SUBSET Table, \A t, u \in tables : t.fileId = u.fileId => t = u,
           Sorted(tables), NEW k \in Keys, NEW n \in Nat, \A t \in tables : t.recs[k].seq <= n
    PROVE  \/ \E t \in tables : /\ TableLookup(tables, k) = t.recs[k] /\ t.recs[k].seq # 0
                                /\ \A u \in tables : u.recs[k].seq <= t.recs[k].seq
                                /\ \A u \in tables : u # t /\ u.recs[k].seq # 0 => NewerTable(t, u)
           \/ TableLookup(tables, k) = NoRecord /\ \A t \in tables : t.recs[k].seq = 0
<1> DEFINE holding == {t \in tables : t.recs[k].seq # 0}
           First(t) == \A u \in holding \ {t} : NewerTable(t, u)
<1>1. \A t \in tables : t.recs[k].seq \in Nat /\ t.level \in {0, 1} /\ t.fileId \in Nat
  BY TableFields, RecordFields
<1>2. \A t, u \in holding : NewerTable(t, u) => u.recs[k].seq < t.recs[k].seq
  BY DEF Sorted
<1>3. CASE holding = {}
  BY <1>3 DEF TableLookup
<1>4. CASE holding # {}
  <2> DEFINE S == {t.recs[k].seq : t \in holding}
  <2>1. S \in SUBSET Nat /\ S # {} /\ \A x \in S : x <= n
    BY <1>1, <1>4
  <2>2. Max(S) \in S /\ \A y \in S : Max(S) >= y
    <3> HIDE DEF S
    <3> QED BY <2>1, BoundedMax
  <2>3. PICK t \in holding : t.recs[k].seq = Max(S)
    BY <2>2
  <2>4. \A u \in holding : u.recs[k].seq \in S
    OBVIOUS
  <2> HIDE DEF S
  <2>5. \A u \in holding : u.recs[k].seq <= t.recs[k].seq
    BY <1>1, <2>2, <2>3, <2>4
  <2>6. First(t)
    <3> SUFFICES ASSUME NEW u \in holding \ {t} PROVE NewerTable(t, u)
      OBVIOUS
    <3>1. NewerTable(t, u) \/ NewerTable(u, t)
      BY <1>1 DEF NewerTable
    <3>2. ~NewerTable(u, t)
      BY <1>1, <1>2, <2>5
    <3> QED BY <3>1, <3>2
  <2> DEFINE first == CHOOSE h \in holding : First(h)
  <2>7. first \in holding /\ First(first)
    <3> HIDE DEF holding, First
    <3> QED BY <2>6
  <2>8. TableLookup(tables, k) = first.recs[k]
    BY <1>4 DEF TableLookup
  <2> HIDE DEF first
  <2>9. first = t
    BY <1>1, <1>2, <2>5, <2>7
  <2>10. \A u \in tables : u.recs[k].seq <= t.recs[k].seq
    BY <1>1, <2>5
  <2> QED BY <2>6, <2>8, <2>9, <2>10
<1> QED BY <1>3, <1>4

\* The tables in memory are well formed.
LEMMA OpenTables ==
    ASSUME TypeInv, IdsInv, OrderInv, life = "open"
    PROVE  /\ manifest.tables \in SUBSET Table /\ manifest.maxSequence \in Nat
           /\ \A t, u \in manifest.tables : t.fileId = u.fileId => t = u
           /\ Sound(log, manifest.tables, manifest.maxSequence) /\ Sorted(manifest.tables)
           /\ \A t \in manifest.tables : TableRecsOK(t.recs)
           /\ \A t \in manifest.tables : \A k \in Keys :
                 /\ Genuine(log, t.recs[k], k) /\ t.recs[k] \in Record
                 /\ t.recs[k].seq \in Nat /\ t.recs[k].seq <= manifest.maxSequence
                 /\ t.recs[k].seq = 0 => t.recs[k] = NoRecord
<1>1. /\ manifest.tables \in SUBSET Table /\ manifest.maxSequence \in Nat
      /\ \A t \in manifest.tables : TableRecsOK(t.recs)
  BY ManifestFields DEF TypeInv, TypeOK, RecsInv, Live
<1>2. Sound(log, manifest.tables, manifest.maxSequence)
  BY DEF OrderInv, SoundInv
<1>3. \A t, u \in manifest.tables : t.fileId = u.fileId => t = u
  BY DEF IdsInv, IdsOK, Live
<1>4. ASSUME NEW t \in manifest.tables, NEW k \in Keys
      PROVE  /\ Genuine(log, t.recs[k], k) /\ t.recs[k] \in Record
             /\ t.recs[k].seq \in Nat /\ t.recs[k].seq <= manifest.maxSequence
             /\ t.recs[k].seq = 0 => t.recs[k] = NoRecord
  <2>1. t.recs[k] \in Record /\ t.recs[k].seq \in Nat
    BY <1>1, TableFields, RecordFields
  <2>2. t.recs[k].seq = 0 => t.recs[k] = NoRecord
    BY <1>1 DEF TableRecsOK, RecsOK
  <2> QED BY <1>2, <2>1, <2>2 DEF Sound
<1> QED BY <1>1, <1>2, <1>3, <1>4 DEF Sound

\* What is found has the highest sequence of all records of the key.
LEMMA NewestFound ==
    ASSUME TypeInv, IdsInv, OrderInv, life = "open", NEW k \in Keys
    PROVE  /\ Lookup(k) \in Record /\ Lookup(k).seq \in Nat /\ Genuine(log, Lookup(k), k)
           /\ Lookup(k).seq = 0 => Lookup(k) = NoRecord
           /\ \A i \in Layers : Mem(i).recs[k].seq <= Lookup(k).seq
           /\ \A t \in manifest.tables : t.recs[k].seq <= Lookup(k).seq
<1>1. LayersInv /\ immutables \in Seq(MemTable)
  BY DEF OrderInv, TypeInv, TypeOK
<1>2. \A i \in Layers : /\ i \in Nat /\ Mem(i).recs[k] \in Record /\ Mem(i).recs[k].seq \in Nat
                        /\ Genuine(log, Mem(i).recs[k], k)
                        /\ Mem(i).recs[k].seq = 0 => Mem(i).recs[k] = NoRecord
  BY <1>1, LayerTypes DEF LayersInv
<1>3. \A t \in manifest.tables : t.recs[k].seq \in Nat
  BY OpenTables
<1>4. Lookup(k) = Found(immutables, mutable, manifest.tables, k)
  BY LookupFound
<1>5. ASSUME NEW i \in Nat, LastAt(immutables, mutable, k, i), Lookup(k) = Mem(i).recs[k]
      PROVE  /\ i \in Layers
             /\ \A j \in Layers : Mem(j).recs[k].seq <= Lookup(k).seq
             /\ \A t \in manifest.tables : t.recs[k].seq <= Lookup(k).seq
  <2>1. /\ i \in Layers /\ Mem(i).recs[k].seq # 0
        /\ \A j \in Layers : i < j => Mem(j).recs[k].seq = 0
    BY <1>5 DEF LastAt, Layers, Mem
  <2>2. \A j \in Layers : Mem(j).recs[k].seq <= Lookup(k).seq
    <3> SUFFICES ASSUME NEW j \in Layers PROVE Mem(j).recs[k].seq <= Mem(i).recs[k].seq
      BY <1>5
    <3>1. CASE j < i
      <4>1. Mem(j).recs[k].seq < Mem(i).recs[k].seq
        BY <1>1, <2>1, <3>1 DEF LayersInv, Above
      <4> QED BY <1>2, <2>1, <4>1
    <3>2. CASE ~(j < i)
      <4>1. i = j \/ i < j
        BY <1>2, <2>1, <3>2
      <4> QED BY <1>2, <2>1, <4>1
    <3> QED BY <3>1, <3>2
  <2>3. \A t \in manifest.tables : t.recs[k].seq <= Lookup(k).seq
    <3> SUFFICES ASSUME NEW t \in manifest.tables PROVE t.recs[k].seq <= Mem(i).recs[k].seq
      BY <1>5
    <3>1. CASE i = 1 /\ flushPc = "remove"
      <4>1. Moved(Mem(i).recs[k], k)
        BY <1>1, <2>1, <3>1 DEF LayersInv
      <4> QED BY <1>2, <1>3, <2>1, <4>1 DEF Moved
    <3>2. CASE ~(i = 1 /\ flushPc = "remove")
      <4>1. t.recs[k].seq < Mem(i).recs[k].seq
        BY <1>1, <2>1, <3>2 DEF LayersInv, Above
      <4> QED BY <1>2, <1>3, <2>1, <4>1
    <3> QED BY <3>1, <3>2
  <2> QED BY <2>1, <2>2, <2>3
<1>6. ASSUME NoneAt(immutables, mutable, k), Lookup(k) = TableLookup(manifest.tables, k)
      PROVE  /\ Lookup(k) = NoRecord \/ \E t \in manifest.tables : Lookup(k) = t.recs[k]
             /\ \A j \in Layers : Mem(j).recs[k].seq = 0
             /\ \A t \in manifest.tables : t.recs[k].seq <= Lookup(k).seq
  <2>1. \A j \in Layers : Mem(j).recs[k].seq = 0
    BY <1>6 DEF NoneAt, Layers, Mem
  <2>2. \/ \E t \in manifest.tables : /\ TableLookup(manifest.tables, k) = t.recs[k]
                                      /\ \A u \in manifest.tables : u.recs[k].seq <= t.recs[k].seq
        \/ /\ TableLookup(manifest.tables, k) = NoRecord
           /\ \A t \in manifest.tables : t.recs[k].seq = 0
    BY OpenTables, FirstTable
  <2> QED BY <1>6, <2>1, <2>2, EmptyTypes
<1>7. NoRecord \in Record /\ NoRecord.seq = 0 /\ Genuine(log, NoRecord, k)
  BY EmptyTypes DEF Genuine
<1>8. Lookup(k) = NoRecord \/ (\E i \in Layers : Lookup(k) = Mem(i).recs[k])
      \/ (\E t \in manifest.tables : Lookup(k) = t.recs[k])
  BY <1>1, <1>4, <1>5, <1>6, FoundIn DEF Mem
<1>9. /\ Lookup(k) \in Record /\ Lookup(k).seq \in Nat /\ Genuine(log, Lookup(k), k)
      /\ Lookup(k).seq = 0 => Lookup(k) = NoRecord
  BY <1>2, <1>7, <1>8, OpenTables
<1>10. /\ \A i \in Layers : Mem(i).recs[k].seq <= Lookup(k).seq
       /\ \A t \in manifest.tables : t.recs[k].seq <= Lookup(k).seq
  <2>1. \/ \E i \in Nat : LastAt(immutables, mutable, k, i) /\ Lookup(k) = Mem(i).recs[k]
        \/ NoneAt(immutables, mutable, k) /\ Lookup(k) = TableLookup(manifest.tables, k)
    BY <1>1, <1>4, FoundIn DEF Mem
  <2> QED BY <1>5, <1>6, <1>9, <2>1
<1> QED BY <1>9, <1>10

-----------------------------------------------------------------------------
(* What steps do to memtables and tables.                                  *)

MemsSame == UNCHANGED <<mutable, immutables, log, life>>

\* Nothing: ids are taken, files written or deleted, jobs scheduled.
NothingMoves == SameTables /\ MemsSame /\ (flushPc' = "remove" <=> flushPc = "remove")

\* A flush installs its table.
HeadCopied ==
    /\ flushPc = "install" /\ flushPc' = "remove" /\ MemsSame /\ life = "open"
    /\ immutables # <<>> /\ SameRecs(flushTable.recs, Head(immutables).recs)
    /\ manifest'.tables = manifest.tables \cup {flushTable}

\* A flush drops its memtable.
HeadDropped ==
    /\ flushPc = "remove" /\ flushPc' # "remove" /\ SameTables /\ life = "open"
    /\ immutables # <<>> /\ immutables' = Tail(immutables)
    /\ UNCHANGED <<mutable, log, life>>

\* A compaction or a blob collection replaces tables.
Rewritten(merged, drop, new) ==
    /\ MemsSame /\ flushPc' = flushPc /\ life = "open"
    /\ merged \in SUBSET manifest.tables /\ drop \in BOOLEAN /\ new \in SUBSET Table
    /\ Rewritable(merged, manifest.tables \ merged, drop)
    /\ Rewrites(new, Merged(merged, drop), manifest.tables \ merged)
    /\ manifest'.tables = (manifest.tables \ merged) \cup new

SomeRewrite == \E merged, drop, new : Rewritten(merged, drop, new)

\* Steps of writers before they apply, and of deletions.
LEMMA QuietEffect ==
    ASSUME \/ \E w \in Writers, k \in Keys, kind \in Kinds : BeginWrite(w, k, kind)
           \/ TailStep
           \/ UNCHANGED vars
    PROVE  NothingMoves /\ disk' = disk
<1>1. /\ manifest' = manifest /\ disk' = disk
      /\ UNCHANGED <<mutable, immutables, log, life, flushPc>>
  <2>1. ASSUME NEW w \in Writers, NEW k \in Keys, NEW kind \in Kinds, BeginWrite(w, k, kind)
        PROVE  <1>1!:
    BY <2>1 DEF BeginWrite
  <2>2. ASSUME NEW job \in tails, DeleteFiles(job)
        PROVE  <1>1!:
    BY <2>2 DEF DeleteFiles
  <2>3. CASE UNCHANGED vars
    BY <2>3 DEF vars
  <2> QED BY <2>1, <2>2, <2>3 DEF TailStep
<1> QED BY <1>1 DEF NothingMoves, SameTables, MemsSame

\* Steps of a flush.
LEMMA FlushEffect ==
    ASSUME TypeInv, FlushInv, FlushStep
    PROVE  NothingMoves \/ HeadCopied \/ HeadDropped
<1>1. CASE FlushPick \/ FlushWrite \/ FlushFails
  <2>1. SameTables /\ MemsSame
    BY <1>1, TablesStay DEF FlushPick, FlushWrite, FlushFails, MemsSame
  <2>2. flushPc # "remove" /\ flushPc' # "remove"
    BY <1>1 DEF FlushPick, FlushWrite, FlushFails
  <2> QED BY <2>1, <2>2 DEF NothingMoves
<1>2. CASE FlushInstall
  <2>1. /\ flushPc = "install" /\ flushPc' = "remove" /\ MemsSame
        /\ Persist(WithTable(flushMem, flushTable))
    BY <1>2 DEF FlushInstall, MemsSame
  <2>2. /\ life = "open" /\ immutables # <<>> /\ flushMem = Head(immutables)
        /\ manifest'.tables = manifest.tables \cup {flushTable}
    BY <2>1, FlushedTables, PersistEffect, PersistedFields
  <2>3. SameRecs(flushTable.recs, flushMem.recs)
    BY <2>1 DEF FlushInv
  <2> QED BY <2>1, <2>2, <2>3 DEF HeadCopied
<1>3. CASE FlushRemove
  <2>1. /\ flushPc = "remove" /\ flushPc' # "remove" /\ SameTables
        /\ UNCHANGED <<mutable, log, life>>
    BY <1>3, TablesStay DEF FlushRemove
  <2>2. immutables # <<>> /\ flushMem = Head(immutables) /\ life = "open"
    BY <2>1 DEF TypeInv, PhaseInv
  <2>3. immutables' = Tail(immutables)
    BY <1>3, <2>2 DEF FlushRemove
  <2> QED BY <2>1, <2>2, <2>3 DEF HeadDropped
<1> QED BY <1>1, <1>2, <1>3 DEF FlushStep

\* Steps of a compaction.
LEMMA CompEffect ==
    ASSUME TypeInv, CompInv, CompStep
    PROVE  NothingMoves \/ (compPc = "install" /\ SomeRewrite)
<1>1. MemsSame /\ flushPc' = flushPc
  BY DEF CompStep, CompStart, CompMerge, CompInstall, CompFails, MemsSame
<1>2. CASE CompStart \/ CompMerge \/ CompFails
  <2>1. SameTables
    BY <1>2, TablesStay
  <2> QED BY <1>1, <2>1 DEF NothingMoves
<1>3. CASE CompInstall
  <2>1. compPc = "install" /\ Persist(Compacted)
    BY <1>3, CompactedTables DEF CompInstall
  <2>2. manifest'.tables = (manifest.tables \ compTables) \cup compNew
    BY <2>1, CompactedTables, PersistEffect, PersistedFields
  <2>3. Rewritten(compTables, compDrop, compNew)
    BY <1>1, <2>1, <2>2, CompactedTables DEF Rewritten
  <2> QED BY <2>1, <2>3 DEF SomeRewrite
<1> QED BY <1>2, <1>3 DEF CompStep

\* Steps of a blob collection.
LEMMA CollectEffect ==
    ASSUME TypeInv, FileInv, CollectInv, GcStep
    PROVE  NothingMoves \/ (gcPc = "commit" /\ GcStable /\ SomeRewrite)
<1>1. MemsSame /\ flushPc' = flushPc
  BY DEF GcStep, GcStart, GcList, GcWrite, GcCommit, GcFails, MemsSame
<1>2. CASE GcStart \/ GcList \/ GcWrite \/ GcFails
  <2>1. SameTables
    BY <1>2, TablesStay
  <2> QED BY <1>1, <2>1 DEF NothingMoves
<1>3. CASE GcCommit /\ ~GcStable
  <2>1. manifest' = manifest
    BY <1>3 DEF GcCommit
  <2>2. SameTables
    BY <2>1 DEF SameTables
  <2> QED BY <1>1, <2>2 DEF NothingMoves
<1>4. CASE GcCommit /\ GcStable
  <2>1. gcPc = "commit" /\ Persist(Collected)
    BY <1>4 DEF GcCommit
  <2>2. manifest'.tables = (manifest.tables \ manifest.tables) \cup gc.new
    BY <1>4, <2>1, CollectedTables, PersistEffect, PersistedFields
  <2>3. Rewritten(manifest.tables, TRUE, gc.new)
    BY <1>1, <1>4, <2>1, <2>2, CollectedTables DEF Rewritten
  <2> QED BY <1>4, <2>1, <2>3 DEF SomeRewrite
<1> QED BY <1>2, <1>3, <1>4 DEF GcStep

-----------------------------------------------------------------------------
(* The order of records is kept.                                           *)

\* Nothing moves.
LEMMA LayersQuiet ==
    ASSUME LayersInv, NothingMoves
    PROVE  LayersInv'
<1>1. /\ Layers' = Layers /\ \A i : Mem(i)' = Mem(i)
      /\ manifest'.tables = manifest.tables /\ log' = log
      /\ flushPc' = "remove" <=> flushPc = "remove"
  BY DEF NothingMoves, MemsSame, SameTables, Layers, Mem
<1> QED BY <1>1 DEF LayersInv, Moved

\* The flushed table has the records of the oldest memtable, so all others are above it.
LEMMA LayersCopied ==
    ASSUME TypeInv, IdsInv, OrderInv, HeadCopied
    PROVE  LayersInv'
<1>1. /\ LayersInv /\ flushPc = "install" /\ flushPc' = "remove" /\ log' = log
      /\ manifest'.tables = manifest.tables \cup {flushTable}
      /\ Layers' = Layers /\ \A i : Mem(i)' = Mem(i)
  BY DEF HeadCopied, MemsSame, OrderInv, Layers, Mem
<1>2. 1 \in Layers /\ Mem(1) = Head(immutables)
  <2>1. immutables \in Seq(MemTable) /\ immutables # <<>>
    BY DEF TypeInv, TypeOK, HeadCopied
  <2>2. 1 \in 1..Len(immutables) /\ Head(immutables) = immutables[1]
    BY <2>1
  <2> QED BY <2>2, LayerTypes
<1>3. \A k \in Keys : flushTable.recs[k].seq = Mem(1).recs[k].seq
  BY <1>2 DEF HeadCopied, SameRecs
<1>4. ASSUME NEW i \in Layers, i # 1, NEW t \in manifest'.tables
      PROVE  Above(Mem(i).recs, t.recs)
  <2>1. CASE t \in manifest.tables
    BY <1>1, <1>4, <2>1 DEF LayersInv
  <2>2. CASE t = flushTable
    <3>1. 1 < i
      BY <1>4, LayerTypes DEF Layers
    <3>2. Above(Mem(i).recs, Mem(1).recs)
      BY <1>1, <1>2, <3>1 DEF LayersInv
    <3> QED BY <1>3, <2>2, <3>2 DEF Above
  <2> QED BY <1>1, <2>1, <2>2
<1>5. ASSUME NEW k \in Keys, Mem(1).recs[k].seq # 0
      PROVE  \A u \in manifest'.tables : u.recs[k].seq <= Mem(1).recs[k].seq
  <2>1. Mem(1).recs[k].seq \in Nat
    BY <1>2, LayerTypes
  <2>2. \A u \in manifest.tables : u.recs[k].seq < Mem(1).recs[k].seq /\ u.recs[k].seq \in Nat
    <3>1. life = "open"
      BY DEF HeadCopied
    <3>2. \A u \in manifest.tables : Above(Mem(1).recs, u.recs)
      BY <1>1, <1>2 DEF LayersInv
    <3> QED BY <1>5, <3>1, <3>2, OpenTables DEF Above
  <2> QED BY <1>1, <1>3, <2>1, <2>2
<1>6. \A k \in Keys : Mem(1).recs[k].seq # 0 =>
         \E t \in manifest'.tables : /\ t.recs[k].seq = Mem(1).recs[k].seq
                                     /\ \A u \in manifest'.tables : u.recs[k].seq <= Mem(1).recs[k].seq
  BY <1>1, <1>3, <1>5
<1> QED BY <1>1, <1>4, <1>6 DEF LayersInv, Moved

\* The memtables without the oldest.
LEMMA DroppedLayers ==
    ASSUME TypeInv, HeadDropped
    PROVE  /\ Len(immutables) \in Nat \ {0} /\ Len(immutables') = Len(immutables) - 1
           /\ immutables' \in Seq(MemTable)
           /\ \A i \in Layers' : i \in Nat /\ i + 1 \in Layers /\ i + 1 # 1
           /\ \A i \in Layers : i # 1 => i - 1 \in Layers'
           /\ \A i \in Layers' : Mem(i)' = Mem(i + 1)
<1>1. /\ immutables \in Seq(MemTable) /\ immutables # <<>>
      /\ immutables' = Tail(immutables) /\ mutable' = mutable
  BY DEF TypeInv, TypeOK, HeadDropped
<1>2. PICK n \in Nat : n = Len(immutables)
  BY <1>1
<1>3. /\ n # 0 /\ Len(immutables') = n - 1 /\ immutables' \in Seq(MemTable)
      /\ \A i \in 1..(n - 1) : immutables'[i] = immutables[i + 1]
  BY <1>1, <1>2
<1>4. /\ Layers = 1..(n + 1)
      /\ \A i : Mem(i) = IF i <= n THEN immutables[i] ELSE mutable
  BY <1>2 DEF Layers, Mem, MemAt
<1>6. Layers' = 1..n
  <2>1. (n - 1) + 1 = n
    BY <1>2
  <2> QED BY <1>3, <2>1 DEF Layers
<1>7. \A i : Mem(i)' = IF i <= n - 1 THEN immutables'[i] ELSE mutable
  BY <1>1, <1>3 DEF Mem, MemAt
<1>5. \A i \in 1..n : i \in Nat /\ i + 1 \in 1..(n + 1) /\ i + 1 # 1 /\ (i <= n - 1 => i \in 1..(n - 1))
                      /\ (i <= n - 1 <=> i + 1 <= n)
  BY <1>2
<1>8. \A i \in Layers' : Mem(i)' = Mem(i + 1)
  BY <1>3, <1>4, <1>5, <1>6, <1>7
<1>9. \A i \in Layers : i # 1 => i - 1 \in Layers'
  BY <1>2, <1>4, <1>6
<1> QED BY <1>2, <1>3, <1>4, <1>5, <1>6, <1>8, <1>9

\* They are above each other and above the tables.
LEMMA LayersDropped ==
    ASSUME TypeInv, LayersInv, HeadDropped
    PROVE  LayersInv'
<1>1. /\ flushPc' # "remove" /\ log' = log /\ manifest'.tables = manifest.tables
  BY DEF HeadDropped, SameTables
<1>2. /\ \A i \in Layers' : i \in Nat /\ i + 1 \in Layers /\ i + 1 # 1
      /\ \A i \in Layers' : Mem(i)' = Mem(i + 1)
  BY DroppedLayers
<1>3. ASSUME NEW i \in Layers', NEW j \in Layers', i < j
      PROVE  Above(Mem(j)'.recs, Mem(i)'.recs)
  <2>1. i + 1 < j + 1
    BY <1>2, <1>3
  <2> QED BY <1>2, <2>1 DEF LayersInv
<1>4. \A i \in Layers' : \A t \in manifest'.tables : Above(Mem(i)'.recs, t.recs)
  BY <1>1, <1>2 DEF LayersInv
<1>5. \A i \in Layers' : \A k \in Keys : /\ Genuine(log, Mem(i)'.recs[k], k)
                                         /\ Mem(i)'.recs[k].seq <= Mem(i)'.maxSeq
  BY <1>2 DEF LayersInv
<1> QED BY <1>1, <1>3, <1>4, <1>5 DEF LayersInv

\* What rewritten tables have of a key: nothing newer, and the newest record as before,
\* unless it is a tombstone that was the last record of the key.
LEMMA RewrittenKey ==
    ASSUME TypeInv, IdsInv, OrderInv, NEW merged, NEW drop, NEW new, Rewritten(merged, drop, new),
           NEW k \in Keys
    PROVE  /\ \A u \in manifest'.tables :
                 u.recs[k].seq = 0 \/ \E v \in manifest.tables : u.recs[k].seq = v.recs[k].seq
           /\ \A t \in manifest.tables :
                 /\ t.recs[k].seq # 0
                 /\ \A u \in manifest.tables : u.recs[k].seq <= t.recs[k].seq
                 => \/ \E u \in manifest'.tables : u.recs[k].seq = t.recs[k].seq
                    \/ t.recs[k].del /\ \A u \in manifest'.tables : u.recs[k].seq = 0
<1>1. /\ life = "open" /\ merged \in SUBSET manifest.tables /\ drop \in BOOLEAN
      /\ Rewritable(merged, manifest.tables \ merged, drop)
      /\ Rewrites(new, Merged(merged, drop), manifest.tables \ merged)
      /\ manifest'.tables = (manifest.tables \ merged) \cup new
  BY DEF Rewritten
<1>2. /\ manifest.tables \in SUBSET Table /\ Sorted(manifest.tables)
      /\ \A t \in manifest.tables : TableRecsOK(t.recs)
      /\ \A t \in manifest.tables : /\ Genuine(log, t.recs[k], k)
                                    /\ t.recs[k].seq \in Nat
  BY <1>1, OpenTables
<1> DEFINE R == Merged(merged, drop)[k]
<1>3. PICK m \in Record : /\ m = NoRecord \/ \E v \in merged : m = v.recs[k]
                          /\ \A v \in merged : v.recs[k].seq <= m.seq
                          /\ R = IF drop /\ m.del THEN NoRecord ELSE m
  <2>1. merged \in SUBSET Table /\ \A v \in merged : TableRecsOK(v.recs)
    BY <1>1, <1>2
  <2> QED BY <1>1, <2>1, MergedRecord
<1>4. m.seq \in Nat /\ NoRecord.seq = 0
  BY RecordFields, EmptyTypes
<1>5. /\ \A u \in new : u.recs[k].seq = R.seq
      /\ R.seq # 0 => \E u \in new : TRUE
  <2>1. \A u \in new : SameRecs(u.recs, Merged(merged, drop))
    BY <1>1 DEF Rewrites
  <2>2. R.seq # 0 => \E u \in new : TRUE
    BY <1>1 DEF Rewrites
  <2> QED BY <2>1, <2>2 DEF SameRecs
<1> HIDE DEF R
<1>6. \A u \in manifest'.tables :
         u.recs[k].seq = 0 \/ \E v \in manifest.tables : u.recs[k].seq = v.recs[k].seq
  BY <1>1, <1>3, <1>4, <1>5
<1>7. ASSUME NEW t \in manifest.tables, t.recs[k].seq # 0,
             \A u \in manifest.tables : u.recs[k].seq <= t.recs[k].seq
      PROVE  \/ \E u \in manifest'.tables : u.recs[k].seq = t.recs[k].seq
             \/ t.recs[k].del /\ \A u \in manifest'.tables : u.recs[k].seq = 0
  <2>1. CASE t \notin merged
    BY <1>1, <2>1
  <2>2. CASE t \in merged
    <3>1. PICK v \in merged : m = v.recs[k]
      BY <1>2, <1>3, <1>4, <1>7, <2>2
    <3>2. m.seq = t.recs[k].seq
      BY <1>1, <1>2, <1>3, <1>4, <1>7, <2>2, <3>1
    <3>3. CASE ~(drop /\ m.del)
      BY <1>1, <1>3, <1>5, <1>7, <3>2, <3>3
    <3>4. CASE drop /\ m.del
      <4>1. R.seq = 0
        BY <1>3, <1>4, <3>4
      <4>2. ASSUME NEW u \in manifest.tables \ merged PROVE u.recs[k].seq = 0
        <5>1. NewerTable(u, t)
          BY <1>1, <2>2, <3>4 DEF Rewritable
        <5>2. u.recs[k].seq # 0 => t.recs[k].seq < u.recs[k].seq
          BY <1>2, <5>1 DEF Sorted
        <5>3. u.recs[k].seq <= t.recs[k].seq
          BY <1>7
        <5> QED BY <1>2, <5>2, <5>3
      <4>3. t.recs[k].del
        <5>1. OneEach(log) /\ Genuine(log, t.recs[k], k) /\ Genuine(log, m, k)
          BY <1>1, <1>2, <3>1 DEF OrderInv, NumberInv
        <5>2. m.del <=> t.recs[k].del
          BY <1>7, <3>2, <5>1, SameKind
        <5> QED BY <3>4, <5>2
      <4> QED BY <1>1, <1>5, <4>1, <4>2, <4>3
    <3> QED BY <3>3, <3>4
  <2> QED BY <2>1, <2>2
<1> QED BY <1>6, <1>7

\* Rewritten tables have nothing newer, and a tombstone that goes covered nothing.
LEMMA LayersRewritten ==
    ASSUME TypeInv, IdsInv, OrderInv, SomeRewrite
    PROVE  LayersInv'
<1>1. PICK merged, drop, new : Rewritten(merged, drop, new)
  BY DEF SomeRewrite
<1>2. /\ LayersInv /\ life = "open" /\ flushPc' = flushPc /\ log' = log
      /\ Layers' = Layers /\ \A i : Mem(i)' = Mem(i)
  BY <1>1 DEF Rewritten, MemsSame, OrderInv, Layers, Mem
<1>3. \A k \in Keys : \A u \in manifest'.tables :
         u.recs[k].seq = 0 \/ \E v \in manifest.tables : u.recs[k].seq = v.recs[k].seq
  BY <1>1, RewrittenKey
<1>4. \A i \in Layers : \A k \in Keys : Mem(i).recs[k].seq \in Nat
  BY LayerTypes
<1>5. ASSUME NEW i \in Layers, ~(i = 1 /\ flushPc = "remove"), NEW u \in manifest'.tables
      PROVE  Above(Mem(i).recs, u.recs)
  <2> SUFFICES ASSUME NEW k \in Keys, Mem(i).recs[k].seq # 0
               PROVE  u.recs[k].seq < Mem(i).recs[k].seq
    BY DEF Above
  <2>1. \A v \in manifest.tables : v.recs[k].seq < Mem(i).recs[k].seq
    BY <1>2, <1>5 DEF LayersInv, Above
  <2> QED BY <1>3, <1>4, <2>1
<1>6. ASSUME flushPc = "remove", NEW k \in Keys, Mem(1).recs[k].seq # 0
      PROVE  Moved(Mem(1).recs[k], k)'
  <2> DEFINE r == Mem(1).recs[k]
  <2>1. Moved(r, k) /\ 1 \in Layers
    BY <1>2, <1>6, LayerTypes DEF LayersInv
  <2>2. Genuine(log, r, k) /\ r.seq \in Nat /\ r.seq # 0 /\ OneEach(log)
    BY <1>2, <1>4, <1>6, <2>1 DEF LayersInv, OrderInv, NumberInv
  <2>3. /\ r' = r
        /\ \A t \in manifest.tables : Genuine(log, t.recs[k], k) /\ t.recs[k].seq \in Nat
    BY <1>2, OpenTables
  <2> HIDE DEF r
  <2>4. CASE r.del /\ \A t \in manifest.tables : t.recs[k].seq = 0
    <3>1. \A u \in manifest'.tables : u.recs[k].seq = 0
      BY <1>3, <2>4
    <3> QED BY <2>3, <2>4, <3>1 DEF Moved, r
  <2>5. ASSUME NEW t \in manifest.tables, t.recs[k].seq = r.seq,
               \A u \in manifest.tables : u.recs[k].seq <= r.seq
        PROVE  Moved(r, k)'
    <3>1. \A u \in manifest'.tables : u.recs[k].seq <= r.seq
      BY <1>3, <2>2, <2>5
    <3>2. \/ \E u \in manifest'.tables : u.recs[k].seq = t.recs[k].seq
          \/ t.recs[k].del /\ \A u \in manifest'.tables : u.recs[k].seq = 0
      BY <1>1, <2>2, <2>5, RewrittenKey
    <3>3. t.recs[k].del <=> r.del
      BY <2>2, <2>3, <2>5, SameKind
    <3> QED BY <2>3, <2>5, <3>1, <3>2, <3>3 DEF Moved
  <2> QED BY <2>1, <2>4, <2>5 DEF Moved, r
<1>7. \A k \in Keys : flushPc = "remove" /\ Mem(1).recs[k].seq # 0 => Moved(Mem(1).recs[k], k)'
  BY <1>6
<1> QED BY <1>2, <1>5, <1>7 DEF LayersInv

\* A newer table above all others.
LEMMA SoundFlushed ==
    ASSUME NEW ops, NEW tables \in SUBSET Table, NEW t \in Table, NEW n \in Nat, NEW m \in Nat,
           n <= m, Sound(ops, tables, n),
           \A k \in Keys : Genuine(ops, t.recs[k], k) /\ t.recs[k].seq <= m,
           \A u \in tables : Above(t.recs, u.recs),
           t.level = 0, \A u \in tables : u.level = 0 => u.fileId < t.fileId
    PROVE  Sound(ops, tables \cup {t}, m)
<1>1. \A u \in tables \cup {t} : /\ u.level \in {0, 1} /\ u.fileId \in Nat
                                 /\ \A k \in Keys : u.recs[k].seq \in Nat
  <2> SUFFICES ASSUME NEW u \in tables \cup {t}
               PROVE  u.level \in {0, 1} /\ u.fileId \in Nat /\ \A k \in Keys : u.recs[k].seq \in Nat
    OBVIOUS
  <2>1. u \in Table
    OBVIOUS
  <2> QED BY <2>1, TableFields, RecordFields
<1>2. \A u \in tables \cup {t} : \A k \in Keys : Genuine(ops, u.recs[k], k) /\ u.recs[k].seq <= m
  BY <1>1 DEF Sound
<1>3. ASSUME NEW u \in tables \cup {t}, NEW v \in tables \cup {t}, NewerTable(u, v), NEW k \in Keys,
             u.recs[k].seq # 0
      PROVE  v.recs[k].seq < u.recs[k].seq
  <2>1. CASE v = t
    BY <1>1, <1>3, <2>1 DEF NewerTable
  <2>2. CASE v # t /\ u = t
    BY <1>3, <2>2 DEF Above
  <2>3. CASE v # t /\ u # t
    BY <1>3, <2>3 DEF Sound, Sorted
  <2> QED BY <2>1, <2>2, <2>3
<1> QED BY <1>2, <1>3 DEF Sound, Sorted

\* A manifest that a job may persist next.
Candidate(m) ==
    \/ flushPc = "install" /\ m = WithTable(flushMem, flushTable)
    \/ compPc = "install" /\ m = Compacted
    \/ gcPc = "commit" /\ GcStable /\ m = Collected

\* It is as sound as the one in memory.
LEMMA CandidateSound ==
    ASSUME TypeInv, FileInv, JobsInv, OrderInv, NEW m, Candidate(m)
    PROVE  life = "open" /\ m \in Manifest /\ Sound(log, m.tables, m.maxSequence)
<1>0. IdsInv
  BY DEF FileInv
<1>1. CASE flushPc = "install" /\ m = WithTable(flushMem, flushTable)
  <2>1. /\ m \in Manifest /\ m.tables = manifest.tables \cup {flushTable}
        /\ m.maxSequence = Max({manifest.maxSequence, flushMem.maxSeq})
        /\ life = "open" /\ immutables # <<>> /\ flushMem = Head(immutables)
        /\ flushMem \in MemTable /\ flushTable \in Table
    BY <1>1, FlushedTables
  <2>2. /\ manifest.tables \in SUBSET Table /\ manifest.maxSequence \in Nat
        /\ Sound(log, manifest.tables, manifest.maxSequence)
    BY <1>0, <2>1, OpenTables
  <2>3. /\ flushMem.maxSeq \in Nat /\ m.maxSequence \in Nat
        /\ manifest.maxSequence <= m.maxSequence /\ flushMem.maxSeq <= m.maxSequence
    <3>1. flushMem.maxSeq \in Nat
      BY <2>1, MemFields
    <3>2. m.maxSequence \in {manifest.maxSequence, flushMem.maxSeq}
      BY <2>1, <2>2, <3>1, PairBounds
    <3> QED BY <2>1, <2>2, <3>1, <3>2, PairBounds
  <2>4. /\ flushTable.level = 0 /\ SameRecs(flushTable.recs, flushMem.recs)
        /\ \A t \in manifest.tables : t.level = 0 => t.fileId < flushTable.fileId
    BY <1>1 DEF JobsInv, FlushInv
  <2>5. LayersInv /\ 1 \in Layers /\ Mem(1) = flushMem
    <3>1. immutables \in Seq(MemTable)
      BY DEF TypeInv, TypeOK
    <3>2. 1 \in 1..Len(immutables) /\ Head(immutables) = immutables[1]
      BY <2>1, <3>1
    <3> QED BY <2>1, <3>2, LayerTypes DEF OrderInv
  <2>6. \A k \in Keys : Genuine(log, flushTable.recs[k], k) /\ flushTable.recs[k].seq <= m.maxSequence
    <3> SUFFICES ASSUME NEW k \in Keys
                 PROVE  Genuine(log, flushTable.recs[k], k) /\ flushTable.recs[k].seq <= m.maxSequence
      OBVIOUS
    <3>1. /\ Genuine(log, flushMem.recs[k], k) /\ flushMem.recs[k].seq <= flushMem.maxSeq
          /\ flushMem.recs[k].seq \in Nat
      BY <2>5, LayerTypes DEF LayersInv
    <3>2. /\ flushTable.recs[k].seq = flushMem.recs[k].seq
          /\ flushTable.recs[k].del = flushMem.recs[k].del
          /\ flushTable.recs[k].big = flushMem.recs[k].big
      BY <2>4 DEF SameRecs
    <3> QED BY <2>3, <3>1, <3>2 DEF Genuine
  <2>7. \A u \in manifest.tables : Above(flushTable.recs, u.recs)
    <3>1. \A u \in manifest.tables : Above(flushMem.recs, u.recs)
      BY <1>1, <2>5 DEF LayersInv
    <3> QED BY <2>4, <3>1 DEF Above, SameRecs
  <2>8. Sound(log, manifest.tables \cup {flushTable}, m.maxSequence)
    BY <2>1, <2>2, <2>3, <2>4, <2>6, <2>7, SoundFlushed
  <2> QED BY <2>1, <2>8
<1>2. CASE compPc = "install" /\ m = Compacted
  <2>1. /\ life = "open" /\ Compacted \in Manifest
        /\ compTables \in SUBSET manifest.tables /\ compNew \in SUBSET Table /\ compDrop \in BOOLEAN
        /\ Compacted.tables = (manifest.tables \ compTables) \cup compNew
        /\ Compacted.maxSequence = manifest.maxSequence
        /\ Rewritable(compTables, manifest.tables \ compTables, compDrop)
        /\ Rewrites(compNew, Merged(compTables, compDrop), manifest.tables \ compTables)
    BY <1>2, CompactedTables DEF JobsInv
  <2>2. /\ manifest.tables \in SUBSET Table /\ manifest.maxSequence \in Nat
        /\ Sound(log, manifest.tables, manifest.maxSequence)
        /\ \A t \in manifest.tables : TableRecsOK(t.recs)
    BY <1>0, <2>1, OpenTables
  <2>3. Sound(log, (manifest.tables \ compTables) \cup compNew, manifest.maxSequence)
    BY <2>1, <2>2, SoundMerged
  <2> QED BY <1>2, <2>1, <2>3
<1>3. CASE gcPc = "commit" /\ GcStable /\ m = Collected
  <2> DEFINE none == manifest.tables \ manifest.tables
  <2>1. /\ life = "open" /\ Collected \in Manifest /\ gc.new \in SUBSET Table
        /\ Collected.maxSequence = manifest.maxSequence
        /\ Collected.tables = none \cup gc.new
        /\ Rewritable(manifest.tables, none, TRUE)
        /\ Rewrites(gc.new, Merged(manifest.tables, TRUE), none)
    BY <1>3, CollectedTables DEF JobsInv
  <2>2. /\ manifest.tables \in SUBSET Table /\ manifest.maxSequence \in Nat
        /\ Sound(log, manifest.tables, manifest.maxSequence)
        /\ \A t \in manifest.tables : TableRecsOK(t.recs)
    BY <1>0, <2>1, OpenTables
  <2>3. Sound(log, none \cup gc.new, manifest.maxSequence)
    BY <2>1, <2>2, SoundMerged
  <2> HIDE DEF none
  <2> QED BY <1>3, <2>1, <2>3
<1> QED BY <1>1, <1>2, <1>3 DEF Candidate

\* A job leaves the manifests alone, or persists the one it has, or fails to.
LEMMA ManifestsMove ==
    ASSUME TypeInv, FileInv, JobsInv, OrderInv, FlushStep \/ CompStep \/ GcStep
    PROVE  /\ disk' = disk \/ \E m : Candidate(m) /\ disk' = m
           /\ \/ SameTables
              \/ \E m : /\ Candidate(m) /\ manifest'.tables = m.tables
                        /\ manifest'.maxSequence = m.maxSequence
<1>1. ASSUME NEW m, Candidate(m), Persist(m) \/ PersistFails(m)
      PROVE  /\ disk' = disk \/ disk' = m
             /\ \/ SameTables
                \/ manifest'.tables = m.tables /\ manifest'.maxSequence = m.maxSequence
  <2>1. m \in Manifest
    BY <1>1, CandidateSound
  <2>2. CASE Persist(m)
    BY <2>1, <2>2, PersistEffect, PersistedFields
  <2>3. CASE PersistFails(m)
    <3>1. NotPersisted(m)
      BY <2>3, PersistEffect
    <3> QED BY <3>1 DEF NotPersisted, SameTables
  <2> QED BY <1>1, <2>2, <2>3
<1>2. \/ SameTables /\ disk' = disk
      \/ \E m : Candidate(m) /\ (Persist(m) \/ PersistFails(m))
  <2>1. CASE FlushPick \/ FlushWrite \/ FlushRemove
    BY <2>1, TablesStay DEF FlushPick, FlushWrite, FlushRemove
  <2>2. CASE FlushInstall
    BY <2>2 DEF FlushInstall, Candidate
  <2>3. CASE FlushFails
    <3>1. SameTables
      BY <2>3, TablesStay
    <3> QED BY <2>3, <3>1 DEF FlushFails, Candidate
  <2>4. CASE CompStart \/ CompMerge
    BY <2>4, TablesStay DEF CompStart, CompMerge
  <2>5. CASE CompInstall
    <3>1. life # "closing"
      BY DEF TypeInv, PhaseInv
    <3> QED BY <2>5, <3>1 DEF CompInstall, Candidate
  <2>6. CASE CompFails
    <3>1. SameTables
      BY <2>6, TablesStay
    <3> QED BY <2>6, <3>1 DEF CompFails, Candidate
  <2>7. CASE GcStart \/ GcList \/ GcWrite
    BY <2>7, TablesStay DEF GcStart, GcList, GcWrite
  <2>8. CASE GcCommit
    BY <2>8 DEF GcCommit, Candidate, SameTables
  <2>9. CASE GcFails
    <3>1. SameTables
      BY <2>9, TablesStay
    <3> QED BY <2>9, <3>1 DEF GcFails, Candidate
  <2> QED BY <2>1, <2>2, <2>3, <2>4, <2>5, <2>6, <2>7, <2>8, <2>9 DEF FlushStep, CompStep, GcStep
<1> QED BY <1>1, <1>2

\* Steps of jobs leave writers and journal alone.
LEMMA JobsWriteNothing ==
    ASSUME FlushStep \/ CompStep \/ GcStep \/ TailStep \/ UNCHANGED vars
    PROVE  UNCHANGED <<life, nextSequence, lastVisible, log, pc, req>>
<1>1. CASE FlushStep
  BY <1>1 DEF FlushStep, FlushPick, FlushWrite, FlushInstall, FlushFails, FlushRemove
<1>2. CASE CompStep
  BY <1>2 DEF CompStep, CompStart, CompMerge, CompInstall, CompFails
<1>3. CASE GcStep
  BY <1>3 DEF GcStep, GcStart, GcList, GcWrite, GcCommit, GcFails
<1>4. CASE TailStep
  BY <1>4 DEF TailStep, DeleteFiles
<1>5. CASE UNCHANGED vars
  BY <1>5 DEF vars
<1> QED BY <1>1, <1>2, <1>3, <1>4, <1>5

\* Sequences are handed out once: replay starts after all that were applied.
LEMMA NumbersKept ==
    ASSUME TypeInv, IdsInv, NumberInv, [Next]_vars
    PROVE  NumberInv'
<1>1. /\ nextSequence \in Nat /\ \A op \in log : op.seq \in Nat
      /\ pc \in [Writers -> {"idle", "encode"}] /\ req \in [Writers -> Operation]
      /\ \A w \in Writers : req[w].seq \in Nat
  BY OperationFields DEF TypeInv, TypeOK
<1>2. ASSUME NEW w \in Writers, NEW k \in Keys, NEW kind \in Kinds, BeginWrite(w, k, kind)
      PROVE  NumberInv'
  <2> DEFINE op == [seq |-> nextSequence, key |-> k, kind |-> kind]
  <2>1. /\ life = "open" /\ life' = life /\ log' = log /\ nextSequence' = nextSequence + 1
        /\ req' = [req EXCEPT ![w] = op] /\ pc' = [pc EXCEPT ![w] = "encode"]
    BY <1>2 DEF BeginWrite
  <2>2. op.seq = nextSequence
    OBVIOUS
  <2> HIDE DEF op
  <2>3. req'[w].seq = nextSequence /\ pc'[w] = "encode"
    BY <1>1, <2>1, <2>2
  <2>4. \A v \in Writers : v # w => req'[v] = req[v] /\ pc'[v] = pc[v]
    BY <1>1, <2>1
  <2>5. /\ \A o \in log : o.seq < nextSequence
        /\ \A v \in Writers : pc[v] = "encode" => req[v].seq < nextSequence
    BY <2>1 DEF NumberInv
  <2>6. OneEach(log')
    BY <2>1 DEF NumberInv
  <2>7. \A v \in Writers : pc'[v] = "encode" => \A o \in log : o.seq # req'[v].seq
    BY <1>1, <2>3, <2>4, <2>5 DEF NumberInv
  <2>8. \A u, v \in Writers :
           pc'[u] = "encode" /\ pc'[v] = "encode" /\ req'[u].seq = req'[v].seq => u = v
    BY <1>1, <2>3, <2>4, <2>5 DEF NumberInv
  <2>9. /\ \A o \in log : o.seq < nextSequence'
        /\ \A v \in Writers : pc'[v] = "encode" => req'[v].seq < nextSequence'
    BY <1>1, <2>1, <2>3, <2>4, <2>5
  <2> QED BY <2>1, <2>6, <2>7, <2>8, <2>9 DEF NumberInv
<1>3. ASSUME NEW w \in Writers, ApplyWrite(w) PROVE NumberInv'
  <2>1. /\ life = "open" /\ life' = life /\ log' = log \cup {req[w]} /\ nextSequence' = nextSequence
        /\ req' = req /\ pc' = [pc EXCEPT ![w] = "idle"] /\ pc[w] = "encode"
    BY <1>3 DEF ApplyWrite
  <2>2. \A v \in Writers : pc'[v] = "encode" => v # w /\ pc[v] = "encode"
    BY <1>1, <2>1
  <2>3. /\ OneEach(log) /\ \A o \in log : o.seq # req[w].seq
        /\ \A o \in log' : o.seq < nextSequence
    BY <2>1 DEF NumberInv
  <2>4. OneEach(log')
    BY <2>1, <2>3 DEF OneEach
  <2>5. \A v \in Writers : pc'[v] = "encode" => \A o \in log' : o.seq # req'[v].seq
    BY <2>1, <2>2 DEF NumberInv
  <2> QED BY <2>1, <2>2, <2>3, <2>4, <2>5 DEF NumberInv
<1>4. CASE FlushStep \/ CompStep \/ GcStep \/ TailStep \/ UNCHANGED vars
  BY <1>4, JobsWriteNothing DEF NumberInv
<1>5. CASE Crash
  BY <1>5 DEF Crash, ForgetState, NumberInv
<1>6. CASE Open
  <2>1. PICK top \in Nat : /\ life = "closed" /\ life' = "open"
                           /\ disk.maxSequence <= top /\ \A op \in Replayed : op.seq <= top
                           /\ nextSequence' = top + 1 /\ UNCHANGED <<log, pc, req>>
    BY <1>6, OpenEffect
  <2>2. \A w \in Writers : pc[w] = "idle"
    BY <2>1 DEF TypeInv, PhaseInv
  <2>3. disk.maxSequence \in Nat
    BY Positions
  <2>4. \A op \in log : op.seq < top + 1
    BY <1>1, <2>1, <2>3 DEF Replayed
  <2> QED BY <2>1, <2>2, <2>4 DEF NumberInv
<1> QED BY <1>2, <1>3, <1>4, <1>5, <1>6 DEF Next

\* A longer journal.
LEMMA SoundLater ==
    ASSUME NEW ops, NEW more, ops \subseteq more, NEW tables, NEW n, Sound(ops, tables, n)
    PROVE  Sound(more, tables, n)
  BY DEF Sound, Genuine

\* Tables, on disk and in memory, stay sound.
LEMMA SoundKept ==
    ASSUME IInv, JobsInv, OrderInv, [Next]_vars
    PROVE  SoundInv'
<1>1. TypeInv /\ FileInv /\ SoundInv
  BY DEF IInv, OrderInv
<1>2. CASE \/ \E w \in Writers, k \in Keys, kind \in Kinds : BeginWrite(w, k, kind)
           \/ TailStep
           \/ UNCHANGED vars
  <2>1. NothingMoves /\ disk' = disk
    BY <1>2, QuietEffect
  <2> QED BY <1>1, <2>1 DEF NothingMoves, SameTables, MemsSame, SoundInv
<1>3. ASSUME NEW w \in Writers, ApplyWrite(w) PROVE SoundInv'
  <2>1. log \subseteq log' /\ UNCHANGED <<disk, manifest, life>>
    BY <1>3 DEF ApplyWrite
  <2>2. /\ Sound(log, disk.tables, disk.maxSequence)
        /\ life = "open" => Sound(log, manifest.tables, manifest.maxSequence)
    BY <1>1 DEF SoundInv
  <2>3. /\ Sound(log', disk.tables, disk.maxSequence)
        /\ life = "open" => Sound(log', manifest.tables, manifest.maxSequence)
    BY <2>1, <2>2, SoundLater
  <2> QED BY <2>1, <2>3 DEF SoundInv
<1>4. CASE FlushStep \/ CompStep \/ GcStep
  <2>1. log' = log /\ life' = life
    BY <1>4, JobsWriteNothing
  <2>2. /\ disk' = disk \/ \E m : Candidate(m) /\ disk' = m
        /\ \/ SameTables
           \/ \E m : /\ Candidate(m) /\ manifest'.tables = m.tables
                     /\ manifest'.maxSequence = m.maxSequence
    BY <1>1, <1>4, ManifestsMove
  <2>3. \A m : Candidate(m) => Sound(log, m.tables, m.maxSequence)
    BY <1>1, CandidateSound
  <2>4. Sound(log, disk'.tables, disk'.maxSequence)
    BY <1>1, <2>2, <2>3 DEF SoundInv
  <2>5. life = "open" => Sound(log, manifest'.tables, manifest'.maxSequence)
    BY <1>1, <2>2, <2>3 DEF SoundInv, SameTables
  <2> QED BY <2>1, <2>4, <2>5 DEF SoundInv
<1>5. CASE Crash
  BY <1>1, <1>5 DEF Crash, ForgetState, SoundInv
<1>6. CASE Open
  <2>1. manifest' = disk /\ disk' = disk /\ log' = log
    BY <1>1, <1>6, OpenEffect DEF FileInv
  <2> QED BY <1>1, <2>1 DEF SoundInv
<1> QED BY <1>2, <1>3, <1>4, <1>5, <1>6 DEF Next

\* A write goes to the last memtable, unless there is a newer record of its key; a full
\* memtable gets an empty one after it.
LEMMA WrittenLayers ==
    ASSUME TypeInv, IdsInv, OrderInv, NEW w \in Writers, ApplyWrite(w)
    PROVE  \E n \in Nat, op \in Operation :
               /\ n = Len(immutables) /\ op = req[w]
               /\ life = "open" /\ op.seq # 0 /\ log' = log \cup {op}
               /\ \A o \in log : o.seq # op.seq
               /\ UNCHANGED <<life, manifest, disk>>
               /\ flushPc' = "remove" <=> flushPc = "remove"
               /\ flushPc = "remove" => n # 0
               /\ Len(immutables') = n \/ Len(immutables') = n + 1
               /\ \A i \in 1..n : Mem(i)' = Mem(i)
               /\ Mem(n + 1)' \in MemTable
               /\ Mem(n + 1).maxSeq <= Mem(n + 1)'.maxSeq /\ op.seq <= Mem(n + 1)'.maxSeq
               /\ Mem(n + 1)'.recs = IF Lookup(op.key).seq > op.seq THEN Mem(n + 1).recs
                                     ELSE [Mem(n + 1).recs EXCEPT ![op.key] = RecordOf(op)]
               /\ Len(immutables') = n + 1 => Mem(n + 2)' = EmptyMem
<1> DEFINE op  == req[w]
           mem == Applied(mutable, op)
           full == mem.ops >= MemTableOps /\ ~IsEmptyMem(mem)
<1>1. PICK n \in Nat : n = Len(immutables)
  BY Positions
<1>2. /\ pc[w] = "encode" /\ life = "open" /\ log' = log \cup {op} /\ UNCHANGED <<life, manifest, disk>>
      /\ mutable' = IF full THEN EmptyMem ELSE mem
      /\ immutables' = IF full THEN Append(immutables, mem) ELSE immutables
      /\ flushPc' = IF full /\ flushPc = "idle" THEN "queued" ELSE flushPc
  BY DEF ApplyWrite
<1>3. op \in Operation /\ op.seq # 0 /\ \A o \in log : o.seq # op.seq
  BY <1>2 DEF TypeInv, TypeOK, RecsInv, OrderInv, NumberInv
<1>4. mutable \in MemTable /\ immutables \in Seq(MemTable) /\ Mem(n + 1) = mutable
  <2>1. ~(n + 1 <= n)
    BY <1>1
  <2> QED BY <1>1, <2>1 DEF TypeInv, TypeOK, Mem, MemAt
<1> HIDE DEF op
<1>5. /\ mem \in MemTable /\ mutable.maxSeq <= mem.maxSeq /\ op.seq <= mem.maxSeq
      /\ mem.recs = IF Lookup(op.key).seq > op.seq THEN mutable.recs
                    ELSE [mutable.recs EXCEPT ![op.key] = RecordOf(op)]
  BY <1>3, <1>4, AppliedEffect
<1> HIDE DEF mem, full
<1>6. flushPc = "remove" => n # 0
  BY <1>1, <1>4 DEF TypeInv, PhaseInv
<1>7. /\ Len(immutables') = n \/ Len(immutables') = n + 1
      /\ \A i \in 1..n : Mem(i)' = Mem(i)
      /\ Mem(n + 1)' = mem
      /\ Len(immutables') = n + 1 => Mem(n + 2)' = EmptyMem
  <2>1. CASE ~full
    <3>1. immutables' = immutables /\ mutable' = mem
      BY <1>2, <2>1
    <3>2. n # n + 1 /\ ~(n + 1 <= n) /\ \A i \in 1..n : i <= n
      BY <1>1
    <3> QED BY <1>1, <3>1, <3>2 DEF Mem, MemAt
  <2>2. CASE full
    <3>1. immutables' = Append(immutables, mem) /\ mutable' = EmptyMem
      BY <1>2, <2>2
    <3>2. /\ Len(immutables') = n + 1 /\ immutables'[n + 1] = mem
          /\ \A i \in 1..n : immutables'[i] = immutables[i]
      BY <1>1, <1>4, <1>5, <3>1
    <3>3. n + 1 <= n + 1 /\ ~(n + 2 <= n + 1) /\ \A i \in 1..n : i <= n /\ i <= n + 1
      BY <1>1
    <3> QED BY <1>1, <3>1, <3>2, <3>3 DEF Mem, MemAt
  <2> QED BY <2>1, <2>2
<1>8. flushPc' = "remove" <=> flushPc = "remove"
  BY <1>2
<1>9. Mem(n + 1).maxSeq <= Mem(n + 1)'.maxSeq /\ op.seq <= Mem(n + 1)'.maxSeq
  BY <1>4, <1>5, <1>7
<1>10. /\ Mem(n + 1)' \in MemTable
       /\ Mem(n + 1)'.recs = IF Lookup(op.key).seq > op.seq THEN Mem(n + 1).recs
                             ELSE [Mem(n + 1).recs EXCEPT ![op.key] = RecordOf(op)]
  BY <1>4, <1>5, <1>7
<1> QED BY <1>1, <1>2, <1>3, <1>6, <1>7, <1>8, <1>9, <1>10 DEF op

\* The operation has a sequence of its own: it is above what is found of its key, so
\* above all of it.
LEMMA LayersWritten ==
    ASSUME TypeInv, IdsInv, OrderInv, NEW w \in Writers, ApplyWrite(w)
    PROVE  LayersInv'
<1>1. PICK n \in Nat, op \in Operation :
         /\ n = Len(immutables)
         /\ life = "open" /\ op.seq # 0 /\ log' = log \cup {op}
         /\ \A o \in log : o.seq # op.seq
         /\ UNCHANGED <<life, manifest, disk>>
         /\ flushPc' = "remove" <=> flushPc = "remove"
         /\ flushPc = "remove" => n # 0
         /\ Len(immutables') = n \/ Len(immutables') = n + 1
         /\ \A i \in 1..n : Mem(i)' = Mem(i)
         /\ Mem(n + 1)' \in MemTable
         /\ Mem(n + 1).maxSeq <= Mem(n + 1)'.maxSeq /\ op.seq <= Mem(n + 1)'.maxSeq
         /\ Mem(n + 1)'.recs = IF Lookup(op.key).seq > op.seq THEN Mem(n + 1).recs
                               ELSE [Mem(n + 1).recs EXCEPT ![op.key] = RecordOf(op)]
         /\ Len(immutables') = n + 1 => Mem(n + 2)' = EmptyMem
  BY WrittenLayers
<1>2. LayersInv
  BY <1>1 DEF OrderInv
<1>3. /\ Layers = 1..(n + 1) /\ n + 1 \in Layers /\ (n # 0 => 1 \in 1..n)
      /\ \A i \in Layers' : i \in 1..n \/ i = n + 1 \/ (i = n + 2 /\ Mem(i)' = EmptyMem)
      /\ \A i \in 1..n : i \in Layers
  BY <1>1 DEF Layers
<1>4. /\ op.seq \in Nat /\ op.key \in Keys /\ RecordOf(op).seq = op.seq
      /\ RecordOf(op).del <=> op.kind = "erase"
      /\ RecordOf(op).big <=> op.kind = "blob"
  BY OperationFields
<1>5. /\ \A i \in Layers : /\ Mem(i).recs \in [Keys -> Record] /\ Mem(i).maxSeq \in Nat
                           /\ \A k \in Keys : Mem(i).recs[k].seq \in Nat
      /\ Mem(n + 1)'.maxSeq \in Nat
  BY <1>1, LayerTypes, MemFields
<1>6. \A k \in Keys : EmptyMem.recs[k] = NoRecord /\ NoRecord.seq = 0 /\ EmptyMem.maxSeq = 0
  BY EmptyTypes
<1>7. \A k \in Keys : /\ Lookup(k).seq \in Nat
                      /\ \A i \in Layers : Mem(i).recs[k].seq <= Lookup(k).seq
                      /\ \A t \in manifest.tables : t.recs[k].seq <= Lookup(k).seq /\ t.recs[k].seq \in Nat
  BY <1>1, NewestFound, OpenTables
<1>8. ASSUME NEW k \in Keys
      PROVE  \/ Mem(n + 1)'.recs[k] = Mem(n + 1).recs[k]
             \/ k = op.key /\ Mem(n + 1)'.recs[k] = RecordOf(op) /\ Lookup(k).seq < op.seq
  <2>1. CASE k # op.key \/ Lookup(op.key).seq > op.seq
    BY <1>1, <1>3, <1>5, <2>1
  <2>2. CASE k = op.key /\ ~(Lookup(op.key).seq > op.seq)
    <3>1. Mem(n + 1)'.recs[k] = RecordOf(op)
      BY <1>1, <1>3, <1>4, <1>5, <2>2
    <3>2. Lookup(k).seq # op.seq
      <4>1. Genuine(log, Lookup(k), k)
        BY <1>1, NewestFound
      <4> QED BY <1>1, <4>1 DEF Genuine
    <3> QED BY <1>4, <1>7, <2>2, <3>1, <3>2
  <2> QED BY <2>1, <2>2
<1>9. ASSUME NEW k \in Keys, NEW r, Genuine(log, r, k) PROVE Genuine(log', r, k)
  BY <1>1, <1>9 DEF Genuine
<1>10. ASSUME NEW i \in Layers', NEW k \in Keys
       PROVE  Genuine(log', Mem(i)'.recs[k], k) /\ Mem(i)'.recs[k].seq <= Mem(i)'.maxSeq
  <2>1. CASE i \in 1..n
    BY <1>1, <1>2, <1>3, <1>9, <2>1 DEF LayersInv
  <2>2. CASE i = n + 1
    <3>1. CASE Mem(i)'.recs[k] = Mem(i).recs[k]
      <4>1. Genuine(log, Mem(i).recs[k], k) /\ Mem(i).recs[k].seq <= Mem(i).maxSeq
        BY <1>2, <1>3, <2>2 DEF LayersInv
      <4>2. Mem(i)'.recs[k].seq <= Mem(i)'.maxSeq
        BY <1>1, <1>3, <1>5, <2>2, <3>1, <4>1
      <4> QED BY <1>9, <3>1, <4>1, <4>2
    <3>2. CASE k = op.key /\ Mem(i)'.recs[k] = RecordOf(op)
      <4>1. Genuine(log', RecordOf(op), k)
        BY <1>1, <1>4, <3>2 DEF Genuine
      <4> QED BY <1>1, <1>4, <2>2, <3>2, <4>1
    <3> QED BY <1>8, <2>2, <3>1, <3>2
  <2>3. CASE i = n + 2 /\ Mem(i)' = EmptyMem
    BY <1>6, <2>3 DEF Genuine
  <2> QED BY <1>3, <2>1, <2>2, <2>3
<1>11. ASSUME NEW i \in Layers', NEW j \in Layers', i < j
       PROVE  Above(Mem(j)'.recs, Mem(i)'.recs)
  <2>1. CASE j \in 1..n
    <3>1. i \in 1..n
      BY <1>3, <1>11, <2>1
    <3> QED BY <1>1, <1>2, <1>3, <1>11, <2>1, <3>1 DEF LayersInv
  <2>2. CASE j = n + 1
    <3>1. i \in 1..n
      BY <1>3, <1>11, <2>2
    <3>2. Mem(i)' = Mem(i) /\ i \in Layers /\ Above(Mem(j).recs, Mem(i).recs)
      BY <1>1, <1>2, <1>3, <1>11, <2>2, <3>1 DEF LayersInv
    <3> SUFFICES ASSUME NEW k \in Keys, Mem(j)'.recs[k].seq # 0
                 PROVE  Mem(i)'.recs[k].seq < Mem(j)'.recs[k].seq
      BY DEF Above
    <3>3. CASE Mem(j)'.recs[k] = Mem(j).recs[k]
      BY <3>2, <3>3 DEF Above
    <3>4. CASE k = op.key /\ Mem(j)'.recs[k] = RecordOf(op) /\ Lookup(k).seq < op.seq
      BY <1>4, <1>5, <1>7, <3>2, <3>4
    <3> QED BY <1>8, <2>2, <3>3, <3>4
  <2>3. CASE Mem(j)' = EmptyMem
    BY <1>6, <2>3 DEF Above
  <2> QED BY <1>3, <2>1, <2>2, <2>3
<1>12. ASSUME NEW i \in Layers', ~(i = 1 /\ flushPc' = "remove"), NEW t \in manifest'.tables
       PROVE  Above(Mem(i)'.recs, t.recs)
  <2>1. t \in manifest.tables
    BY <1>1
  <2>2. i \in Layers => Above(Mem(i).recs, t.recs)
    BY <1>1, <1>2, <1>12, <2>1 DEF LayersInv
  <2>3. CASE i \in 1..n
    BY <1>1, <1>3, <2>2, <2>3
  <2>4. CASE i = n + 1
    <3> SUFFICES ASSUME NEW k \in Keys, Mem(i)'.recs[k].seq # 0
                 PROVE  t.recs[k].seq < Mem(i)'.recs[k].seq
      BY DEF Above
    <3>1. CASE Mem(i)'.recs[k] = Mem(i).recs[k]
      BY <1>3, <2>2, <2>4, <3>1 DEF Above
    <3>2. CASE k = op.key /\ Mem(i)'.recs[k] = RecordOf(op) /\ Lookup(k).seq < op.seq
      BY <1>4, <1>7, <2>1, <3>2
    <3> QED BY <1>8, <2>4, <3>1, <3>2
  <2>5. CASE Mem(i)' = EmptyMem
    BY <1>6, <2>5 DEF Above
  <2> QED BY <1>3, <2>3, <2>4, <2>5
<1>13. flushPc' = "remove" => \A k \in Keys : Mem(1)'.recs[k].seq # 0 => Moved(Mem(1).recs[k], k)'
  <2>1. flushPc' = "remove" => Mem(1)' = Mem(1) /\ manifest' = manifest /\ flushPc = "remove"
    BY <1>1, <1>3
  <2>2. flushPc = "remove" =>
          \A k \in Keys : Mem(1).recs[k].seq # 0 => Moved(Mem(1).recs[k], k)
    BY <1>2 DEF LayersInv
  <2> QED BY <2>1, <2>2 DEF Moved
<1> QED BY <1>10, <1>11, <1>12, <1>13 DEF LayersInv

\* Replay starts above the tables.
LEMMA LayersOpened ==
    ASSUME TypeInv, IdsInv, OrderInv, Open
    PROVE  LayersInv'
<1>1. PICK top \in Nat :
         /\ life = "closed" /\ manifest' = disk /\ mutable'.recs = ReplayedRecs
         /\ mutable'.maxSeq = IF Replayed = {} THEN 0 ELSE top
         /\ \A op \in Replayed : op.seq <= top
         /\ UNCHANGED <<immutables, log, flushPc>>
  BY OpenEffect
<1>2. immutables' = <<>> /\ flushPc' = "idle" /\ disk.maxSequence \in Nat
  BY <1>1, Positions DEF TypeInv, PhaseInv
<1>3. Layers' = {1} /\ Mem(1)' = mutable'
  <2>1. Len(immutables') = 0
    BY <1>2
  <2>2. 1..(0 + 1) = {1} /\ ~(1 <= 0)
    OBVIOUS
  <2> QED BY <2>1, <2>2 DEF Layers, Mem, MemAt
<1>4. ASSUME NEW k \in Keys
      PROVE  /\ Genuine(log, ReplayedRecs[k], k) /\ ReplayedRecs[k].seq <= mutable'.maxSeq
             /\ ReplayedRecs[k].seq # 0 => disk.maxSequence < ReplayedRecs[k].seq
  <2>1. CASE ReplayedRecs[k] = NoRecord
    BY <1>1, <2>1, EmptyTypes DEF Genuine
  <2>2. ASSUME NEW op \in Replayed, op.key = k, ReplayedRecs[k] = RecordOf(op)
        PROVE  /\ Genuine(log, ReplayedRecs[k], k) /\ ReplayedRecs[k].seq <= mutable'.maxSeq
               /\ ReplayedRecs[k].seq # 0 => disk.maxSequence < ReplayedRecs[k].seq
    <3>1. op \in log /\ op \in Operation /\ disk.maxSequence < op.seq /\ op.seq <= mutable'.maxSeq
      BY <1>1, <1>2, Positions DEF Replayed
    <3>2. /\ RecordOf(op).seq = op.seq
          /\ RecordOf(op).del <=> op.kind = "erase"
          /\ RecordOf(op).big <=> op.kind = "blob"
      BY <3>1, OperationFields
    <3>3. Genuine(log, RecordOf(op), k)
      BY <2>2, <3>1, <3>2 DEF Genuine
    <3> QED BY <2>2, <3>1, <3>2, <3>3
  <2> QED BY <2>1, <2>2, ReplayedNewest
<1>5. \A t \in disk.tables : \A k \in Keys : t.recs[k].seq <= disk.maxSequence /\ t.recs[k].seq \in Nat
  BY TableFields, RecordFields, ManifestFields DEF TypeInv, TypeOK, OrderInv, SoundInv, Sound
<1>6. \A k \in Keys : ReplayedRecs[k].seq \in Nat
  BY ReplayedOK, RecordFields
<1>7. ASSUME NEW t \in disk.tables PROVE Above(ReplayedRecs, t.recs)
  BY <1>2, <1>4, <1>5, <1>6 DEF Above
<1> QED BY <1>1, <1>2, <1>3, <1>4, <1>7 DEF LayersInv

\* The order of records is kept by every step.
LEMMA OrderKept ==
    ASSUME IInv, JobsInv, OrderInv, [Next]_vars
    PROVE  OrderInv'
<1>1. TypeInv /\ IdsInv /\ FileInv
  BY DEF IInv, FileInv
<1>2. NumberInv' /\ SoundInv'
  BY <1>1, NumbersKept, SoundKept DEF OrderInv
<1>3. ASSUME life' = "open" PROVE LayersInv'
  <2>1. CASE \/ \E w \in Writers, k \in Keys, kind \in Kinds : BeginWrite(w, k, kind)
             \/ TailStep
             \/ UNCHANGED vars
    <3>1. NothingMoves
      BY <2>1, QuietEffect
    <3> QED BY <1>3, <3>1, LayersQuiet DEF OrderInv, NothingMoves, MemsSame
  <2>2. CASE \E w \in Writers : ApplyWrite(w)
    BY <1>1, <2>2, LayersWritten
  <2>3. CASE FlushStep \/ CompStep \/ GcStep
    <3>1. life = "open" /\ LayersInv
      BY <1>3, <2>3, JobsWriteNothing DEF OrderInv
    <3>2. NothingMoves \/ HeadCopied \/ HeadDropped \/ SomeRewrite
      BY <1>1, <2>3, FlushEffect, CompEffect, CollectEffect DEF JobsInv
    <3> QED BY <1>1, <3>1, <3>2, LayersQuiet, LayersCopied, LayersDropped, LayersRewritten
  <2>4. CASE Crash
    BY <1>3, <2>4 DEF Crash, ForgetState
  <2>5. CASE Open
    BY <1>1, <2>5, LayersOpened
  <2> QED BY <2>1, <2>2, <2>3, <2>4, <2>5 DEF Next
<1> QED BY <1>2, <1>3 DEF OrderInv

-----------------------------------------------------------------------------
(* What get() finds, step by step.                                         *)

\* Memtables that have nothing of k do not count.
LEMMA SameFound ==
    ASSUME NEW imms \in Seq(MemTable), NEW mut, NEW imms2 \in Seq(MemTable), NEW mut2,
           NEW tables, NEW k, Len(imms) <= Len(imms2),
           \A i \in 1..(Len(imms) + 1) : MemAt(imms2, mut2, i).recs[k] = MemAt(imms, mut, i).recs[k],
           \A i \in 1..(Len(imms2) + 1) :
              i > Len(imms) + 1 => MemAt(imms2, mut2, i).recs[k].seq = 0
    PROVE  Found(imms2, mut2, tables, k) = Found(imms, mut, tables, k)
<1>1. Len(imms) \in Nat /\ Len(imms2) \in Nat
  OBVIOUS
<1>2. \A i \in 1..(Len(imms2) + 1) : i \in 1..(Len(imms) + 1) \/ i > Len(imms) + 1
  BY <1>1
<1>3. ASSUME NEW i \in Nat, LastAt(imms, mut, k, i),
             Found(imms, mut, tables, k) = MemAt(imms, mut, i).recs[k]
      PROVE  Found(imms2, mut2, tables, k) = Found(imms, mut, tables, k)
  <2>1. i \in 1..(Len(imms) + 1) /\ i \in 1..(Len(imms2) + 1)
    BY <1>1, <1>3 DEF LastAt
  <2>2. \A j \in 1..(Len(imms2) + 1) : i < j => MemAt(imms2, mut2, j).recs[k].seq = 0
    BY <1>2, <1>3 DEF LastAt
  <2>3. LastAt(imms2, mut2, k, i)
    BY <1>3, <2>1, <2>2 DEF LastAt
  <2> QED BY <1>3, <2>1, <2>3, FoundLast
<1>4. ASSUME NoneAt(imms, mut, k), Found(imms, mut, tables, k) = TableLookup(tables, k)
      PROVE  Found(imms2, mut2, tables, k) = Found(imms, mut, tables, k)
  <2>1. NoneAt(imms2, mut2, k)
    BY <1>2, <1>4 DEF NoneAt
  <2> QED BY <1>4, <2>1, FoundLast
<1> QED BY <1>3, <1>4, FoundIn

\* Tables without k do not count.
LEMMA SameTableLookup ==
    ASSUME NEW tables, NEW t, NEW k, t.recs[k].seq = 0
    PROVE  TableLookup(tables \cup {t}, k) = TableLookup(tables, k)
<1> DEFINE First(holding) == IF holding = {} THEN NoRecord
                             ELSE LET first == CHOOSE v \in holding :
                                                  \A u \in holding \ {v} : NewerTable(v, u)
                                  IN  first.recs[k]
           Of(S) == {u \in S : u.recs[k].seq # 0}
<1>1. TableLookup(tables, k) = First(Of(tables))
  BY DEF TableLookup
<1>2. TableLookup(tables \cup {t}, k) = First(Of(tables \cup {t}))
  BY DEF TableLookup
<1>3. Of(tables \cup {t}) = Of(tables)
  OBVIOUS
<1> HIDE DEF First, Of
<1> QED BY <1>1, <1>2, <1>3

\* Only the oldest memtable may have k.
OnlyHead(k) == \A i \in Layers : i # 1 => Mem(i).recs[k].seq = 0

\* The record that get() finds is in the tables as well, should a flush be about to drop
\* the memtable that has it.
Stays(k) == flushPc = "remove" /\ OnlyHead(k) =>
                \E t \in manifest.tables : t.recs[k].seq = Lookup(k).seq

\* A write is found, unless there is something newer; it changes no other key.
LEMMA LookupWritten ==
    ASSUME TypeInv, IdsInv, OrderInv, NEW w \in Writers, ApplyWrite(w), NEW k \in Keys
    PROVE  \/ /\ k = req[w].key /\ ~(Lookup(k).seq > req[w].seq)
              /\ Lookup(k)' = RecordOf(req[w]) /\ (flushPc' = "remove" => ~OnlyHead(k)')
           \/ /\ k = req[w].key => Lookup(k).seq > req[w].seq
              /\ Lookup(k)' = Lookup(k) /\ (Stays(k) => Stays(k)')
<1>1. PICK n \in Nat, op \in Operation :
         /\ n = Len(immutables) /\ op = req[w] /\ op.seq # 0
         /\ UNCHANGED <<life, manifest, disk>>
         /\ flushPc' = "remove" <=> flushPc = "remove"
         /\ flushPc = "remove" => n # 0
         /\ Len(immutables') = n \/ Len(immutables') = n + 1
         /\ \A i \in 1..n : Mem(i)' = Mem(i)
         /\ Mem(n + 1)' \in MemTable
         /\ Mem(n + 1)'.recs = IF Lookup(op.key).seq > op.seq THEN Mem(n + 1).recs
                               ELSE [Mem(n + 1).recs EXCEPT ![op.key] = RecordOf(op)]
         /\ Len(immutables') = n + 1 => Mem(n + 2)' = EmptyMem
  BY WrittenLayers
<1>2. immutables \in Seq(MemTable) /\ immutables' \in Seq(MemTable)
  BY ApplyWriteTypes DEF TypeInv, TypeOK
<1>3. /\ Layers = 1..(n + 1) /\ Layers' = 1..(Len(immutables') + 1)
      /\ n + 1 \in Layers /\ n + 1 \in Layers'
      /\ \A i \in Layers : i \in Layers' /\ (i \in 1..n \/ i = n + 1)
      /\ \A i \in Layers' : i > n + 1 => Mem(i)' = EmptyMem
      /\ \A i \in Layers' : i \in Layers \/ i > n + 1
  <2>1. Layers = 1..(n + 1) /\ Layers' = 1..(Len(immutables') + 1)
    BY <1>1 DEF Layers
  <2>2. \A i \in Layers' : i > n + 1 => Len(immutables') = n + 1 /\ i = n + 2
    BY <1>1, <2>1
  <2>3. \A i \in Layers' : i > n + 1 => Mem(i)' = EmptyMem
    BY <1>1, <2>2
  <2>4. /\ n + 1 \in Layers /\ n + 1 \in Layers'
        /\ \A i \in Layers : i \in Layers' /\ (i \in 1..n \/ i = n + 1)
        /\ \A i \in Layers' : i \in Layers \/ i > n + 1
    BY <1>1, <2>1
  <2> QED BY <2>1, <2>3, <2>4
<1>4. op.seq \in Nat /\ op.key \in Keys /\ RecordOf(op).seq = op.seq
  BY OperationFields
<1>5. \A i \in Layers' : i > n + 1 => Mem(i)'.recs[k].seq = 0
  BY <1>3, EmptyTypes
<1>6. Mem(n + 1).recs \in [Keys -> Record]
  BY <1>3, LayerTypes
<1>7. CASE k = op.key /\ ~(Lookup(op.key).seq > op.seq)
  <2>1. Mem(n + 1)'.recs[k] = RecordOf(op)
    BY <1>1, <1>4, <1>6, <1>7
  <2>2. MemAt(immutables', mutable', n + 1).recs[k] = RecordOf(op)
    BY <2>1 DEF Mem
  <2>3. \A j \in 1..(Len(immutables') + 1) :
           n + 1 < j => MemAt(immutables', mutable', j).recs[k].seq = 0
    BY <1>1, <1>3, <1>5 DEF Mem
  <2>4. LastAt(immutables', mutable', k, n + 1) /\ n + 1 \in Nat
    BY <1>1, <1>3, <1>4, <2>2, <2>3 DEF LastAt
  <2>5. Found(immutables', mutable', manifest'.tables, k) = RecordOf(op)
    BY <1>2, <2>2, <2>4, FoundLast
  <2>6. Lookup(k)' = RecordOf(op)
    BY <2>5, LookupFound
  <2>7. flushPc' = "remove" => ~OnlyHead(k)'
    <3>1. flushPc' = "remove" => n + 1 # 1
      BY <1>1
    <3> QED BY <1>1, <1>3, <1>4, <2>1, <3>1 DEF OnlyHead
  <2> QED BY <1>1, <1>7, <2>6, <2>7
<1>8. CASE ~(k = op.key /\ ~(Lookup(op.key).seq > op.seq))
  <2>1. Mem(n + 1)'.recs[k] = Mem(n + 1).recs[k]
    BY <1>1, <1>4, <1>6, <1>8
  <2>2. \A i \in Layers : Mem(i)'.recs[k] = Mem(i).recs[k]
    BY <1>1, <1>3, <2>1
  <2>3. Found(immutables', mutable', manifest.tables, k) = Found(immutables, mutable, manifest.tables, k)
    <3>1. /\ Len(immutables) <= Len(immutables')
          /\ \A i \in 1..(Len(immutables) + 1) :
                MemAt(immutables', mutable', i).recs[k] = MemAt(immutables, mutable, i).recs[k]
          /\ \A i \in 1..(Len(immutables') + 1) :
                i > Len(immutables) + 1 => MemAt(immutables', mutable', i).recs[k].seq = 0
      BY <1>1, <1>3, <1>5, <2>2 DEF Mem
    <3> QED BY <1>2, <3>1, SameFound
  <2>4. Lookup(k)' = Lookup(k)
    BY <1>1, <2>3, LookupFound
  <2>5. OnlyHead(k)' => OnlyHead(k)
    BY <1>3, <2>2 DEF OnlyHead
  <2>6. Stays(k) => Stays(k)'
    BY <1>1, <2>4, <2>5 DEF Stays
  <2> QED BY <1>1, <1>8, <2>4, <2>6
<1> QED BY <1>7, <1>8

\* Nothing moves: the same is found.
LEMMA LookupQuiet ==
    ASSUME NothingMoves, NEW k
    PROVE  Lookup(k)' = Lookup(k) /\ (Stays(k) => Stays(k)')
<1>1. /\ Lookup(k)' = Found(immutables, mutable, manifest'.tables, k)
      /\ Lookup(k) = Found(immutables, mutable, manifest.tables, k)
      /\ Layers' = Layers /\ \A i : Mem(i)' = Mem(i)
  BY LookupFound DEF NothingMoves, MemsSame, Layers, Mem
<1>2. manifest'.tables = manifest.tables
  BY DEF NothingMoves, SameTables
<1>3. Lookup(k)' = Lookup(k)
  BY <1>1, <1>2
<1>4. OnlyHead(k)' <=> OnlyHead(k)
  BY <1>1 DEF OnlyHead
<1> QED BY <1>2, <1>3, <1>4 DEF NothingMoves, Stays

\* A flush installs its table: its memtable is still found first.
LEMMA LookupCopied ==
    ASSUME TypeInv, IdsInv, OrderInv, HeadCopied, NEW k \in Keys
    PROVE  Lookup(k)' = Lookup(k) /\ Stays(k)'
<1>1. /\ life = "open" /\ immutables # <<>> /\ immutables \in Seq(MemTable)
      /\ manifest'.tables = manifest.tables \cup {flushTable}
      /\ flushTable.recs[k].seq = Head(immutables).recs[k].seq
      /\ Layers' = Layers /\ \A i : Mem(i)' = Mem(i)
  BY DEF HeadCopied, SameRecs, MemsSame, Layers, Mem, TypeInv, TypeOK
<1>2. 1 \in Layers /\ Mem(1) = Head(immutables) /\ 1 \in Nat
  <2>1. 1 \in 1..Len(immutables) /\ Head(immutables) = immutables[1]
    BY <1>1
  <2> QED BY <2>1, LayerTypes
<1>3. /\ Lookup(k) = Found(immutables, mutable, manifest.tables, k)
      /\ Lookup(k)' = Found(immutables, mutable, manifest'.tables, k)
  BY LookupFound DEF HeadCopied, MemsSame
<1>4. CASE \E i \in Nat : LastAt(immutables, mutable, k, i)
  <2>1. PICK i \in Nat : LastAt(immutables, mutable, k, i)
    BY <1>4
  <2>2. Lookup(k) = Mem(i).recs[k] /\ Lookup(k)' = Mem(i).recs[k]
    BY <1>1, <1>3, <2>1, FoundLast DEF Mem
  <2>3. OnlyHead(k)' => i = 1
    BY <1>1, <2>1 DEF OnlyHead, LastAt, Layers, Mem
  <2>4. OnlyHead(k)' => flushTable \in manifest'.tables /\ flushTable.recs[k].seq = Lookup(k)'.seq
    BY <1>1, <1>2, <2>2, <2>3
  <2> QED BY <2>2, <2>4 DEF Stays
<1>5. CASE NoneAt(immutables, mutable, k)
  <2>1. Lookup(k) = TableLookup(manifest.tables, k) /\ Lookup(k)' = TableLookup(manifest'.tables, k)
    BY <1>1, <1>3, <1>5, FoundLast
  <2>2. flushTable.recs[k].seq = 0
    BY <1>1, <1>2, <1>5 DEF NoneAt, Mem, Layers
  <2>3. Lookup(k)' = Lookup(k)
    <3>1. TableLookup(manifest.tables \cup {flushTable}, k) = TableLookup(manifest.tables, k)
      BY <2>2, SameTableLookup
    <3> QED BY <1>1, <2>1, <3>1
  <2>4. \/ \E t \in manifest.tables : TableLookup(manifest.tables, k) = t.recs[k]
        \/ TableLookup(manifest.tables, k) = NoRecord
    BY <1>1, OpenTables, FirstTable
  <2>5. \E t \in manifest'.tables : t.recs[k].seq = Lookup(k).seq
    BY <1>1, <2>1, <2>2, <2>4, EmptyTypes
  <2> QED BY <2>3, <2>5 DEF Stays
<1> QED BY <1>1, <1>4, <1>5, FoundIn

\* The write that a record comes from, 0 for an erased key.
Value(r) == IF r.del THEN 0 ELSE r.seq

\* A flush drops its memtable: the tables have its records.
LEMMA LookupDropped ==
    ASSUME TypeInv, IdsInv, OrderInv, HeadDropped, NEW k \in Keys
    PROVE  /\ Value(Lookup(k)') = Value(Lookup(k))
           /\ Stays(k) => Lookup(k)'.seq = Lookup(k).seq
           /\ Stays(k)'
<1>1. /\ life = "open" /\ immutables \in Seq(MemTable) /\ manifest'.tables = manifest.tables
      /\ flushPc = "remove" /\ flushPc' # "remove" /\ mutable' = mutable
  BY DEF HeadDropped, SameTables, TypeInv, TypeOK
<1>2. /\ Lookup(k) = Found(immutables, mutable, manifest.tables, k)
      /\ Lookup(k)' = Found(immutables', mutable', manifest.tables, k)
  BY <1>1, LookupFound
<1>3. /\ immutables' \in Seq(MemTable)
      /\ \A i \in Layers' : i \in Nat /\ i + 1 \in Layers /\ i + 1 # 1
      /\ \A i \in Layers : i # 1 => i - 1 \in Layers'
      /\ \A i \in Layers' : Mem(i)' = Mem(i + 1)
  BY DroppedLayers
<1>4. Stays(k)'
  BY <1>1 DEF Stays
<1>5. ASSUME NEW i \in Nat, LastAt(immutables, mutable, k, i), i # 1
      PROVE  Lookup(k)' = Lookup(k)
  <2>1. /\ i \in Layers /\ Mem(i).recs[k].seq # 0
        /\ \A j \in Layers : i < j => Mem(j).recs[k].seq = 0
    BY <1>5 DEF LastAt, Layers, Mem
  <2>2. PICK m \in Nat : m = i - 1 /\ i = m + 1
    <3>1. i \in 1..(Len(immutables) + 1)
      BY <1>5 DEF LastAt
    <3> QED BY <3>1
  <2>3. m \in Layers' /\ Mem(m)' = Mem(i)
    BY <1>3, <1>5, <2>1, <2>2
  <2>4. \A j \in Layers' : m < j => Mem(j)'.recs[k].seq = 0
    <3> SUFFICES ASSUME NEW j \in Layers', m < j PROVE Mem(j)'.recs[k].seq = 0
      OBVIOUS
    <3>1. i < j + 1 /\ j + 1 \in Layers /\ Mem(j)' = Mem(j + 1)
      BY <1>3, <2>2
    <3> QED BY <2>1, <3>1
  <2>5. /\ m \in 1..(Len(immutables') + 1) /\ MemAt(immutables', mutable', m) = Mem(i)
        /\ \A j \in 1..(Len(immutables') + 1) :
              m < j => MemAt(immutables', mutable', j).recs[k].seq = 0
    BY <2>3, <2>4 DEF Layers, Mem
  <2>6. LastAt(immutables', mutable', k, m)
    BY <2>1, <2>5 DEF LastAt
  <2>7. Found(immutables', mutable', manifest.tables, k) = Mem(i).recs[k]
    BY <1>3, <2>2, <2>5, <2>6, FoundLast
  <2>8. Found(immutables, mutable, manifest.tables, k) = Mem(i).recs[k]
    BY <1>1, <1>5, FoundLast DEF Mem
  <2> QED BY <1>2, <2>7, <2>8
<1>6. ASSUME \A i \in Layers : i # 1 => Mem(i).recs[k].seq = 0
      PROVE  Lookup(k)' = TableLookup(manifest.tables, k) /\ OnlyHead(k)
  <2>1. \A i \in Layers' : Mem(i)'.recs[k].seq = 0
    BY <1>3, <1>6
  <2>2. NoneAt(immutables', mutable', k)
    BY <2>1 DEF NoneAt, Layers, Mem
  <2> QED BY <1>2, <1>3, <1>6, <2>2, FoundLast DEF OnlyHead
<1>7. ASSUME NoneAt(immutables, mutable, k)
      PROVE  Lookup(k)' = Lookup(k)
  <2>1. Lookup(k) = TableLookup(manifest.tables, k)
    BY <1>1, <1>2, <1>7, FoundLast
  <2>2. \A i \in Layers : i # 1 => Mem(i).recs[k].seq = 0
    BY <1>7 DEF NoneAt, Layers, Mem
  <2> QED BY <1>6, <2>1, <2>2
<1>8. ASSUME LastAt(immutables, mutable, k, 1)
      PROVE  /\ Value(Lookup(k)') = Value(Lookup(k))
             /\ Stays(k) => Lookup(k)'.seq = Lookup(k).seq
  <2> DEFINE r == Mem(1).recs[k]
  <2>1. 1 \in Layers /\ r.seq # 0 /\ Lookup(k) = r
    BY <1>1, <1>2, <1>8, FoundLast DEF LastAt, Layers, Mem
  <2>2. \A i \in Layers : i # 1 => Mem(i).recs[k].seq = 0
    <3>1. \A i \in Layers : i # 1 => 1 < i
      BY LayerTypes DEF Layers
    <3> QED BY <1>8, <3>1 DEF LastAt, Layers, Mem
  <2>3. Lookup(k)' = TableLookup(manifest.tables, k) /\ OnlyHead(k)
    BY <1>6, <2>2
  <2>4. /\ Moved(r, k) /\ Genuine(log, r, k) /\ OneEach(log) /\ r.seq \in Nat
    BY <1>1, <2>1, LayerTypes DEF OrderInv, LayersInv, NumberInv
  <2>5. \A t \in manifest.tables : Genuine(log, t.recs[k], k) /\ t.recs[k].seq \in Nat
    BY <1>1, OpenTables
  <2>6. \/ \E t \in manifest.tables : /\ TableLookup(manifest.tables, k) = t.recs[k] /\ t.recs[k].seq # 0
                                      /\ \A u \in manifest.tables : u.recs[k].seq <= t.recs[k].seq
        \/ /\ TableLookup(manifest.tables, k) = NoRecord
           /\ \A t \in manifest.tables : t.recs[k].seq = 0
    BY <1>1, OpenTables, FirstTable
  <2> HIDE DEF r
  <2>7. ASSUME NEW t \in manifest.tables, t.recs[k].seq = r.seq,
               \A u \in manifest.tables : u.recs[k].seq <= r.seq
        PROVE  Lookup(k)'.seq = r.seq /\ Value(Lookup(k)') = Value(r)
    <3>1. PICK u \in manifest.tables :
             /\ TableLookup(manifest.tables, k) = u.recs[k]
             /\ \A v \in manifest.tables : v.recs[k].seq <= u.recs[k].seq
      BY <2>1, <2>6, <2>7
    <3>2. u.recs[k].seq = r.seq
      BY <2>4, <2>5, <2>7, <3>1
    <3>3. u.recs[k].del <=> r.del
      BY <2>1, <2>4, <2>5, <3>2, SameKind
    <3> QED BY <2>3, <3>1, <3>2, <3>3 DEF Value
  <2>8. ASSUME r.del, \A t \in manifest.tables : t.recs[k].seq = 0
        PROVE  Value(Lookup(k)') = Value(r) /\ ~Stays(k)
    <3>1. Lookup(k)' = NoRecord
      BY <2>3, <2>6, <2>8
    <3>2. ~Stays(k)
      BY <1>1, <2>1, <2>3, <2>8 DEF Stays
    <3> QED BY <2>8, <3>1, <3>2, EmptyTypes DEF Value
  <2> QED BY <2>1, <2>4, <2>7, <2>8 DEF Moved
<1>9. \/ \E i \in Nat : LastAt(immutables, mutable, k, i)
      \/ NoneAt(immutables, mutable, k)
  BY <1>1, FoundIn
<1> QED BY <1>4, <1>5, <1>7, <1>8, <1>9

-----------------------------------------------------------------------------
(* The read cache is current.                                              *)

Recs == [Keys -> Record]
State == [mems : Recs, tables : SUBSET Table, readModel : Recs]
Cache == [valid : BOOLEAN, base : State, gen : Nat, overlay : Recs, shared : Recs, sharedGen : Nat]

\* The row of k in the read cache.
CacheRow(k) == IF Holds(cache.overlay, k) THEN cache.overlay[k] ELSE cache.base.readModel[k]

\* get() of a state without an overlay answers v # 0: from the memtables, or from the
\* first table that has k.
Served(mems, tables, k, v) ==
    IF mems[k].seq # 0 THEN mems[k].seq = v /\ ~mems[k].del /\ mems[k].blob = 0
    ELSE \E t \in tables : /\ t.recs[k].seq = v /\ ~t.recs[k].del
                           /\ \A u \in tables : u # t /\ u.recs[k].seq # 0 => NewerTable(t, u)

\* Scans and get() of the cache find what get() of the database finds.  The record of
\* the overlay stays until the tables have it.
KeyCurrent(k) ==
    /\ Value(CacheRow(k)) = Value(Lookup(k))
    /\ Holds(cache.overlay, k) =>
          cache.overlay[k].blob = 0 /\ Lookup(k).seq = cache.overlay[k].seq /\ Stays(k)
    /\ ~Holds(cache.overlay, k) /\ Value(Lookup(k)) # 0 =>
          Served(cache.base.mems, cache.base.tables, k, Value(Lookup(k)))

CacheTypes == generation \in Nat /\ cache \in Cache

CacheInv ==
    /\ CacheTypes
    /\ cache.valid => /\ life = "open" /\ cache.gen <= generation /\ cache.sharedGen <= generation
                      /\ cache.gen = generation => cache.overlay = NoRecords
                      /\ cache.sharedGen = generation => cache.shared = cache.overlay
                      /\ \A k \in Keys : KeyCurrent(k)

\* The fields of a cache, and the ways in which the code changes it.
LEMMA CacheFields ==
    ASSUME NEW c \in Cache
    PROVE  /\ c.valid \in BOOLEAN /\ c.base \in State /\ c.gen \in Nat /\ c.overlay \in Recs
           /\ c.shared \in Recs /\ c.sharedGen \in Nat
           /\ \A o \in Recs : /\ [c EXCEPT !.overlay = o] \in Cache
                              /\ [c EXCEPT !.overlay = o].overlay = o
                              /\ [c EXCEPT !.overlay = o].valid = c.valid
                              /\ [c EXCEPT !.overlay = o].base = c.base
                              /\ [c EXCEPT !.overlay = o].gen = c.gen
                              /\ [c EXCEPT !.overlay = o].sharedGen = c.sharedGen
           /\ \A o \in Recs, n \in Nat :
                 /\ [c EXCEPT !.shared = o, !.sharedGen = n] \in Cache
                 /\ [c EXCEPT !.shared = o, !.sharedGen = n].overlay = c.overlay
                 /\ [c EXCEPT !.shared = o, !.sharedGen = n].shared = o
                 /\ [c EXCEPT !.shared = o, !.sharedGen = n].valid = c.valid
                 /\ [c EXCEPT !.shared = o, !.sharedGen = n].base = c.base
                 /\ [c EXCEPT !.shared = o, !.sharedGen = n].gen = c.gen
                 /\ [c EXCEPT !.shared = o, !.sharedGen = n].sharedGen = n
  BY DEF Cache

\* The fields of a state.
LEMMA StateFields ==
    /\ \A s \in State : s.mems \in Recs /\ s.tables \in SUBSET Table /\ s.readModel \in Recs
    /\ \A mems, readModel \in Recs, tables \in SUBSET Table :
          [mems |-> mems, tables |-> tables, readModel |-> readModel] \in State
  BY DEF State

\* An empty cache, and a new one.
LEMMA NoCacheFields ==
    /\ NoCache \in Cache /\ ~NoCache.valid
    /\ \A s \in State, n \in Nat :
          LET c == [NoCache EXCEPT !.valid = TRUE, !.base = s, !.gen = n]
          IN  /\ c \in Cache /\ c.valid /\ c.base = s /\ c.gen = n
              /\ c.overlay = NoRecords /\ c.shared = NoRecords /\ c.sharedGen = 0
<1>1. NoRecords \in Recs
  BY EmptyTypes DEF Recs
<1>2. NoState \in State
  BY <1>1, StateFields DEF NoState
<1>3. /\ NoCache \in Cache /\ ~NoCache.valid
      /\ NoCache.overlay = NoRecords /\ NoCache.shared = NoRecords /\ NoCache.sharedGen = 0
  BY <1>1, <1>2 DEF NoCache, Cache
<1>4. ASSUME NEW s \in State, NEW n \in Nat
      PROVE  LET c == [NoCache EXCEPT !.valid = TRUE, !.base = s, !.gen = n]
             IN  /\ c \in Cache /\ c.valid /\ c.base = s /\ c.gen = n
                 /\ c.overlay = NoRecords /\ c.shared = NoRecords /\ c.sharedGen = 0
  BY <1>3 DEF Cache
<1> QED BY <1>3, <1>4

\* The cache of a key stays current when what is found of it stays.
LEMMA KeyKept ==
    ASSUME NEW k \in Keys, KeyCurrent(k), cache'.overlay[k] = cache.overlay[k],
           cache'.base = cache.base, Value(Lookup(k)') = Value(Lookup(k)),
           Stays(k) => Lookup(k)'.seq = Lookup(k).seq /\ Stays(k)'
    PROVE  KeyCurrent(k)'
<1>1. Holds(cache'.overlay, k) <=> Holds(cache.overlay, k)
  BY DEF Holds
<1>2. CacheRow(k)' = CacheRow(k)
  BY <1>1 DEF CacheRow
<1>3. Value(CacheRow(k)') = Value(CacheRow(k))
  BY <1>2
<1>4. Value(Lookup(k))' = Value(Lookup(k)) /\ Value(CacheRow(k))' = Value(CacheRow(k))
  BY <1>3 DEF Value
<1> QED BY <1>1, <1>4 DEF KeyCurrent

\* A state captured now answers as the database does, by scans and by get().
LEMMA CaptureServes ==
    ASSUME TypeInv, IdsInv, OrderInv, life = "open"
    PROVE  /\ Capture \in State
           /\ \A k \in Keys :
                 /\ Value(Capture.readModel[k]) = Value(Lookup(k))
                 /\ Value(Lookup(k)) # 0 =>
                       Served(Capture.mems, Capture.tables, k, Value(Lookup(k)))
<1> DEFINE imms == {immutables[i].recs : i \in DOMAIN immutables}
           tabs == {t.recs : t \in manifest.tables}
           maps == {mutable.recs} \cup imms \cup tabs
           newest == NewestRecs(maps)
           mems == [k \in Keys |-> MemLookup(k)]
<1>1. /\ immutables \in Seq(MemTable) /\ Len(immutables) \in Nat
      /\ DOMAIN immutables = 1..Len(immutables)
      /\ \A i \in 1..Len(immutables) : immutables[i].recs \in [Keys -> Record] /\ Bounded(immutables[i].recs)
      /\ mutable.recs \in [Keys -> Record] /\ Bounded(mutable.recs)
  BY Positions DEF MemRecsOK, RecsOK
<1>2. /\ manifest.tables \in SUBSET Table
      /\ \A t \in manifest.tables : t.recs \in [Keys -> Record] /\ Bounded(t.recs)
  BY OpenTables, TableFields DEF TableRecsOK, RecsOK
<1>3. maps \in SUBSET [Keys -> Record] /\ \A r \in maps : Bounded(r)
  <2>1. imms \in SUBSET [Keys -> Record] /\ \A r \in imms : Bounded(r)
    BY <1>1
  <2>2. tabs \in SUBSET [Keys -> Record] /\ \A r \in tabs : Bounded(r)
    BY <1>2
  <2> HIDE DEF imms, tabs
  <2> QED BY <1>1, <2>1, <2>2
<1>4. \A r \in maps : \/ r = mutable.recs
                      \/ \E i \in 1..Len(immutables) : r = immutables[i].recs
                      \/ \E t \in manifest.tables : r = t.recs
  BY <1>1
<1>5. /\ mutable.recs \in maps /\ \A i \in 1..Len(immutables) : immutables[i].recs \in maps
      /\ \A t \in manifest.tables : t.recs \in maps
  BY <1>1
<1> HIDE DEF maps
<1>6. newest \in [Keys -> Record] /\ \A k \in Keys : newest[k] = NewestOf(k, maps)
  BY <1>3, NewestTypes
<1> HIDE DEF newest
<1>7. ReadModel = [k \in Keys |-> IF newest[k].del THEN NoRecord ELSE newest[k]]
  BY DEF ReadModel, maps, newest
<1>8. NoRecord \in Record /\ NoRecord.seq = 0 /\ ~NoRecord.del
  BY EmptyTypes
<1>9. ReadModel \in Recs
  BY <1>6, <1>7, <1>8 DEF Recs
<1>10. /\ Len(immutables) + 1 \in Layers /\ Mem(Len(immutables) + 1) = mutable
       /\ \A i \in 1..Len(immutables) : i \in Layers /\ Mem(i) = immutables[i]
       /\ \A i \in Layers : i \in 1..Len(immutables) \/ i = Len(immutables) + 1
  BY <1>1, LayerTypes DEF Layers
<1>11. ASSUME NEW k \in Keys PROVE Value(ReadModel[k]) = Value(Lookup(k))
  <2>1. /\ newest[k] = NoRecord \/ \E r \in maps : newest[k] = r[k]
        /\ newest[k] \in Record
        /\ \A r \in maps : r[k].seq <= newest[k].seq
    BY <1>3, <1>6, NewestChoice
  <2>2. /\ Lookup(k) \in Record /\ Lookup(k).seq \in Nat /\ Genuine(log, Lookup(k), k)
        /\ \A i \in Layers : Mem(i).recs[k].seq <= Lookup(k).seq
        /\ \A t \in manifest.tables : t.recs[k].seq <= Lookup(k).seq
    BY NewestFound
  <2>3. newest[k].seq \in Nat
    BY <2>1, RecordFields
  <2>4. newest[k].seq <= Lookup(k).seq
    BY <1>4, <1>8, <1>10, <2>1, <2>2
  <2>5. Lookup(k) = NoRecord \/ (\E i \in Layers : Lookup(k) = Mem(i).recs[k])
        \/ (\E t \in manifest.tables : Lookup(k) = t.recs[k])
    <3>1. Lookup(k) = Found(immutables, mutable, manifest.tables, k)
      BY LookupFound
    <3>2. \/ \E i \in Layers : Lookup(k) = Mem(i).recs[k]
          \/ Lookup(k) = TableLookup(manifest.tables, k)
      BY <1>1, <3>1, FoundIn DEF Mem, Layers, LastAt
    <3>3. \/ \E t \in manifest.tables : TableLookup(manifest.tables, k) = t.recs[k]
          \/ TableLookup(manifest.tables, k) = NoRecord
      BY OpenTables, FirstTable
    <3> QED BY <3>2, <3>3
  <2>6. Lookup(k).seq <= newest[k].seq
    <3>1. Lookup(k) = NoRecord \/ \E r \in maps : Lookup(k) = r[k]
      BY <1>5, <1>10, <2>5
    <3> QED BY <1>8, <2>1, <2>3, <3>1
  <2>7. newest[k].seq = Lookup(k).seq
    BY <2>2, <2>3, <2>4, <2>6
  <2>8. Genuine(log, newest[k], k) /\ OneEach(log)
    <3>1. /\ \A i \in Layers : Genuine(log, Mem(i).recs[k], k)
          /\ \A t \in manifest.tables : Genuine(log, t.recs[k], k)
          /\ OneEach(log) /\ Genuine(log, NoRecord, k)
      BY <1>8, OpenTables DEF OrderInv, LayersInv, NumberInv, Genuine
    <3> QED BY <1>4, <1>10, <2>1, <3>1
  <2>9. CASE Lookup(k).seq = 0
    <3>1. Value(Lookup(k)) = 0
      BY <2>9 DEF Value
    <3>2. Value(ReadModel[k]) = 0
      BY <1>7, <1>8, <2>7, <2>9 DEF Value
    <3> QED BY <3>1, <3>2
  <2>10. CASE Lookup(k).seq # 0
    <3>1. newest[k].del <=> Lookup(k).del
      BY <2>2, <2>7, <2>8, <2>10, SameKind
    <3> QED BY <1>7, <1>8, <2>7, <3>1 DEF Value
  <2> QED BY <2>9, <2>10
<1>12. ASSUME NEW k \in Keys
       PROVE  /\ MemLookup(k) \in Record
              /\ Value(Lookup(k)) # 0 =>
                    IF MemLookup(k).seq # 0
                    THEN MemLookup(k).seq = Value(Lookup(k)) /\ ~MemLookup(k).del /\ MemLookup(k).blob = 0
                    ELSE \E t \in manifest.tables :
                            /\ t.recs[k].seq = Value(Lookup(k)) /\ ~t.recs[k].del
                            /\ \A u \in manifest.tables : u # t /\ u.recs[k].seq # 0 => NewerTable(t, u)
  <2>1. /\ Lookup(k) = Found(immutables, mutable, manifest.tables, k)
        /\ MemLookup(k) = Found(immutables, mutable, {}, k)
    BY LookupFound
  <2>2. CASE \E i \in Nat : LastAt(immutables, mutable, k, i)
    <3>1. PICK i \in Nat : LastAt(immutables, mutable, k, i)
      BY <2>2
    <3>2. Lookup(k) = Mem(i).recs[k] /\ MemLookup(k) = Mem(i).recs[k]
      BY <1>1, <2>1, <3>1, FoundLast DEF Mem
    <3>3. i \in Layers /\ Mem(i).recs[k].seq # 0
      BY <3>1 DEF LastAt, Layers, Mem
    <3>4. Mem(i).recs[k] \in Record /\ Mem(i).recs[k].blob = 0
      BY <3>3, LayerTypes
    <3> QED BY <3>2, <3>3, <3>4 DEF Value
  <2>3. CASE NoneAt(immutables, mutable, k)
    <3>1. Lookup(k) = TableLookup(manifest.tables, k) /\ MemLookup(k) = TableLookup({}, k)
      BY <1>1, <2>1, <2>3, FoundLast
    <3>2. TableLookup({}, k) = NoRecord
      BY DEF TableLookup
    <3>3. \/ \E t \in manifest.tables :
                /\ TableLookup(manifest.tables, k) = t.recs[k] /\ t.recs[k].seq # 0
                /\ \A u \in manifest.tables : u # t /\ u.recs[k].seq # 0 => NewerTable(t, u)
          \/ TableLookup(manifest.tables, k) = NoRecord
      BY OpenTables, FirstTable
    <3> QED BY <1>8, <3>1, <3>2, <3>3 DEF Value
  <2> QED BY <1>1, <2>2, <2>3, FoundIn
<1>13. mems \in Recs /\ \A k \in Keys : mems[k] = MemLookup(k)
  BY <1>12 DEF Recs
<1>14. /\ Capture = [mems |-> mems, tables |-> manifest.tables, readModel |-> ReadModel]
       /\ Capture.mems = mems /\ Capture.tables = manifest.tables /\ Capture.readModel = ReadModel
  BY DEF Capture
<1> HIDE DEF mems
<1>15. Capture \in State
  BY <1>2, <1>9, <1>13, <1>14, StateFields
<1>16. \A k \in Keys : Value(Lookup(k)) # 0 => Served(mems, manifest.tables, k, Value(Lookup(k)))
  BY <1>12, <1>13 DEF Served
<1> QED BY <1>11, <1>14, <1>15, <1>16

\* A write that is found is mirrored in the overlay.
LEMMA WriteCurrent ==
    ASSUME TypeInv, IdsInv, OrderInv, CacheInv, NEW w \in Writers, SnapApplyWrite(w)
    PROVE  CacheInv'
<1> DEFINE op == req[w]
           o  == [cache.overlay EXCEPT ![op.key] = RecordOf(op)]
<1>1. /\ ApplyWrite(w) /\ generation' = generation + 1
      /\ cache' = Mirrored(op) \/ cache' = NoCache
  BY DEF SnapApplyWrite
<1>2. /\ life = "open" /\ life' = "open" /\ op.seq # 0
      /\ op.key \in Keys /\ op.seq \in Nat /\ RecordOf(op) \in Record
      /\ RecordOf(op).seq = op.seq /\ RecordOf(op).blob = 0
  <2>1. PICK n \in Nat, p \in Operation : p = op /\ life = "open" /\ p.seq # 0 /\ life' = life
    BY <1>1, WrittenLayers
  <2> QED BY <2>1, OperationFields
<1>3. generation \in Nat /\ cache \in Cache
  BY DEF CacheInv, CacheTypes
<1>4. generation' \in Nat /\ generation < generation'
  BY <1>1, <1>3
<1>5. CASE cache' = NoCache
  BY <1>4, <1>5, NoCacheFields DEF CacheInv, CacheTypes
<1>6. CASE cache' = Mirrored(op) /\ ~cache.valid
  <2>1. cache' = cache
    BY <1>6 DEF Mirrored
  <2> QED BY <1>3, <1>4, <1>6, <2>1 DEF CacheInv, CacheTypes
<1>7. CASE cache' = Mirrored(op) /\ cache.valid
  <2>1. \A k \in Keys : KeyCurrent(k) /\ cache.overlay \in Recs
    BY <1>3, <1>7, CacheFields DEF CacheInv
  <2>2. cache' = IF Lookup(op.key).seq > op.seq \/ cache.overlay[op.key].seq > op.seq
                 THEN cache ELSE [cache EXCEPT !.overlay = o]
    BY <1>7 DEF Mirrored
  <2> HIDE DEF op
  <2>3. o \in Recs /\ o[op.key] = RecordOf(op) /\ \A k \in Keys : k # op.key => o[k] = cache.overlay[k]
    BY <1>2, <2>1 DEF Recs
  <2> HIDE DEF o
  <2>4. /\ cache' \in Cache /\ cache'.valid /\ cache'.base = cache.base /\ cache'.gen = cache.gen
        /\ cache'.sharedGen = cache.sharedGen
        /\ IF Lookup(op.key).seq > op.seq \/ cache.overlay[op.key].seq > op.seq
           THEN cache'.overlay = cache.overlay ELSE cache'.overlay = o
    <3> DEFINE c == [cache EXCEPT !.overlay = o]
    <3>1. /\ c \in Cache /\ c.overlay = o /\ c.valid = cache.valid /\ c.base = cache.base
          /\ c.gen = cache.gen /\ c.sharedGen = cache.sharedGen
      BY <1>3, <2>3, CacheFields
    <3>2. cache' = IF Lookup(op.key).seq > op.seq \/ cache.overlay[op.key].seq > op.seq
                   THEN cache ELSE c
      BY <2>2
    <3> HIDE DEF c
    <3> QED BY <1>3, <1>7, <3>1, <3>2
  <2>5. /\ cache'.gen < generation' /\ cache'.gen # generation' /\ cache'.gen <= generation'
        /\ cache'.sharedGen # generation' /\ cache'.sharedGen <= generation'
    <3>1. cache.gen \in Nat /\ cache.sharedGen \in Nat /\ cache.gen <= generation /\ cache.sharedGen <= generation
      BY <1>3, <1>7, CacheFields DEF CacheInv
    <3> QED BY <1>3, <1>4, <2>4, <3>1
  <2>6. ASSUME NEW k \in Keys PROVE KeyCurrent(k)'
    <3>1. KeyCurrent(k) /\ cache.overlay[k] \in Record /\ cache.overlay[k].seq \in Nat
      BY <2>1, RecordFields DEF Recs
    <3>2. CASE k = op.key /\ ~(Lookup(k).seq > op.seq) /\ Lookup(k)' = RecordOf(op)
               /\ (flushPc' = "remove" => ~OnlyHead(k)')
      <4>1. ~(cache.overlay[k].seq > op.seq)
        BY <1>2, <3>1, <3>2 DEF KeyCurrent, Holds
      <4>2. cache'.overlay[k] = RecordOf(op)
        BY <2>3, <2>4, <3>2, <4>1
      <4>3. Holds(cache'.overlay, k)
        BY <1>2, <4>2 DEF Holds
      <4>4. Stays(k)'
        BY <3>2 DEF Stays
      <4>5. CacheRow(k)' = Lookup(k)'
        BY <3>2, <4>2, <4>3 DEF CacheRow
      <4>6. Value(CacheRow(k))' = Value(Lookup(k))'
        BY <4>5 DEF Value
      <4>7. cache'.overlay[k].blob = 0 /\ Lookup(k)'.seq = cache'.overlay[k].seq
        BY <1>2, <3>2, <4>2
      <4> QED BY <4>3, <4>4, <4>6, <4>7 DEF KeyCurrent
    <3>3. CASE (k = op.key => Lookup(k).seq > op.seq) /\ Lookup(k)' = Lookup(k)
               /\ (Stays(k) => Stays(k)')
      <4>1. cache'.overlay[k] = cache.overlay[k]
        BY <2>3, <2>4, <3>3
      <4>2. Value(Lookup(k)') = Value(Lookup(k)) /\ Lookup(k)'.seq = Lookup(k).seq
        BY <3>3
      <4> QED BY <2>4, <3>1, <3>3, <4>1, <4>2, KeyKept
    <3> QED BY <1>1, <3>2, <3>3, LookupWritten DEF op
  <2> QED BY <1>2, <1>4, <2>4, <2>5, <2>6 DEF CacheInv, CacheTypes
<1> QED BY <1>1, <1>5, <1>6, <1>7

\* A flush moves the record that is found from the oldest memtable to the tables.
LEMMA FlushCurrent ==
    ASSUME TypeInv, IdsInv, OrderInv, CacheInv, UNCHANGED <<generation, cache>>,
           NothingMoves \/ HeadCopied \/ HeadDropped
    PROVE  CacheInv'
<1>1. life' = life /\ (HeadCopied \/ HeadDropped => life = "open")
  BY DEF NothingMoves, HeadCopied, HeadDropped, MemsSame
<1>2. ASSUME cache.valid, NEW k \in Keys PROVE KeyCurrent(k)'
  <2>1. /\ Value(Lookup(k)') = Value(Lookup(k))
        /\ Stays(k) => Lookup(k)'.seq = Lookup(k).seq /\ Stays(k)'
    <3>1. CASE NothingMoves
      <4>1. Lookup(k)' = Lookup(k) /\ (Stays(k) => Stays(k)')
        BY <3>1, LookupQuiet
      <4> QED BY <4>1
    <3>2. CASE HeadCopied
      <4>1. Lookup(k)' = Lookup(k) /\ Stays(k)'
        BY <3>2, LookupCopied
      <4> QED BY <4>1
    <3>3. CASE HeadDropped
      BY <3>3, LookupDropped
    <3> QED BY <3>1, <3>2, <3>3
  <2>2. KeyCurrent(k) /\ cache'.overlay[k] = cache.overlay[k] /\ cache'.base = cache.base
    BY <1>2 DEF CacheInv
  <2> QED BY <2>1, <2>2, KeyKept
<1>3. CacheTypes'
  BY DEF CacheInv, CacheTypes
<1> QED BY <1>1, <1>2, <1>3 DEF CacheInv

\* Compactions and collections drop the cache.
LEMMA RewriteCurrent ==
    ASSUME TypeInv, FileInv, OrderInv, JobsInv, CacheInv, SnapCompaction \/ SnapGc
    PROVE  CacheInv'
<1>1. IdsInv /\ CompInv /\ CollectInv /\ life # "closing"
  BY DEF FileInv, JobsInv, TypeInv, PhaseInv
<1>2. \/ UNCHANGED <<generation, cache>> /\ NothingMoves
      \/ generation' = generation /\ cache' = NoCache
  <2>1. CASE SnapCompaction
    <3>1. /\ CompStep /\ generation' = generation
          /\ cache' = IF compPc = "install" THEN NoCache ELSE cache
      BY <1>1, <2>1 DEF SnapCompaction
    <3>2. NothingMoves \/ compPc = "install"
      BY <1>1, <3>1, CompEffect
    <3> QED BY <3>1, <3>2
  <2>2. CASE SnapGc
    <3>1. /\ GcStep /\ generation' = generation
          /\ cache' = IF gcPc = "commit" /\ GcStable THEN NoCache ELSE cache
      BY <2>2 DEF SnapGc
    <3>2. NothingMoves \/ (gcPc = "commit" /\ GcStable)
      BY <1>1, <3>1, CollectEffect
    <3> QED BY <3>1, <3>2
  <2> QED BY <2>1, <2>2
<1>3. CASE generation' = generation /\ cache' = NoCache
  BY <1>3, NoCacheFields DEF CacheInv, CacheTypes
<1> QED BY <1>1, <1>2, <1>3, FlushCurrent

\* createSnapshot() keeps the cache, shares its overlay, or builds it.
LEMMA TakeCurrent ==
    ASSUME TypeInv, IdsInv, OrderInv, CacheInv,
           SnapshotOfBase \/ SnapshotOfOverlay \/ SnapshotBuilt
    PROVE  CacheInv'
<1>1. UNCHANGED vars /\ generation' = generation /\ life = "open"
  BY DEF SnapshotOfBase, SnapshotOfOverlay, SnapshotBuilt, MayTake
<1>2. NothingMoves
  BY <1>1, QuietEffect
<1>3. life' = life /\ generation \in Nat /\ cache \in Cache
  BY <1>1 DEF vars, CacheInv, CacheTypes
<1>4. CASE SnapshotOfBase
  BY <1>2, <1>4, FlushCurrent DEF SnapshotOfBase
<1>5. CASE SnapshotOfOverlay
  <2>1. cache.valid /\ cache' = [cache EXCEPT !.shared = SharedOverlay, !.sharedGen = generation]
    BY <1>5 DEF SnapshotOfOverlay
  <2>2. /\ SharedOverlay = cache.overlay /\ cache.overlay \in Recs
        /\ cache.gen <= generation
        /\ cache.gen = generation => cache.overlay = NoRecords
        /\ \A k \in Keys : KeyCurrent(k)
    BY <1>3, <2>1, CacheFields DEF CacheInv, SharedOverlay
  <2>3. /\ cache' \in Cache /\ cache'.overlay = cache.overlay /\ cache'.shared = cache.overlay
        /\ cache'.base = cache.base /\ cache'.gen = cache.gen /\ cache'.sharedGen = generation
    BY <1>3, <2>1, <2>2 DEF Cache
  <2>4. ASSUME NEW k \in Keys PROVE KeyCurrent(k)'
    <3>1. Lookup(k)' = Lookup(k) /\ (Stays(k) => Stays(k)')
      BY <1>2, LookupQuiet
    <3>2. Value(Lookup(k)') = Value(Lookup(k)) /\ Lookup(k)'.seq = Lookup(k).seq
      BY <3>1
    <3> QED BY <2>2, <2>3, <3>1, <3>2, KeyKept
  <2> QED BY <1>1, <1>3, <2>2, <2>3, <2>4 DEF CacheInv, CacheTypes
<1>6. CASE SnapshotBuilt
  <2>1. cache' = [NoCache EXCEPT !.valid = TRUE, !.base = Capture, !.gen = generation]
    BY <1>6 DEF SnapshotBuilt
  <2>2. /\ Capture \in State
        /\ \A k \in Keys :
              /\ Value(Capture.readModel[k]) = Value(Lookup(k))
              /\ Value(Lookup(k)) # 0 =>
                    Served(Capture.mems, Capture.tables, k, Value(Lookup(k)))
    BY <1>1, CaptureServes
  <2>3. /\ cache' \in Cache /\ cache'.base = Capture /\ cache'.gen = generation
        /\ cache'.overlay = NoRecords /\ cache'.shared = NoRecords /\ cache'.sharedGen = 0
    BY <1>3, <2>1, <2>2, NoCacheFields
  <2>4. ASSUME NEW k \in Keys PROVE KeyCurrent(k)'
    <3>1. Lookup(k)' = Lookup(k)
      BY <1>2, LookupQuiet
    <3>2. ~Holds(cache'.overlay, k)
      BY <2>3, EmptyTypes DEF Holds
    <3>3. CacheRow(k)' = Capture.readModel[k]
      BY <2>3, <3>2 DEF CacheRow
    <3>4. Value(CacheRow(k))' = Value(Lookup(k)) /\ Value(Lookup(k))' = Value(Lookup(k))
      BY <2>2, <3>1, <3>3 DEF Value
    <3>5. Value(Lookup(k)) # 0 => Served(cache'.base.mems, cache'.base.tables, k, Value(Lookup(k)))
      BY <2>2, <2>3
    <3> QED BY <3>2, <3>4, <3>5 DEF KeyCurrent
  <2>5. 0 <= generation
    BY <1>3
  <2> QED BY <1>1, <1>3, <2>3, <2>4, <2>5 DEF CacheInv, CacheTypes
<1> QED BY <1>4, <1>5, <1>6

\* After a crash the cache is gone, and open() finds none.
LEMMA RestartCurrent ==
    ASSUME TypeInv, CacheInv, SnapCrash \/ SnapOpen
    PROVE  CacheInv'
<1>1. generation \in Nat /\ cache \in Cache /\ 0 \in Nat
  BY DEF CacheInv, CacheTypes
<1>2. CASE SnapCrash
  <2>1. generation' = 0 /\ cache' = NoCache
    BY <1>2 DEF SnapCrash
  <2> QED BY <1>1, <2>1, NoCacheFields DEF CacheInv, CacheTypes
<1>3. CASE SnapOpen
  <2>1. cache' = cache /\ generation' = generation + Cardinality(Replayed) /\ life = "closed"
    BY <1>3 DEF SnapOpen, Open
  <2>2. ~cache.valid
    BY <2>1 DEF CacheInv
  <2>3. Cardinality(Replayed) \in Nat
    <3>1. Replayed \in SUBSET log
      BY DEF Replayed
    <3> QED BY <3>1, FS_Subset, FS_CardinalityType DEF TypeInv, RecsInv
  <2>4. generation' \in Nat
    BY <1>1, <2>1, <2>3
  <2> QED BY <1>1, <2>1, <2>2, <2>4 DEF CacheInv, CacheTypes
<1> QED BY <1>2, <1>3

\* The steps there are before the first close().
EarlyStep ==
    \/ \E w \in Writers : SnapApplyWrite(w)
    \/ SnapCompaction \/ SnapGc
    \/ SnapshotOfBase \/ SnapshotOfOverlay \/ SnapshotBuilt
    \/ SnapCrash \/ SnapOpen
    \/ /\ UNCHANGED snapVars
       /\ \/ \E w \in Writers, k \in Keys, kind \in Kinds : BeginWrite(w, k, kind)
          \/ FlushStep \/ TailStep \/ UNCHANGED vars

\* Calls of close() are counted.
LEMMA ClosesCounted ==
    ASSUME closes \in Nat, [SnapNext]_<<vars, snapVars>>
    PROVE  closes' \in Nat /\ (closes' = 0 => closes = 0)
<1>1. closes' = closes \/ closes' = closes + 1
  <2>1. ASSUME OtherStep PROVE closes' = closes \/ closes' = closes + 1
    <3>1. CASE FlushStep
      BY <3>1 DEF FlushStep, FlushPick, FlushWrite, FlushInstall, FlushFails, FlushRemove
    <3>2. CASE TailStep
      BY <3>2 DEF TailStep, DeleteFiles
    <3>3. CASE \/ \E w \in Writers, k \in Keys, kind \in Kinds : BeginWrite(w, k, kind)
               \/ \E w \in Writers : RejectWrite(w)
      BY <3>3 DEF BeginWrite, RejectWrite
    <3>4. CASE CloseBegin \/ CloseTake \/ CloseWrite \/ CloseInstall \/ CloseFails
      BY <3>4 DEF CloseBegin, CloseTake, CloseWrite, CloseInstall, CloseFails
    <3> QED BY <2>1, <3>1, <3>2, <3>3, <3>4 DEF OtherStep
  <2>2. ASSUME NEW w \in Writers, SnapApplyWrite(w) PROVE closes' = closes
    BY <2>2 DEF SnapApplyWrite, ApplyWrite
  <2>3. ASSUME SnapCompaction PROVE closes' = closes
    BY <2>3 DEF SnapCompaction, CompStep, CompStart, CompMerge, CompInstall, CompFails
  <2>4. ASSUME SnapGc PROVE closes' = closes
    BY <2>4 DEF SnapGc, GcStep, GcStart, GcList, GcWrite, GcCommit, GcFails
  <2>5. ASSUME SnapshotOfBase \/ SnapshotOfOverlay \/ SnapshotBuilt PROVE closes' = closes
    BY <2>5 DEF SnapshotOfBase, SnapshotOfOverlay, SnapshotBuilt, vars
  <2>6. ASSUME SnapReset \/ SnapCrash \/ SnapOpen PROVE closes' = closes
    <3>1. CASE SnapReset \/ SnapCrash
      BY <3>1 DEF SnapReset, SnapCrash, CloseReset, Crash
    <3>2. CASE SnapOpen
      <4>1. Open
        BY <3>2 DEF SnapOpen
      <4> QED BY <4>1 DEF Open
    <3> QED BY <2>6, <3>1, <3>2
  <2>7. ASSUME UNCHANGED <<vars, snapVars>> PROVE closes' = closes
    BY <2>7 DEF vars
  <2> QED BY <2>1, <2>2, <2>3, <2>4, <2>5, <2>6, <2>7 DEF SnapNext
<1> QED BY <1>1

\* As long as the count is zero the others do not happen.
LEMMA EarlySteps ==
    ASSUME closes = 0, closes' = 0, closePc = "idle", life # "closing",
           [SnapNext]_<<vars, snapVars>>
    PROVE  EarlyStep
<1>1. ~CloseBegin
  BY DEF CloseBegin
<1>2. ~(CloseTake \/ CloseWrite \/ CloseInstall \/ CloseFails)
  BY DEF CloseTake, CloseWrite, CloseInstall, CloseFails
<1>3. ~SnapReset
  BY DEF SnapReset, CloseReset
<1>4. \A w \in Writers : ~RejectWrite(w)
  BY DEF RejectWrite
<1>5. OtherStep => \/ \E w \in Writers, k \in Keys, kind \in Kinds : BeginWrite(w, k, kind)
                   \/ FlushStep \/ TailStep
  BY <1>1, <1>2, <1>4 DEF OtherStep
<1>6. UNCHANGED <<vars, snapVars>> => UNCHANGED vars /\ UNCHANGED snapVars
  OBVIOUS
<1> QED BY <1>3, <1>5, <1>6 DEF SnapNext, EarlyStep

\* They are the steps of EmbeddedDbTables.
LEMMA EarlyNext ==
    ASSUME EarlyStep, closePc = "idle"
    PROVE  [Next]_vars /\ closePc' = "idle"
<1>1. [Next]_vars
  <2>1. CASE \E w \in Writers : SnapApplyWrite(w)
    BY <2>1 DEF SnapApplyWrite, Next
  <2>2. CASE SnapCompaction \/ SnapGc \/ SnapCrash \/ SnapOpen
    BY <2>2 DEF SnapCompaction, SnapGc, SnapCrash, SnapOpen, Next
  <2>3. CASE SnapshotOfBase \/ SnapshotOfOverlay \/ SnapshotBuilt
    BY <2>3 DEF SnapshotOfBase, SnapshotOfOverlay, SnapshotBuilt
  <2>4. CASE \/ \E w \in Writers, k \in Keys, kind \in Kinds : BeginWrite(w, k, kind)
             \/ FlushStep \/ TailStep \/ UNCHANGED vars
    BY <2>4 DEF Next
  <2> QED BY <2>1, <2>2, <2>3, <2>4 DEF EarlyStep
<1>2. closePc' = "idle"
  <2>1. CASE FlushStep \/ CompStep \/ GcStep \/ TailStep \/ UNCHANGED vars
    <3>1. CASE FlushStep
      BY <3>1 DEF FlushStep, FlushPick, FlushWrite, FlushInstall, FlushFails, FlushRemove
    <3>2. CASE CompStep
      BY <3>2 DEF CompStep, CompStart, CompMerge, CompInstall, CompFails
    <3>3. CASE GcStep
      BY <3>3 DEF GcStep, GcStart, GcList, GcWrite, GcCommit, GcFails
    <3>4. CASE TailStep
      BY <3>4 DEF TailStep, DeleteFiles
    <3>5. CASE UNCHANGED vars
      BY <3>5 DEF vars
    <3> QED BY <2>1, <3>1, <3>2, <3>3, <3>4, <3>5
  <2>2. CASE \/ \E w \in Writers, k \in Keys, kind \in Kinds : BeginWrite(w, k, kind)
             \/ \E w \in Writers : ApplyWrite(w)
    BY <2>2 DEF BeginWrite, ApplyWrite
  <2>3. CASE Crash
    BY <2>3 DEF Crash, ForgetState
  <2>4. CASE Open
    BY <2>4 DEF Open
  <2> QED BY <1>1, <2>1, <2>2, <2>3, <2>4 DEF Next
<1> QED BY <1>1, <1>2

\* Until the first close() the cache stays current.
LEMMA CurrentKept ==
    ASSUME IInv, JobsInv, OrderInv, CacheInv, EarlyStep
    PROVE  CacheInv'
<1>1. TypeInv /\ IdsInv /\ FileInv /\ FlushInv
  BY DEF IInv, FileInv, JobsInv
<1>2. CASE \E w \in Writers : SnapApplyWrite(w)
  BY <1>1, <1>2, WriteCurrent
<1>3. CASE SnapCompaction \/ SnapGc
  BY <1>1, <1>3, RewriteCurrent
<1>4. CASE SnapshotOfBase \/ SnapshotOfOverlay \/ SnapshotBuilt
  BY <1>1, <1>4, TakeCurrent
<1>5. CASE SnapCrash \/ SnapOpen
  BY <1>1, <1>5, RestartCurrent
<1>6. CASE /\ UNCHANGED snapVars
           /\ \/ \E w \in Writers, k \in Keys, kind \in Kinds : BeginWrite(w, k, kind)
              \/ FlushStep \/ TailStep \/ UNCHANGED vars
  <2>1. NothingMoves \/ HeadCopied \/ HeadDropped
    BY <1>1, <1>6, QuietEffect, FlushEffect
  <2>2. UNCHANGED <<generation, cache>>
    BY <1>6 DEF snapVars
  <2> QED BY <1>1, <2>1, <2>2, FlushCurrent
<1> QED BY <1>2, <1>3, <1>4, <1>5, <1>6 DEF EarlyStep

-----------------------------------------------------------------------------
(* The read cache of a database that was never closed.                     *)

Early == IInv /\ JobsInv /\ OrderInv /\ CacheInv

\* The inductive invariant: everything above, as long as no close() was called.
EarlyInv == closes \in Nat /\ (closes = 0 => closePc = "idle" /\ Early)

\* The empty database has nothing to read, and no cache.
LEMMA InitEarly == SnapInit => EarlyInv
<1> SUFFICES ASSUME SnapInit PROVE EarlyInv
  OBVIOUS
<1>1. Init /\ generation = 0 /\ cache = NoCache /\ closes = 0 /\ closePc = "idle" /\ 0 \in Nat
  BY DEF SnapInit, Init
<1>2. IInv /\ JobsInv
  BY <1>1, InitInv, InitContents DEF CInv
<1>3. CacheInv
  BY <1>1, NoCacheFields DEF CacheInv, CacheTypes
<1>4. OrderInv
  <2>1. /\ log = {} /\ life = "closed" /\ disk = NewManifest
        /\ \A w \in Writers : pc[w] = "idle"
    BY <1>1 DEF Init
  <2>2. disk.tables = {}
    BY <2>1 DEF NewManifest
  <2>3. NumberInv
    BY <2>1 DEF NumberInv, OneEach
  <2>4. SoundInv
    BY <2>1, <2>2 DEF SoundInv, Sound, Sorted
  <2> QED BY <2>1, <2>3, <2>4 DEF OrderInv
<1> QED BY <1>1, <1>2, <1>3, <1>4 DEF EarlyInv, Early

\* A step before the first close() keeps it; afterwards there is nothing to keep.
LEMMA EarlyKept ==
    ASSUME EarlyInv, [SnapNext]_<<vars, snapVars>>
    PROVE  EarlyInv'
<1>1. closes \in Nat /\ closes' \in Nat /\ (closes' = 0 => closes = 0)
  BY ClosesCounted DEF EarlyInv
<1>2. ASSUME closes' = 0 PROVE closePc' = "idle" /\ Early'
  <2>1. closes = 0 /\ closePc = "idle" /\ IInv /\ JobsInv /\ OrderInv /\ CacheInv
    BY <1>1, <1>2 DEF EarlyInv, Early
  <2>2. TypeInv /\ IdsInv /\ FileInv /\ life # "closing"
    BY <2>1 DEF IInv, FileInv, TypeInv, PhaseInv
  <2>3. EarlyStep
    BY <1>2, <2>1, <2>2, EarlySteps
  <2>4. [Next]_vars /\ closePc' = "idle"
    BY <2>1, <2>3, EarlyNext
  <2>5. IInv'
    BY <2>2, <2>4, TypesKept, FilesKept DEF IInv
  <2>6. JobsInv' /\ OrderInv'
    BY <2>1, <2>4, JobsKept, OrderKept
  <2>7. CacheInv'
    BY <2>1, <2>3, CurrentKept
  <2> QED BY <2>4, <2>5, <2>6, <2>7 DEF Early
<1> QED BY <1>1, <1>2 DEF EarlyInv

\* So it always holds.
LEMMA EarlyAlways == SnapSpec => []EarlyInv
<1>1. SnapInit => EarlyInv
  BY InitEarly
<1>2. EarlyInv /\ [SnapNext]_<<vars, snapVars>> => EarlyInv'
  BY EarlyKept
<1> QED BY <1>1, <1>2, PTL DEF SnapSpec

\* Whatever is written, flushed, merged, collected, crashed and replayed, in any order,
\* the base and the overlay of the read cache together have for every key the row that
\* get() of the database finds, as long as close() was not called.
THEOREM CacheCurrent == SnapSpec => []ReadCacheCurrent
<1>1. EarlyInv => ReadCacheCurrent
  <2> SUFFICES ASSUME EarlyInv, cache.valid, closes = 0, NEW k \in Keys
               PROVE  Value(CacheRow(k)) = Value(Lookup(k))
    BY DEF ReadCacheCurrent, Value, CacheRow
  <2> QED BY DEF EarlyInv, Early, CacheInv, KeyCurrent
<1> QED BY <1>1, EarlyAlways, PTL

-----------------------------------------------------------------------------
(* Snapshots answer later what they would have answered when taken.        *)

\* A snapshot whose parts are well formed.
Shot == [mems : Recs, tables : SUBSET Table, readModel : Recs, overlay : Recs,
         view : [Keys -> Nat], closes : Nat]

\* get() of the snapshot finds the values that the database had.
GetKept(s) == \A k \in Keys : s.view[k] # 0 =>
    IF Holds(s.overlay, k)
    THEN s.overlay[k].seq = s.view[k] /\ ~s.overlay[k].del /\ s.overlay[k].blob = 0
    ELSE Served(s.mems, s.tables, k, s.view[k])

\* A scan of the snapshot finds them too, and nothing else.
ScanKept(s) == \A k \in Keys : Value(Row(s, k)) = s.view[k]

\* Snapshots taken before any close() find what there was.
FrozenInv ==
    /\ snapshots \in Seq(Taken)
    /\ \A s \in Taken : s.closes = 0 => s \in Shot /\ GetKept(s)
    /\ closes = 0 => \A s \in Taken : s.closes = 0

ScanInv == \A s \in Taken : s.closes = 0 => ScanKept(s)

\* Appending adds one element.
LEMMA AppendedRange ==
    ASSUME NEW s, s \in Seq({s[i] : i \in DOMAIN s}), NEW e
    PROVE  LET r == Append(s, e)
           IN  /\ r \in Seq({r[i] : i \in DOMAIN r})
               /\ \A x \in {r[i] : i \in DOMAIN r} : x = e \/ x \in {s[i] : i \in DOMAIN s}
<1> DEFINE S == {s[i] : i \in DOMAIN s} \cup {e}
           r == Append(s, e)
           T == {r[i] : i \in DOMAIN r}
<1>1. s \in Seq(S) /\ e \in S
  <2>1. {s[i] : i \in DOMAIN s} \subseteq S
    OBVIOUS
  <2> QED BY <2>1
<1> HIDE DEF S
<1>2. /\ r \in Seq(S) /\ Len(s) \in Nat /\ Len(r) = Len(s) + 1
      /\ DOMAIN r = 1..(Len(s) + 1) /\ DOMAIN s = 1..Len(s)
      /\ \A i \in 1..Len(s) : r[i] = s[i]
      /\ r[Len(s) + 1] = e
  BY <1>1
<1> HIDE DEF r
<1>3. \A i \in DOMAIN r : r[i] = e \/ \E j \in DOMAIN s : r[i] = s[j]
  BY <1>2
<1>4. r = [i \in 1..Len(r) |-> r[i]] /\ Len(r) \in Nat /\ \A i \in 1..Len(r) : r[i] \in T
  BY <1>2
<1> HIDE DEF T
<1>5. r \in Seq(T)
  BY <1>4
<1> QED BY <1>3, <1>5 DEF T, r

\* Only createSnapshot() adds to the snapshots; only a crash takes them away.
LEMMA SnapshotSteps ==
    ASSUME [SnapNext]_<<vars, snapVars>>
    PROVE  \/ snapshots' = snapshots
           \/ snapshots' = <<>>
           \/ SnapshotOfBase \/ SnapshotOfOverlay \/ SnapshotBuilt
<1>1. CASE OtherStep /\ UNCHANGED snapVars
  BY <1>1 DEF snapVars
<1>2. CASE \/ \E w \in Writers : SnapApplyWrite(w)
           \/ SnapCompaction \/ SnapGc \/ SnapReset \/ SnapCrash \/ SnapOpen
  BY <1>2 DEF SnapApplyWrite, SnapCompaction, SnapGc, SnapReset, SnapCrash, SnapOpen
<1>3. CASE UNCHANGED <<vars, snapVars>>
  BY <1>3 DEF snapVars
<1> QED BY <1>1, <1>2, <1>3 DEF SnapNext

\* Whatever createSnapshot() serves, base, overlay or a new state, is a snapshot of what
\* get() answers now.
LEMMA TakenShot ==
    ASSUME TypeInv, IdsInv, OrderInv, CacheInv, closes \in Nat,
           SnapshotOfBase \/ SnapshotOfOverlay \/ SnapshotBuilt
    PROVE  \E s \in Shot :
              /\ snapshots' = Append(snapshots, s) /\ s.closes = closes /\ GetKept(s)
              /\ \A k \in Keys : /\ s.view[k] = Answer(Lookup(k))
                                 /\ Value(Row(s, k)) = Value(Lookup(k))
<1> DEFINE view == [k \in Keys |-> Answer(Lookup(k))]
           Shot_(state, overlay) ==
               [mems |-> state.mems, tables |-> state.tables, readModel |-> state.readModel,
                overlay |-> overlay, view |-> view, closes |-> closes]
<1>1. life = "open"
  BY DEF SnapshotOfBase, SnapshotOfOverlay, SnapshotBuilt, MayTake
<1>2. \A k \in Keys : /\ Answer(Lookup(k)) \in Nat
                      /\ Answer(Lookup(k)) # 0 => Value(Lookup(k)) = Answer(Lookup(k))
  BY <1>1, NewestFound DEF Answer, Value
<1>3. view \in [Keys -> Nat] /\ \A k \in Keys : view[k] = Answer(Lookup(k))
  BY <1>2
<1> HIDE DEF view
<1>4. ASSUME NEW state \in State, NEW overlay \in Recs,
             snapshots' = Append(snapshots, Shot_(state, overlay)),
             \A k \in Keys :
                /\ Value(IF Holds(overlay, k) THEN overlay[k] ELSE state.readModel[k]) = Value(Lookup(k))
                /\ Holds(overlay, k) => overlay[k].blob = 0
                /\ ~Holds(overlay, k) /\ Value(Lookup(k)) # 0 =>
                      Served(state.mems, state.tables, k, Value(Lookup(k)))
      PROVE  \E s \in Shot :
                /\ snapshots' = Append(snapshots, s) /\ s.closes = closes /\ GetKept(s)
                /\ \A k \in Keys : /\ s.view[k] = Answer(Lookup(k))
                                   /\ Value(Row(s, k)) = Value(Lookup(k))
  <2> DEFINE s == Shot_(state, overlay)
  <2>1. /\ s.mems = state.mems /\ s.tables = state.tables /\ s.readModel = state.readModel
        /\ s.overlay = overlay /\ s.view = view /\ s.closes = closes
    OBVIOUS
  <2>2. s \in Shot
    BY <1>3, StateFields DEF Shot
  <2> HIDE DEF s
  <2>3. ASSUME NEW k \in Keys, s.view[k] # 0
        PROVE  IF Holds(s.overlay, k)
               THEN s.overlay[k].seq = s.view[k] /\ ~s.overlay[k].del /\ s.overlay[k].blob = 0
               ELSE Served(s.mems, s.tables, k, s.view[k])
    <3>1. s.view[k] = Value(Lookup(k)) /\ Value(Lookup(k)) # 0
      BY <1>2, <1>3, <2>1, <2>3
    <3>2. CASE Holds(overlay, k)
      <4>1. Value(overlay[k]) = s.view[k] /\ s.view[k] # 0 /\ overlay[k].blob = 0
        BY <1>4, <2>3, <3>1, <3>2
      <4> QED BY <2>1, <3>2, <4>1 DEF Value
    <3>3. CASE ~Holds(overlay, k)
      BY <1>4, <2>1, <3>1, <3>3
    <3> QED BY <3>2, <3>3
  <2>4. GetKept(s)
    BY <2>3 DEF GetKept
  <2>5. \A k \in Keys : Row(s, k) = IF Holds(overlay, k) THEN overlay[k] ELSE state.readModel[k]
    BY <2>1 DEF Row
  <2>6. \A k \in Keys : Value(Row(s, k)) = Value(Lookup(k))
    BY <1>4, <2>5
  <2>7. snapshots' = Append(snapshots, s)
    BY <1>4 DEF s
  <2> QED BY <1>3, <2>1, <2>2, <2>4, <2>6, <2>7
<1>5. cache \in Cache /\ generation \in Nat
  BY DEF CacheInv, CacheTypes
<1>6. cache.base \in State /\ cache.overlay \in Recs
  BY <1>5, CacheFields
<1>7. cache.valid => \A k \in Keys : KeyCurrent(k)
  BY DEF CacheInv
<1>8. NoRecords \in Recs /\ \A k \in Keys : ~Holds(NoRecords, k)
  BY EmptyTypes DEF Recs, Holds
<1>9. CASE SnapshotOfBase \/ SnapshotOfOverlay
  <2>1. /\ cache.valid
        /\ snapshots' = Append(snapshots, Shot_(cache.base, cache.overlay))
    <3>1. CASE SnapshotOfBase
      <4>1. cache.valid /\ cache.overlay = NoRecords
        BY <3>1 DEF SnapshotOfBase, CacheInv
      <4> QED BY <3>1, <4>1 DEF SnapshotOfBase, Take, view
    <3>2. CASE SnapshotOfOverlay
      <4>1. cache.valid /\ SharedOverlay = cache.overlay
        BY <3>2 DEF SnapshotOfOverlay, SharedOverlay, CacheInv
      <4> QED BY <3>2, <4>1 DEF SnapshotOfOverlay, Take, view
    <3> QED BY <1>9, <3>1, <3>2
  <2>2. ASSUME NEW k \in Keys
        PROVE  /\ Value(CacheRow(k)) = Value(Lookup(k))
               /\ Holds(cache.overlay, k) => cache.overlay[k].blob = 0
               /\ ~Holds(cache.overlay, k) /\ Value(Lookup(k)) # 0 =>
                     Served(cache.base.mems, cache.base.tables, k, Value(Lookup(k)))
    BY <1>7, <2>1 DEF KeyCurrent
  <2> HIDE DEF Shot_
  <2> QED BY <1>4, <1>6, <2>1, <2>2 DEF CacheRow
<1>10. CASE SnapshotBuilt
  <2>1. snapshots' = Append(snapshots, Shot_(Capture, NoRecords))
    BY <1>10 DEF SnapshotBuilt, Take, view
  <2>2. /\ Capture \in State
        /\ \A k \in Keys :
              /\ Value(Capture.readModel[k]) = Value(Lookup(k))
              /\ Value(Lookup(k)) # 0 =>
                    Served(Capture.mems, Capture.tables, k, Value(Lookup(k)))
    BY <1>1, CaptureServes
  <2>3. \A k \in Keys : (IF Holds(NoRecords, k) THEN NoRecords[k] ELSE Capture.readModel[k])
                        = Capture.readModel[k]
    BY <1>8
  <2> HIDE DEF Shot_
  <2> QED BY <1>4, <1>8, <2>1, <2>2, <2>3
<1> QED BY <1>9, <1>10

\* createSnapshot() adds a record with the number of close() calls so far.
LEMMA TakenCloses ==
    ASSUME SnapshotOfBase \/ SnapshotOfOverlay \/ SnapshotBuilt
    PROVE  UNCHANGED vars /\ \E s : snapshots' = Append(snapshots, s) /\ s.closes = closes
<1>1. UNCHANGED vars
  BY DEF SnapshotOfBase, SnapshotOfOverlay, SnapshotBuilt
<1>2. \E state, overlay : Take(state, overlay)
  BY DEF SnapshotOfBase, SnapshotOfOverlay, SnapshotBuilt
<1> QED BY <1>1, <1>2 DEF Take

\* No step loses what a snapshot had.
LEMMA FrozenKept ==
    ASSUME EarlyInv, FrozenInv, [SnapNext]_<<vars, snapVars>>
    PROVE  FrozenInv'
<1>1. closes \in Nat /\ closes' \in Nat /\ (closes' = 0 => closes = 0)
  BY ClosesCounted DEF EarlyInv
<1>2. CASE snapshots' = snapshots
  BY <1>1, <1>2 DEF FrozenInv, Taken
<1>3. CASE snapshots' = <<>>
  <2>1. Taken' = {} /\ snapshots' \in Seq({})
    BY <1>3 DEF Taken
  <2> QED BY <2>1 DEF FrozenInv
<1>4. CASE SnapshotOfBase \/ SnapshotOfOverlay \/ SnapshotBuilt
  <2>1. PICK e : /\ snapshots' = Append(snapshots, e) /\ e.closes = closes
                 /\ closes = 0 => e \in Shot /\ GetKept(e)
    <3>1. CASE closes = 0
      <4>1. TypeInv /\ IdsInv /\ OrderInv /\ CacheInv
        BY <3>1 DEF EarlyInv, Early, IInv, FileInv
      <4> QED BY <1>1, <1>4, <3>1, <4>1, TakenShot
    <3>2. CASE closes # 0
      BY <1>4, <3>2, TakenCloses
    <3> QED BY <3>1, <3>2
  <2>2. closes' = closes
    BY <1>4, TakenCloses DEF vars
  <2>3. snapshots' \in Seq(Taken') /\ \A s \in Taken' : s = e \/ s \in Taken
    <3>1. snapshots \in Seq({snapshots[i] : i \in DOMAIN snapshots})
      BY DEF FrozenInv, Taken
    <3> QED BY <2>1, <3>1, AppendedRange DEF Taken
  <2>4. \A s \in Taken' : s.closes = 0 => s \in Shot /\ GetKept(s)
    BY <2>1, <2>3 DEF FrozenInv
  <2>5. closes = 0 => \A s \in Taken' : s.closes = 0
    BY <2>1, <2>3 DEF FrozenInv
  <2> QED BY <2>2, <2>3, <2>4, <2>5 DEF FrozenInv
<1> QED BY <1>2, <1>3, <1>4, SnapshotSteps

\* So it always is.
LEMMA FrozenAlways == SnapSpec => []FrozenInv
<1>1. SnapInit => FrozenInv
  <2>1. SnapInit => snapshots = <<>> /\ Taken = {}
    BY DEF SnapInit, Taken
  <2> QED BY <2>1 DEF FrozenInv
<1>2. EarlyInv /\ FrozenInv /\ [SnapNext]_<<vars, snapVars>> => FrozenInv'
  BY FrozenKept
<1> QED BY <1>1, <1>2, EarlyAlways, PTL DEF SnapSpec

\* The search of a snapshot's tables stops at the first one that has the key.
LEMMA GetServed ==
    ASSUME NEW s \in Shot, GetKept(s), NEW k \in Keys, s.view[k] # 0,
           \A t \in s.tables : Resolves(t.recs[k])
    PROVE  Get(s, k) = s.view[k]
<1> DEFINE v == s.view[k]
           found == {t \in s.tables : Answer(t.recs[k]) # 0}
<1>1. s.tables \in SUBSET Table /\ v # 0
  BY DEF Shot
<1>2. CASE Holds(s.overlay, k)
  <2>1. s.overlay[k].seq = v /\ ~s.overlay[k].del /\ s.overlay[k].blob = 0
    BY <1>2 DEF GetKept
  <2> QED BY <1>1, <1>2, <2>1 DEF Get, Answer, Resolves
<1>3. CASE ~Holds(s.overlay, k) /\ Holds(s.mems, k)
  <2>1. s.mems[k].seq = v /\ ~s.mems[k].del /\ s.mems[k].blob = 0
    BY <1>3 DEF GetKept, Served, Holds
  <2> QED BY <1>1, <1>3, <2>1 DEF Get, Answer, Resolves
<1>4. CASE ~Holds(s.overlay, k) /\ ~Holds(s.mems, k)
  <2>1. PICK t \in s.tables :
           /\ t.recs[k].seq = v /\ ~t.recs[k].del
           /\ \A u \in s.tables : u # t /\ u.recs[k].seq # 0 => NewerTable(t, u)
    BY <1>4 DEF GetKept, Served, Holds
  <2>2. Answer(t.recs[k]) = v
    BY <1>1, <2>1 DEF Answer
  <2>3. t \in found /\ \A u \in found \ {t} : NewerTable(t, u)
    BY <1>1, <2>1, <2>2 DEF Answer
  <2>4. \A u \in s.tables : ~(NewerTable(t, u) /\ NewerTable(u, t))
    BY <1>1, TableFields DEF NewerTable
  <2>5. FirstLive(found) = t
    <3>1. \A u \in found : u # t => ~NewerTable(u, t)
      BY <2>3, <2>4
    <3> HIDE DEF found
    <3> QED BY <2>3, <3>1 DEF FirstLive
  <2>6. Get(s, k) = FirstLive(found).recs[k].seq
    BY <1>4, <2>3 DEF Get
  <2> QED BY <2>1, <2>5, <2>6
<1> QED BY <1>2, <1>3, <1>4

\* GetFrozen, of the snapshots taken before any close().
EarlyGetFrozen ==
    \A s \in Taken : \A k \in Keys :
        /\ s.closes = 0 /\ s.view[k] # 0
        /\ \A t \in s.tables : Resolves(t.recs[k])
        => Get(s, k) = s.view[k]

\* A key that had a value when the snapshot was taken still has that value in the
\* snapshot, whatever was written, flushed, merged or collected since, as long as the
\* blob files of its tables exist: for the snapshots taken before any close() for ever,
\* so for all of them as long as the database was not closed.
THEOREM SnapshotGets == SnapSpec => [](EarlyGetFrozen /\ (closes = 0 => GetFrozen))
<1>1. FrozenInv => EarlyGetFrozen
  BY GetServed DEF FrozenInv, EarlyGetFrozen
<1>2. FrozenInv => (closes = 0 => GetFrozen)
  BY <1>1 DEF FrozenInv, EarlyGetFrozen, GetFrozen
<1> QED BY <1>1, <1>2, FrozenAlways, PTL

\* The value of what get() finds is there when the files are.
LEMMA LookupResolves ==
    ASSUME TypeInv, IdsInv, OrderInv, FilesInv, life = "open", NEW k \in Keys
    PROVE  Answer(Lookup(k)) = Value(Lookup(k))
<1>1. Lookup(k).seq = 0 => Lookup(k) = NoRecord
  BY NewestFound
<1>2. Resolves(Lookup(k))
  <2>1. immutables \in Seq(MemTable) /\ Lookup(k) = Found(immutables, mutable, manifest.tables, k)
    BY LookupFound DEF TypeInv, TypeOK
  <2>2. CASE \E i \in Nat : LastAt(immutables, mutable, k, i)
    <3>1. PICK i \in Nat : LastAt(immutables, mutable, k, i)
      BY <2>2
    <3>2. Lookup(k) = Mem(i).recs[k] /\ i \in Layers
      BY <2>1, <3>1, FoundLast DEF Mem, LastAt, Layers
    <3> QED BY <3>2, LayerTypes DEF Resolves
  <2>3. CASE NoneAt(immutables, mutable, k)
    <3>1. Lookup(k) = TableLookup(manifest.tables, k)
      BY <2>1, <2>3, FoundLast
    <3>2. Lookup(k) = NoRecord \/ \E t \in manifest.tables : Lookup(k) = t.recs[k]
      BY <3>1, OpenTables, FirstTable
    <3>3. \A t \in manifest.tables : Resolves(t.recs[k])
      BY DEF FilesInv, Exists, Live
    <3> QED BY <3>2, <3>3, EmptyTypes DEF Resolves
  <2> QED BY <2>1, <2>2, <2>3, FoundIn
<1> QED BY <1>1, <1>2, EmptyTypes DEF Answer, Value

\* A snapshot taken while all files exist has the rows that get() answers.
LEMMA ScanKeptByStep ==
    ASSUME EarlyInv, FrozenInv, ScanInv, closes = 0 => FilesInv, [SnapNext]_<<vars, snapVars>>
    PROVE  ScanInv'
<1>1. CASE snapshots' = snapshots
  BY <1>1 DEF ScanInv, Taken
<1>2. CASE snapshots' = <<>>
  BY <1>2 DEF ScanInv, Taken
<1>3. CASE SnapshotOfBase \/ SnapshotOfOverlay \/ SnapshotBuilt
  <2>1. PICK e : /\ snapshots' = Append(snapshots, e) /\ e.closes = closes
                 /\ closes = 0 => ScanKept(e)
    <3>1. CASE closes = 0
      <4>1. TypeInv /\ IdsInv /\ OrderInv /\ CacheInv /\ FilesInv /\ closes \in Nat
        BY <3>1 DEF EarlyInv, Early, IInv, FileInv
      <4>2. life = "open"
        BY <1>3 DEF SnapshotOfBase, SnapshotOfOverlay, SnapshotBuilt, MayTake
      <4>3. PICK s \in Shot :
               /\ snapshots' = Append(snapshots, s) /\ s.closes = closes /\ GetKept(s)
               /\ \A k \in Keys : /\ s.view[k] = Answer(Lookup(k))
                                  /\ Value(Row(s, k)) = Value(Lookup(k))
        BY <1>3, <4>1, TakenShot
      <4>4. \A k \in Keys : Answer(Lookup(k)) = Value(Lookup(k))
        BY <4>1, <4>2, LookupResolves
      <4> QED BY <4>3, <4>4 DEF ScanKept
    <3>2. CASE closes # 0
      BY <1>3, <3>2, TakenCloses
    <3> QED BY <3>1, <3>2
  <2>2. \A s \in Taken' : s = e \/ s \in Taken
    <3>1. snapshots \in Seq({snapshots[i] : i \in DOMAIN snapshots})
      BY DEF FrozenInv, Taken
    <3> QED BY <2>1, <3>1, AppendedRange DEF Taken
  <2> QED BY <2>1, <2>2 DEF ScanInv
<1> QED BY <1>1, <1>2, <1>3, SnapshotSteps

\* Before the first close() the steps are those of EmbeddedDbTables.
LEMMA EarlyTablesStep ==
    ASSUME EarlyInv, [SnapNext]_<<vars, snapVars>>, closes' = 0
    PROVE  closes = 0 /\ IInv /\ [Next]_vars
<1>1. closes = 0 /\ closePc = "idle" /\ IInv
  BY ClosesCounted DEF EarlyInv, Early
<1>2. life # "closing"
  BY <1>1 DEF IInv, TypeInv, PhaseInv
<1> QED BY <1>1, <1>2, EarlySteps, EarlyNext

\* Until the first close() the files stay, under the condition of FilesExist.
EarlyFiles  == closes = 0 => FilesInv
EarlyDeletes == closes = 0 => DeletesOldBlobs

\* Rows whose values can be read are rows that were visible.
LEMMA ScanInvFrozen == FrozenInv /\ ScanInv => ScanFrozen
  BY DEF FrozenInv, ScanInv, ScanKept, ScanFrozen, Answer, Value

\* The rows that a scan of a snapshot delivers, those whose blob files still exist, have
\* the values that get() answered when the snapshot was taken, and no erased key has one,
\* whatever was written, flushed, merged, collected, closed or reopened since, as long
\* as no job is about to delete a blob file whose id will be handed out again.
THEOREM SnapshotScans == SnapSpec /\ []EarlyDeletes => []ScanFrozen
<1>1. SnapInit => ScanInv /\ EarlyFiles
  <2>1. SnapInit => Taken = {} /\ Init
    BY DEF SnapInit, Taken
  <2> QED BY <2>1, InitInv DEF ScanInv, EarlyFiles
<1>2. /\ EarlyInv /\ FrozenInv /\ ScanInv /\ EarlyFiles /\ EarlyDeletes
      /\ [SnapNext]_<<vars, snapVars>>
      => ScanInv' /\ EarlyFiles'
  <2> SUFFICES ASSUME EarlyInv, FrozenInv, ScanInv, EarlyFiles, EarlyDeletes,
                      [SnapNext]_<<vars, snapVars>>
               PROVE  ScanInv' /\ EarlyFiles'
    OBVIOUS
  <2>1. ScanInv'
    BY ScanKeptByStep DEF EarlyFiles
  <2>2. ASSUME closes' = 0 PROVE FilesInv'
    <3>1. closes = 0 /\ IInv /\ [Next]_vars
      BY <2>2, EarlyTablesStep
    <3> QED BY <3>1, FilesKept DEF IInv, EarlyFiles, EarlyDeletes
  <2> QED BY <2>1, <2>2 DEF EarlyFiles
<1> QED BY <1>1, <1>2, EarlyAlways, FrozenAlways, ScanInvFrozen, PTL DEF SnapSpec

\* When every value stays in its table, scans of snapshots are frozen, whatever crashes.
THEOREM SnapshotScansInline == ASSUME "blob" \notin Kinds PROVE SnapSpec => []ScanFrozen
<1> DEFINE SmallEarly == closes = 0 => SmallInv
<1>1. SnapInit => SmallEarly
  <2>1. SnapInit => Init
    BY DEF SnapInit
  <2> QED BY <2>1, InitSmall
<1>2. EarlyInv /\ SmallEarly /\ [SnapNext]_<<vars, snapVars>> => SmallEarly'
  BY EarlyTablesStep, SmallKept
<1>3. SmallEarly => EarlyDeletes
  BY DEF SmallInv, NoBlobs, DeletesOldBlobs, EarlyDeletes
<1> HIDE DEF SmallEarly
<1> QED BY <1>1, <1>2, <1>3, EarlyAlways, SnapshotScans, PTL DEF SnapSpec

\* Crashes are counted too.
LEMMA CrashesCounted ==
    ASSUME crashes \in Nat, [SnapNext]_<<vars, snapVars>>
    PROVE  crashes' \in Nat /\ (crashes' = 0 => crashes = 0)
<1>1. crashes' = crashes \/ crashes' = crashes + 1
  <2>1. ASSUME OtherStep PROVE crashes' = crashes
    <3>1. CASE FlushStep
      BY <3>1 DEF FlushStep, FlushPick, FlushWrite, FlushInstall, FlushFails, FlushRemove
    <3>2. CASE TailStep
      BY <3>2 DEF TailStep, DeleteFiles
    <3>3. CASE \/ \E w \in Writers, k \in Keys, kind \in Kinds : BeginWrite(w, k, kind)
               \/ \E w \in Writers : RejectWrite(w)
      BY <3>3 DEF BeginWrite, RejectWrite
    <3>4. CASE CloseBegin \/ CloseTake \/ CloseWrite \/ CloseInstall \/ CloseFails
      BY <3>4 DEF CloseBegin, CloseTake, CloseWrite, CloseInstall, CloseFails
    <3> QED BY <2>1, <3>1, <3>2, <3>3, <3>4 DEF OtherStep
  <2>2. ASSUME NEW w \in Writers, SnapApplyWrite(w) PROVE crashes' = crashes
    BY <2>2 DEF SnapApplyWrite, ApplyWrite
  <2>3. ASSUME SnapCompaction PROVE crashes' = crashes
    BY <2>3 DEF SnapCompaction, CompStep, CompStart, CompMerge, CompInstall, CompFails
  <2>4. ASSUME SnapGc PROVE crashes' = crashes
    BY <2>4 DEF SnapGc, GcStep, GcStart, GcList, GcWrite, GcCommit, GcFails
  <2>5. ASSUME SnapshotOfBase \/ SnapshotOfOverlay \/ SnapshotBuilt PROVE crashes' = crashes
    BY <2>5 DEF SnapshotOfBase, SnapshotOfOverlay, SnapshotBuilt, vars
  <2>6. ASSUME SnapReset PROVE crashes' = crashes
    BY <2>6 DEF SnapReset, CloseReset
  <2>7. ASSUME SnapCrash PROVE crashes' = crashes + 1
    BY <2>7 DEF SnapCrash, Crash
  <2>8. ASSUME SnapOpen PROVE crashes' = crashes
    BY <2>8 DEF SnapOpen, Open
  <2>9. ASSUME UNCHANGED <<vars, snapVars>> PROVE crashes' = crashes
    BY <2>9 DEF vars
  <2> QED BY <2>1, <2>2, <2>3, <2>4, <2>5, <2>6, <2>7, <2>8, <2>9 DEF SnapNext
<1> QED BY <1>1

\* Scans and files, until the first crash.
UncrashedInv ==
    /\ crashes \in Nat
    /\ crashes = 0 => ScanInv /\ (closes = 0 => FilesInv /\ OldInv)

\* Until the process dies for the first time, scans of snapshots are frozen, big values
\* or not.
THEOREM SnapshotScansUntilCrash == SnapSpec => [](crashes = 0 => ScanFrozen)
<1>1. SnapInit => UncrashedInv
  <2> SUFFICES ASSUME SnapInit PROVE UncrashedInv
    OBVIOUS
  <2>1. Taken = {} /\ Init /\ crashes = 0 /\ 0 \in Nat
    BY DEF SnapInit, Taken, Init
  <2>2. blobFiles = {} /\ gc.listed = {} /\ tails = {}
    BY <2>1 DEF Init, NoGc
  <2> QED BY <2>1, <2>2, InitInv DEF UncrashedInv, ScanInv, OldInv, OldIds, DeletesOldBlobs
<1>2. EarlyInv /\ FrozenInv /\ UncrashedInv /\ [SnapNext]_<<vars, snapVars>> => UncrashedInv'
  <2> SUFFICES ASSUME EarlyInv, FrozenInv, UncrashedInv, [SnapNext]_<<vars, snapVars>>
               PROVE  UncrashedInv'
    OBVIOUS
  <2>1. crashes' \in Nat /\ (crashes' = 0 => crashes = 0)
    BY CrashesCounted DEF UncrashedInv
  <2>2. ASSUME crashes' = 0 PROVE ScanInv'
    BY <2>1, <2>2, ScanKeptByStep DEF UncrashedInv
  <2>3. ASSUME crashes' = 0, closes' = 0 PROVE FilesInv' /\ OldInv'
    <3>1. closes = 0 /\ IInv /\ [Next]_vars
      BY <2>3, EarlyTablesStep
    <3>2. FilesInv /\ OldInv /\ DeletesOldBlobs
      BY <2>1, <2>3, <3>1 DEF UncrashedInv, OldInv, OldIds
    <3> QED BY <3>1, <3>2, FilesKept, OldInvKept DEF IInv
  <2> QED BY <2>1, <2>2, <2>3 DEF UncrashedInv
<1>3. FrozenInv /\ UncrashedInv => (crashes = 0 => ScanFrozen)
  BY ScanInvFrozen DEF UncrashedInv
<1> QED BY <1>1, <1>2, <1>3, EarlyAlways, FrozenAlways, PTL DEF SnapSpec
=============================================================================
