------------------------ MODULE KvRefinement_proofs ------------------------
(***************************************************************************)
(* The proof that EmbeddedDbTables implements KvStore, for every value of  *)
(* its constants: the memtables and the tables hold ranges of the journal, *)
(* flushes, compactions and blob collections move records between them     *)
(* without losing the newest one of a key, so what a reader finds, or      *)
(* would find after a crash, is what the last write of its key left.       *)
(***************************************************************************)
EXTENDS EmbeddedDbTables_proofs

\* The definitions every step of a preservation proof has to see through.
USE DEF diskVars, memVars, writeVars, flushVars, compVars, gcVars, closeVars, boundVars

-----------------------------------------------------------------------------
(* What records say about a set ops of operations.                         *)

\* One operation per sequence.
OneEach(ops) == \A o, p \in ops : o.seq = p.seq => o = p

\* r is the record of an operation on k.
Genuine(ops, r, k) ==
    \/ r.seq = 0
    \/ \E op \in ops : /\ op.seq = r.seq /\ op.key = k
                       /\ (r.del <=> op.kind = "erase") /\ (r.big <=> op.kind = "blob")

\* Of every key recs has the newest operation in the sequences from lo to hi, lo
\* excluded, if there is one.
Covers(ops, recs, lo, hi) == \A k \in Keys :
    /\ Genuine(ops, recs[k], k)
    /\ recs[k].seq # 0 => lo < recs[k].seq /\ recs[k].seq <= hi
    /\ \A op \in ops : op.key = k /\ lo < op.seq /\ op.seq <= hi => op.seq <= recs[k].seq

\* Tables found first have newer records.
Sorted(tables) ==
    \A t, u \in tables : NewerTable(t, u) =>
        \A k \in Keys : t.recs[k].seq # 0 => u.recs[k].seq < t.recs[k].seq

\* A table has the newest operation on k up to sequence n; or no table has one, and
\* the newest is an erasure, if there is any.
Held(ops, tables, k, n) == \E t \in tables :
    t.recs[k].seq # 0 /\ \A op \in ops : op.key = k /\ op.seq <= n => op.seq <= t.recs[k].seq
Erased(ops, tables, k, n) ==
    /\ \A t \in tables : t.recs[k].seq = 0
    /\ \A op \in ops : op.key = k /\ op.seq <= n =>
          op.kind = "erase" \/ \E o \in ops : o.key = k /\ op.seq < o.seq /\ o.seq <= n

\* The tables hold records of operations up to sequence n, found newest first.
Sound(ops, tables, n) ==
    /\ \A t \in tables : \A k \in Keys : Genuine(ops, t.recs[k], k) /\ t.recs[k].seq <= n
    /\ Sorted(tables)

\* The tables answer every key as of sequence n.
Serves(ops, tables, n) ==
    /\ Sound(ops, tables, n)
    /\ \A k \in Keys : Held(ops, tables, k, n) \/ Erased(ops, tables, k, n)

\* The same records, up to the blob files of their values.
SameRecs(recs, others) ==
    \A k \in Keys : /\ recs[k].seq = others[k].seq
                    /\ recs[k].del = others[k].del /\ recs[k].big = others[k].big

\* A later operation is in no range that ends before it.
LEMMA CoversLater ==
    ASSUME NEW ops \in SUBSET Operation, NEW op \in Operation, NEW recs, NEW lo \in Nat,
           NEW hi \in Nat, hi < op.seq, Covers(ops, recs, lo, hi)
    PROVE  Covers(ops \cup {op}, recs, lo, hi)
<1>1. op.seq \in Nat
  BY OperationFields
<1> QED BY <1>1 DEF Covers, Genuine

\* Nor does it change what tables answer as of an earlier sequence.
LEMMA ServesLater ==
    ASSUME NEW ops \in SUBSET Operation, NEW op \in Operation, NEW tables,
           NEW n \in Nat, n < op.seq, Serves(ops, tables, n)
    PROVE  Serves(ops \cup {op}, tables, n)
<1>1. op.seq \in Nat
  BY OperationFields
<1>2. \A t \in tables : \A k \in Keys : Genuine(ops \cup {op}, t.recs[k], k) /\ t.recs[k].seq <= n
  BY DEF Serves, Sound, Genuine
<1>3. ASSUME NEW k \in Keys
      PROVE  Held(ops \cup {op}, tables, k, n) \/ Erased(ops \cup {op}, tables, k, n)
  <2>1. CASE Held(ops, tables, k, n)
    BY <1>1, <2>1 DEF Held
  <2>2. CASE Erased(ops, tables, k, n)
    BY <1>1, <2>2 DEF Erased
  <2> QED BY <2>1, <2>2 DEF Serves, Sound
<1> QED BY <1>2, <1>3 DEF Serves, Sound

\* The records of an operation applied after all others.
LEMMA CoversApplied ==
    ASSUME NEW ops \in SUBSET Operation, NEW op \in Operation, NEW recs \in [Keys -> Record],
           NEW lo \in Nat, NEW hi \in Nat, lo <= hi, hi < op.seq,
           Covers(ops, recs, lo, hi), \A o \in ops : o.seq <= hi
    PROVE  Covers(ops \cup {op}, [recs EXCEPT ![op.key] = RecordOf(op)], lo, op.seq)
<1> DEFINE new == [recs EXCEPT ![op.key] = RecordOf(op)]
           all == ops \cup {op}
<1>1. /\ op.seq \in Nat /\ op.key \in Keys /\ RecordOf(op).seq = op.seq
      /\ RecordOf(op).del <=> op.kind = "erase"
      /\ RecordOf(op).big <=> op.kind = "blob"
  BY OperationFields
<1>2. new[op.key] = RecordOf(op) /\ \A k \in Keys : k # op.key => new[k] = recs[k]
  BY <1>1
<1>3. \A o \in ops : o.seq \in Nat
  BY OperationFields
<1>4. \A k \in Keys : recs[k].seq \in Nat
  BY RecordFields
<1> HIDE DEF new
<1> SUFFICES ASSUME NEW k \in Keys
             PROVE  /\ Genuine(all, new[k], k)
                    /\ new[k].seq # 0 => lo < new[k].seq /\ new[k].seq <= op.seq
                    /\ \A o \in all : o.key = k /\ lo < o.seq /\ o.seq <= op.seq => o.seq <= new[k].seq
  BY DEF Covers, new
<1>5. CASE k = op.key
  <2>1. Genuine(all, new[k], k)
    BY <1>1, <1>2, <1>5 DEF Genuine
  <2> QED BY <2>1, <1>1, <1>2, <1>3, <1>5
<1>6. CASE k # op.key
  <2>1. /\ Genuine(ops, recs[k], k)
        /\ recs[k].seq # 0 => lo < recs[k].seq /\ recs[k].seq <= hi
        /\ \A o \in ops : o.key = k /\ lo < o.seq /\ o.seq <= hi => o.seq <= recs[k].seq
    BY DEF Covers
  <2>2. Genuine(all, new[k], k)
    BY <1>2, <1>6, <2>1 DEF Genuine
  <2>3. new[k].seq # 0 => lo < new[k].seq /\ new[k].seq <= op.seq
    BY <1>1, <1>2, <1>4, <1>6, <2>1
  <2>4. \A o \in all : o.key = k /\ lo < o.seq /\ o.seq <= op.seq => o.seq <= new[k].seq
    BY <1>1, <1>2, <1>3, <1>6, <2>1
  <2> QED BY <2>2, <2>3, <2>4
<1> QED BY <1>5, <1>6

\* Records that differ in the blob files of their values say the same.
LEMMA CoversSame ==
    ASSUME NEW ops, NEW recs, NEW others, SameRecs(others, recs), NEW lo, NEW hi,
           Covers(ops, recs, lo, hi)
    PROVE  Covers(ops, others, lo, hi)
  BY DEF Covers, SameRecs, Genuine

-----------------------------------------------------------------------------
(* A flush: the oldest memtable becomes the newest table.                  *)

\* Tables, and a newer one with the range of sequences that follows theirs.
LEMMA ServesFlushed ==
    ASSUME NEW ops \in SUBSET Operation, NEW tables \in SUBSET Table, NEW t \in Table,
           NEW n \in Nat, NEW m \in Nat, n < m,
           Serves(ops, tables, n), Covers(ops, t.recs, n, m),
           t.level = 0, \A u \in tables : u.level = 0 => u.fileId < t.fileId
    PROVE  Serves(ops, tables \cup {t}, m)
<1>1. \A o \in ops : o.seq \in Nat
  BY OperationFields
<1>2. \A u \in tables \cup {t} : /\ u.level \in {0, 1} /\ u.fileId \in Nat
                                 /\ \A k \in Keys : u.recs[k].seq \in Nat
  <2> SUFFICES ASSUME NEW u \in tables \cup {t}
               PROVE  u.level \in {0, 1} /\ u.fileId \in Nat /\ \A k \in Keys : u.recs[k].seq \in Nat
    OBVIOUS
  <2>1. u \in Table
    OBVIOUS
  <2> QED BY <2>1, TableFields, RecordFields
<1>3. \A k \in Keys :
         /\ Genuine(ops, t.recs[k], k)
         /\ t.recs[k].seq # 0 => n < t.recs[k].seq /\ t.recs[k].seq <= m
         /\ \A op \in ops : op.key = k /\ n < op.seq /\ op.seq <= m => op.seq <= t.recs[k].seq
  BY DEF Covers
<1>4. /\ \A u \in tables : \A k \in Keys : Genuine(ops, u.recs[k], k) /\ u.recs[k].seq <= n
      /\ Sorted(tables)
      /\ \A k \in Keys : Held(ops, tables, k, n) \/ Erased(ops, tables, k, n)
  BY DEF Serves, Sound
<1>5. \A u \in tables \cup {t} : \A k \in Keys : Genuine(ops, u.recs[k], k) /\ u.recs[k].seq <= m
  BY <1>2, <1>3, <1>4
<1>6. Sorted(tables \cup {t})
  <2>1. ASSUME NEW u \in tables \cup {t}, NEW v \in tables \cup {t}, NewerTable(u, v), NEW k \in Keys,
               u.recs[k].seq # 0
        PROVE  v.recs[k].seq < u.recs[k].seq
    <3>1. CASE v = t
      BY <1>2, <2>1, <3>1 DEF NewerTable
    <3>2. CASE v # t /\ u = t
      BY <1>2, <1>3, <1>4, <2>1, <3>2
    <3>3. CASE v # t /\ u # t
      BY <1>4, <2>1, <3>3 DEF Sorted
    <3> QED BY <3>1, <3>2, <3>3
  <2> QED BY <2>1 DEF Sorted
<1>7. ASSUME NEW k \in Keys
      PROVE  Held(ops, tables \cup {t}, k, m) \/ Erased(ops, tables \cup {t}, k, m)
  <2>1. CASE t.recs[k].seq # 0
    BY <1>1, <1>2, <1>3, <2>1 DEF Held
  <2>2. CASE t.recs[k].seq = 0
    <3>1. \A op \in ops : op.key = k /\ op.seq <= m => op.seq <= n
      BY <1>1, <1>3, <2>2
    <3>2. CASE Held(ops, tables, k, n)
      BY <3>1, <3>2 DEF Held
    <3>3. CASE Erased(ops, tables, k, n)
      BY <1>1, <2>2, <3>1, <3>3 DEF Erased
    <3> QED BY <1>4, <3>2, <3>3
  <2> QED BY <2>1, <2>2
<1> QED BY <1>5, <1>6, <1>7 DEF Serves, Sound

-----------------------------------------------------------------------------
(* A rewrite: a set of tables is replaced by its newest records.           *)

\* The newest records of some tables, with or without their tombstones.
Merged(tables, drop) ==
    LET newest == NewestRecs({t.recs : t \in tables})
    IN  [k \in Keys |-> IF drop /\ newest[k].del THEN NoRecord ELSE newest[k]]

\* The tables in new are what is left of recs: one table of level 1, newer than those of
\* level 1 that stay, or none if there is nothing to write.
Rewrites(new, recs, others) ==
    \/ new = {} /\ \A k \in Keys : recs[k].seq = 0
    \/ \E t \in new : /\ new = {t} /\ t.level = 1 /\ SameRecs(t.recs, recs)
                      /\ \A u \in others : u.level = 1 => u.fileId < t.fileId

\* The tables others may stay beside a rewrite of merged: they are newer, or older when
\* merged has level 0 only; and tombstones go only when none of them is older.
Rewritable(merged, others, drop) ==
    /\ \A t \in merged : \A u \in others :
          IF u.level = 0 THEN NewerTable(u, t) ELSE t.level = 0
    /\ drop => \A u \in others : u.level = 0

\* A merged record is one of the records merged, no older than any, or a tombstone that
\* was dropped.
LEMMA MergedRecord ==
    ASSUME NEW tables \in SUBSET Table, \A t \in tables : TableRecsOK(t.recs), NEW k \in Keys,
           NEW drop \in BOOLEAN
    PROVE  \E m \in Record : /\ m = NoRecord \/ \E t \in tables : m = t.recs[k]
                             /\ \A t \in tables : t.recs[k].seq <= m.seq
                             /\ Merged(tables, drop)[k] = IF drop /\ m.del THEN NoRecord ELSE m
<1> DEFINE maps == {t.recs : t \in tables}
<1>1. maps \in SUBSET [Keys -> Record] /\ \A r \in maps : Bounded(r)
  BY TableMaps
<1> HIDE DEF maps
<1>2. /\ NewestOf(k, maps) = NoRecord \/ \E r \in maps : NewestOf(k, maps) = r[k]
      /\ NewestOf(k, maps) \in Record
      /\ \A r \in maps : r[k].seq <= NewestOf(k, maps).seq
  BY <1>1, NewestChoice
<1>3. NewestRecs(maps)[k] = NewestOf(k, maps)
  BY DEF NewestRecs
<1>4. Merged(tables, drop)[k] = IF drop /\ NewestOf(k, maps).del THEN NoRecord
                                ELSE NewestOf(k, maps)
  BY <1>3 DEF Merged, maps
<1> QED BY <1>2, <1>4 DEF maps

\* Merged records are genuine and no newer than the tables they come from.
LEMMA MergedGenuine ==
    ASSUME NEW ops, NEW tables \in SUBSET Table, \A t \in tables : TableRecsOK(t.recs),
           NEW n \in Nat, NEW k \in Keys, NEW drop \in BOOLEAN,
           \A t \in tables : Genuine(ops, t.recs[k], k) /\ t.recs[k].seq <= n
    PROVE  Genuine(ops, Merged(tables, drop)[k], k) /\ Merged(tables, drop)[k].seq <= n
<1>1. Genuine(ops, NoRecord, k) /\ NoRecord.seq <= n
  BY EmptyTypes DEF Genuine
<1>2. PICK m \in Record : /\ m = NoRecord \/ \E t \in tables : m = t.recs[k]
                          /\ Merged(tables, drop)[k] = IF drop /\ m.del THEN NoRecord ELSE m
  BY MergedRecord
<1>3. Merged(tables, drop)[k] = NoRecord \/ \E t \in tables : Merged(tables, drop)[k] = t.recs[k]
  BY <1>2
<1>4. CASE Merged(tables, drop)[k] = NoRecord
  BY <1>1, <1>4
<1>5. ASSUME NEW t \in tables, Merged(tables, drop)[k] = t.recs[k]
      PROVE  Genuine(ops, Merged(tables, drop)[k], k) /\ Merged(tables, drop)[k].seq <= n
  BY <1>5
<1> QED BY <1>3, <1>4, <1>5

\* The tables that stay and the new one are sorted as well.
LEMMA SortedMerged ==
    ASSUME NEW tables \in SUBSET Table, \A t \in tables : TableRecsOK(t.recs), Sorted(tables),
           NEW merged \in SUBSET tables, NEW drop \in BOOLEAN,
           Rewritable(merged, tables \ merged, drop), NEW r \in Table, r.level = 1,
           SameRecs(r.recs, Merged(merged, drop)),
           \A u \in tables \ merged : u.level = 1 => u.fileId < r.fileId
    PROVE  Sorted((tables \ merged) \cup {r})
<1>0. ASSUME NEW k \in Keys
      PROVE  r.recs[k].seq = 0 \/ \E v \in merged : r.recs[k].seq = v.recs[k].seq
  <2>1. merged \in SUBSET Table /\ \A v \in merged : TableRecsOK(v.recs)
    OBVIOUS
  <2>2. PICK m \in Record : /\ m = NoRecord \/ \E v \in merged : m = v.recs[k]
                            /\ Merged(merged, drop)[k] = IF drop /\ m.del THEN NoRecord ELSE m
    BY <2>1, MergedRecord
  <2>3. r.recs[k].seq = Merged(merged, drop)[k].seq
    BY DEF SameRecs
  <2> QED BY <2>2, <2>3, EmptyTypes
<1> SUFFICES ASSUME NEW t \in (tables \ merged) \cup {r}, NEW u \in (tables \ merged) \cup {r},
                    NewerTable(t, u), NEW k \in Keys, t.recs[k].seq # 0
             PROVE  u.recs[k].seq < t.recs[k].seq
  BY DEF Sorted
<1>1. \A v \in tables \cup {r} : /\ v.level \in {0, 1} /\ v.fileId \in Nat /\ v.recs[k].seq \in Nat
  <2> SUFFICES ASSUME NEW v \in tables \cup {r}
               PROVE  v.level \in {0, 1} /\ v.fileId \in Nat /\ v.recs[k].seq \in Nat
    OBVIOUS
  <2>1. v \in Table
    OBVIOUS
  <2> QED BY <2>1, TableFields, RecordFields
<1>2. r.recs[k].seq = 0 \/ \E v \in merged : r.recs[k].seq = v.recs[k].seq
  BY <1>0
<1>3. CASE t \in tables \ merged /\ u \in tables \ merged
  BY <1>3 DEF Sorted
<1>4. CASE t \in tables \ merged /\ u = r
  <2>1. t.level = 0
    BY <1>1, <1>4 DEF NewerTable
  <2>2. \A v \in merged : NewerTable(t, v)
    BY <1>4, <2>1 DEF Rewritable
  <2>3. \A v \in merged : v.recs[k].seq < t.recs[k].seq
    BY <1>4, <2>2 DEF Sorted
  <2>4. CASE r.recs[k].seq = 0
    BY <1>1, <1>4, <2>4
  <2>5. CASE \E v \in merged : r.recs[k].seq = v.recs[k].seq
    BY <1>4, <2>3, <2>5
  <2> QED BY <1>2, <2>4, <2>5
<1>5. CASE t = r /\ u \in tables \ merged
  <2>1. u.level = 1
    BY <1>1, <1>5 DEF NewerTable
  <2>2. \A v \in merged : v.level = 0
    BY <1>5, <2>1 DEF Rewritable
  <2>3. PICK v \in merged : r.recs[k].seq = v.recs[k].seq
    BY <1>2, <1>5
  <2>4. NewerTable(v, u)
    BY <2>1, <2>2 DEF NewerTable
  <2>5. u.recs[k].seq < v.recs[k].seq
    BY <1>5, <2>3, <2>4 DEF Sorted
  <2> QED BY <1>5, <2>3, <2>5
<1>6. CASE t = r /\ u = r
  BY <1>1, <1>6 DEF NewerTable
<1> QED BY <1>3, <1>4, <1>5, <1>6

\* They hold records of operations, as before.
LEMMA SoundMerged ==
    ASSUME NEW ops, NEW tables \in SUBSET Table,
           \A t \in tables : TableRecsOK(t.recs), NEW n \in Nat, Sound(ops, tables, n),
           NEW merged \in SUBSET tables, NEW drop \in BOOLEAN,
           Rewritable(merged, tables \ merged, drop), NEW new \in SUBSET Table,
           Rewrites(new, Merged(merged, drop), tables \ merged)
    PROVE  Sound(ops, (tables \ merged) \cup new, n)
<1> DEFINE left == (tables \ merged) \cup new
           R == Merged(merged, drop)
<1>1. /\ \A t \in tables : \A k \in Keys : Genuine(ops, t.recs[k], k) /\ t.recs[k].seq <= n
      /\ Sorted(tables)
  BY DEF Sound
<1>2. ASSUME NEW t \in left, NEW k \in Keys PROVE Genuine(ops, t.recs[k], k) /\ t.recs[k].seq <= n
  <2>1. CASE t \in tables
    BY <1>1, <2>1
  <2>2. CASE t \in new
    <3>1. Genuine(ops, R[k], k) /\ R[k].seq <= n
      <4>1. /\ merged \in SUBSET Table
            /\ \A v \in merged : /\ TableRecsOK(v.recs)
                                 /\ Genuine(ops, v.recs[k], k) /\ v.recs[k].seq <= n
        BY <1>1
      <4> QED BY <4>1, MergedGenuine
    <3>2. SameRecs(t.recs, R)
      BY <2>2 DEF Rewrites
    <3>3. t.recs[k].seq = R[k].seq /\ t.recs[k].del = R[k].del /\ t.recs[k].big = R[k].big
      BY <3>2 DEF SameRecs
    <3> HIDE DEF R
    <3> QED BY <3>1, <3>3 DEF Genuine
  <2> QED BY <2>1, <2>2
<1>3. Sorted(left)
  <2>1. CASE new = {}
    BY <1>1, <2>1 DEF Sorted
  <2>2. ASSUME NEW r \in new, new = {r}, r.level = 1, SameRecs(r.recs, R),
               \A u \in tables \ merged : u.level = 1 => u.fileId < r.fileId
        PROVE  Sorted(left)
    <3>1. r \in Table /\ left = (tables \ merged) \cup {r}
      BY <2>2
    <3>2. Sorted((tables \ merged) \cup {r})
      BY <1>1, <2>2, <3>1, SortedMerged
    <3> QED BY <3>1, <3>2
  <2> QED BY <2>1, <2>2 DEF Rewrites
<1> HIDE DEF left
<1>4. Sound(ops, left, n)
  BY <1>2, <1>3 DEF Sound
<1> QED BY <1>4 DEF left

\* Every key is answered as before.
LEMMA AnsweredMerged ==
    ASSUME NEW ops \in SUBSET Operation, OneEach(ops), NEW tables \in SUBSET Table,
           \A t \in tables : TableRecsOK(t.recs), NEW n \in Nat, Serves(ops, tables, n),
           NEW merged \in SUBSET tables, NEW drop \in BOOLEAN,
           Rewritable(merged, tables \ merged, drop), NEW new \in SUBSET Table,
           Rewrites(new, Merged(merged, drop), tables \ merged), NEW k \in Keys
    PROVE  LET left == (tables \ merged) \cup new
           IN  Held(ops, left, k, n) \/ Erased(ops, left, k, n)
<1> DEFINE left == (tables \ merged) \cup new
           R == Merged(merged, drop)
<1>1. PICK m \in Record : /\ m = NoRecord \/ \E t \in merged : m = t.recs[k]
                          /\ \A t \in merged : t.recs[k].seq <= m.seq
                          /\ R[k] = IF drop /\ m.del THEN NoRecord ELSE m
  <2>1. merged \in SUBSET Table /\ \A t \in merged : TableRecsOK(t.recs)
    OBVIOUS
  <2> QED BY <2>1, MergedRecord
<1>2. \A r \in new : r.recs[k].seq = R[k].seq
  BY DEF Rewrites, SameRecs
<1>3. R[k].seq # 0 => \E r \in new : TRUE
  BY DEF Rewrites
<1>4. m.seq \in Nat /\ NoRecord.seq = 0
  BY RecordFields, EmptyTypes
<1>5. \A t \in tables : t.recs[k].seq \in Nat
  BY TableFields, RecordFields
<1>6. \A o \in ops : o.seq \in Nat
  BY OperationFields
<1>7. /\ \A t \in tables : Genuine(ops, t.recs[k], k) /\ t.recs[k].seq <= n
      /\ Held(ops, tables, k, n) \/ Erased(ops, tables, k, n)
  BY DEF Serves, Sound
<1> HIDE DEF R
<1>8. CASE Held(ops, tables, k, n)
  <2>1. PICK t \in tables : /\ t.recs[k].seq # 0
                            /\ \A op \in ops : op.key = k /\ op.seq <= n => op.seq <= t.recs[k].seq
    BY <1>8 DEF Held
  <2>2. CASE t \notin merged
    BY <2>1, <2>2 DEF Held
  <2>3. CASE t \in merged
    <3>1. m.seq # 0 /\ \A op \in ops : op.key = k /\ op.seq <= n => op.seq <= m.seq
      BY <1>1, <1>4, <1>5, <1>6, <2>1, <2>3
    <3>2. PICK v \in merged : m = v.recs[k]
      BY <1>1, <1>4, <3>1
    <3>3. CASE ~(drop /\ m.del)
      <4>1. R[k] = m
        BY <1>1, <3>3
      <4>2. PICK r \in new : r.recs[k].seq = m.seq
        BY <1>2, <1>3, <3>1, <4>1
      <4> QED BY <3>1, <4>2 DEF Held
    <3>4. CASE drop /\ m.del
      <4>1. R[k].seq = 0
        BY <1>1, <1>4, <3>4
      <4>2. CASE \E u \in tables \ merged : u.recs[k].seq # 0
        <5>1. PICK u \in tables \ merged : u.recs[k].seq # 0
          BY <4>2
        <5>2. NewerTable(u, v)
          BY <3>4 DEF Rewritable
        <5>3. m.seq < u.recs[k].seq
          BY <3>2, <5>1, <5>2 DEF Sorted, Serves, Sound
        <5>4. \A op \in ops : op.key = k /\ op.seq <= n => op.seq <= u.recs[k].seq
          BY <1>4, <1>5, <1>6, <3>1, <5>3
        <5> QED BY <5>1, <5>4 DEF Held
      <4>3. CASE \A u \in tables \ merged : u.recs[k].seq = 0
        <5>1. \A u \in left : u.recs[k].seq = 0
          BY <1>2, <4>1, <4>3
        <5>2. PICK o \in ops : o.seq = m.seq /\ o.key = k /\ o.kind = "erase"
          BY <1>7, <3>1, <3>2, <3>4 DEF Genuine
        <5>3. o.seq <= n
          BY <1>7, <3>2, <5>2
        <5>4. ASSUME NEW op \in ops, op.key = k, op.seq <= n
              PROVE  op.kind = "erase" \/ \E p \in ops : p.key = k /\ op.seq < p.seq /\ p.seq <= n
          <6>1. op.seq <= o.seq
            BY <3>1, <5>2, <5>4
          <6>2. CASE op.seq = o.seq
            BY <5>2, <6>2 DEF OneEach
          <6>3. CASE op.seq < o.seq
            BY <5>2, <5>3, <6>3
          <6> QED BY <1>6, <6>1, <6>2, <6>3
        <5> QED BY <5>1, <5>4 DEF Erased
      <4> QED BY <4>2, <4>3
    <3> QED BY <3>3, <3>4
  <2> QED BY <2>2, <2>3
<1>9. CASE Erased(ops, tables, k, n)
  <2>1. m.seq = 0
    BY <1>1, <1>4, <1>9 DEF Erased
  <2>2. R[k].seq = 0
    BY <1>1, <1>4, <2>1
  <2>3. \A u \in left : u.recs[k].seq = 0
    BY <1>2, <1>9, <2>2 DEF Erased
  <2> QED BY <1>9, <2>3 DEF Erased
<1> QED BY <1>7, <1>8, <1>9

\* The tables answer as before.
LEMMA ServesMerged ==
    ASSUME NEW ops \in SUBSET Operation, OneEach(ops), NEW tables \in SUBSET Table,
           \A t \in tables : TableRecsOK(t.recs), NEW n \in Nat, Serves(ops, tables, n),
           NEW merged \in SUBSET tables, NEW drop \in BOOLEAN,
           Rewritable(merged, tables \ merged, drop), NEW new \in SUBSET Table,
           Rewrites(new, Merged(merged, drop), tables \ merged)
    PROVE  Serves(ops, (tables \ merged) \cup new, n)
<1> DEFINE left == (tables \ merged) \cup new
<1>1. Sound(ops, left, n)
  BY SoundMerged DEF Serves
<1>2. \A k \in Keys : Held(ops, left, k, n) \/ Erased(ops, left, k, n)
  BY AnsweredMerged
<1> HIDE DEF left
<1>3. Serves(ops, left, n)
  BY <1>1, <1>2 DEF Serves
<1> QED BY <1>3 DEF left

-----------------------------------------------------------------------------
(* The inductive invariant about contents.                                 *)

\* A condition on behaviours: writes are applied in the order of their sequences.
WritesInOrder == \A w \in Writers : pc[w] = "encode" => lastVisible < req[w].seq

\* The journal of an open database goes up to lastVisible_.
LogInv ==
    /\ OneEach(log)
    /\ life = "open" => /\ \A op \in log : op.seq <= lastVisible
                        /\ manifest.maxSequence <= lastVisible
                        /\ disk.maxSequence <= lastVisible

\* The highest sequence below the i-th immutable memtable.
Base(i) == IF i = 1 THEN manifest.maxSequence ELSE immutables[i - 1].maxSeq

\* What the i-th one has: a range of sequences, or after the install of its table what
\* is already in the tables.
Layer(i) ==
    IF i = 1 /\ flushPc = "remove"
    THEN /\ immutables[i].maxSeq = manifest.maxSequence
         /\ \E lo \in Nat : Covers(log, immutables[i].recs, lo, immutables[i].maxSeq)
    ELSE /\ Base(i) < immutables[i].maxSeq
         /\ Covers(log, immutables[i].recs, Base(i), immutables[i].maxSeq)

\* The memtables have the sequences the tables do not have, in order.
MemInv == life = "open" =>
    /\ \A i \in 1..Len(immutables) : Layer(i) /\ immutables[i].maxSeq <= lastVisible
    /\ mutable.maxSeq <= lastVisible
    /\ Covers(log, mutable.recs, Base(Len(immutables) + 1), lastVisible)

\* The tables, on disk and in memory, have the others.
ServesInv ==
    /\ Serves(log, disk.tables, disk.maxSequence)
    /\ life = "open" => Serves(log, manifest.tables, manifest.maxSequence)

\* The flushed table: the records of the memtable, newest in level 0.
FlushInv ==
    flushPc = "install" =>
        /\ flushTable.level = 0
        /\ \A t \in manifest.tables : t.level = 0 => t.fileId < flushTable.fileId
        /\ SameRecs(flushTable.recs, flushMem.recs)

\* The tables of a pass, and the one that will replace them.
CompInv ==
    /\ Rewritable(compTables, manifest.tables \ compTables,
                  compPc \in {"merge", "install"} /\ compDrop)
    /\ compPc = "install" =>
          Rewrites(compNew, Merged(compTables, compDrop), manifest.tables \ compTables)

\* What a collection rewrites is what its tables hold.
CollectInv ==
    /\ gcPc \in {"list", "write", "commit"} => SameRecs(gc.recs, Merged(gc.tables, TRUE))
    /\ gcPc = "commit" => Rewrites(gc.new, gc.recs, {})

Contents == LogInv /\ MemInv /\ ServesInv
JobsInv  == FlushInv /\ CompInv /\ CollectInv
CInv     == Contents /\ JobsInv

-----------------------------------------------------------------------------
(* Reading.                                                                *)

\* The tables answer a key with the newest record that one of them has.
LEMMA TableAnswers ==
    ASSUME NEW ops \in SUBSET Operation, NEW tables \in SUBSET Table, NEW n \in Nat,
           \A t, u \in tables : t.fileId = u.fileId => t = u,
           Serves(ops, tables, n), NEW k \in Keys
    PROVE  \/ \E t \in tables :
                 /\ TableLookup(tables, k) = t.recs[k] /\ t.recs[k].seq # 0
                 /\ Genuine(ops, t.recs[k], k)
                 /\ \A op \in ops : op.key = k /\ op.seq <= n => op.seq <= t.recs[k].seq
           \/ TableLookup(tables, k) = NoRecord /\ Erased(ops, tables, k, n)
<1> DEFINE holding == {t \in tables : t.recs[k].seq # 0}
           First(t) == \A u \in holding \ {t} : NewerTable(t, u)
<1>1. \A t \in tables : t.recs[k].seq \in Nat /\ t.level \in {0, 1} /\ t.fileId \in Nat
  BY TableFields, RecordFields
<1>2. /\ \A t \in tables : Genuine(ops, t.recs[k], k) /\ t.recs[k].seq <= n
      /\ \A t, u \in holding : NewerTable(t, u) => u.recs[k].seq < t.recs[k].seq
      /\ Held(ops, tables, k, n) \/ Erased(ops, tables, k, n)
  BY DEF Serves, Sound, Sorted
<1>3. CASE Erased(ops, tables, k, n)
  <2>1. holding = {}
    BY <1>3 DEF Erased
  <2>2. TableLookup(tables, k) = NoRecord
    BY <2>1 DEF TableLookup
  <2> QED BY <1>3, <2>2
<1>4. CASE Held(ops, tables, k, n)
  <2>1. PICK t \in holding : \A op \in ops : op.key = k /\ op.seq <= n => op.seq <= t.recs[k].seq
    BY <1>4 DEF Held
  <2>2. \A u \in holding : u.recs[k].seq <= t.recs[k].seq
    <3> SUFFICES ASSUME NEW u \in holding PROVE u.recs[k].seq <= t.recs[k].seq
      OBVIOUS
    <3>1. Genuine(ops, u.recs[k], k) /\ u.recs[k].seq <= n /\ u.recs[k].seq # 0
      BY <1>2
    <3>2. PICK op \in ops : op.seq = u.recs[k].seq /\ op.key = k
      BY <3>1 DEF Genuine
    <3> QED BY <2>1, <3>1, <3>2
  <2>3. First(t)
    <3> SUFFICES ASSUME NEW u \in holding \ {t} PROVE NewerTable(t, u)
      OBVIOUS
    <3>1. NewerTable(t, u) \/ NewerTable(u, t)
      BY <1>1 DEF NewerTable
    <3>2. ~NewerTable(u, t)
      BY <1>1, <1>2, <2>2
    <3> QED BY <3>1, <3>2
  <2> DEFINE first == CHOOSE h \in holding : First(h)
  <2>4. first \in holding /\ First(first)
    <3> HIDE DEF holding, First
    <3> QED BY <2>3
  <2>5. TableLookup(tables, k) = first.recs[k]
    BY <2>1 DEF TableLookup
  <2> HIDE DEF first
  <2>6. first = t
    BY <1>1, <1>2, <2>2, <2>4
  <2> QED BY <1>2, <2>1, <2>5, <2>6
<1> QED BY <1>2, <1>3, <1>4

\* A record of the newest operation on k answers what the write left.
LEMMA NewestAnswer ==
    ASSUME TypeInv, OneEach(log), NEW k \in Keys, NEW r \in Record, r.seq # 0,
           Genuine(log, r, k), \A op \in log : op.key = k => op.seq <= r.seq, Resolves(r)
    PROVE  Answer(r) = NewestWrite(k)
<1> DEFINE of_k == {op \in log : op.key = k}
           top == CHOOSE op \in of_k : \A o \in of_k : o.seq <= op.seq
<1>1. PICK op \in log : op.seq = r.seq /\ op.key = k /\ (r.del <=> op.kind = "erase")
  BY DEF Genuine
<1>2. of_k \in SUBSET log /\ of_k # {}
  BY <1>1
<1>3. NewestWrite(k) = IF top.kind = "erase" THEN 0 ELSE top.seq
  BY <1>2 DEF NewestWrite
<1>4. top \in of_k /\ \A o \in of_k : o.seq <= top.seq
  <2> HIDE DEF of_k
  <2> QED BY <1>2, NewestOp
<1> HIDE DEF top
<1>5. top = op
  <2>1. top.seq <= op.seq /\ op.seq <= top.seq
    BY <1>1, <1>4
  <2>2. \A o \in log : o.seq \in Nat
    BY OperationFields DEF TypeInv, TypeOK
  <2>3. top \in log /\ top.seq = op.seq
    BY <1>4, <2>1, <2>2
  <2> QED BY <2>3 DEF OneEach
<1> QED BY <1>1, <1>3, <1>5 DEF Answer

\* No record answers like an erased key.
LEMMA NoAnswer ==
    ASSUME TypeInv, NEW k \in Keys,
           \A op \in log : op.key = k =>
              op.kind = "erase" \/ \E o \in log : o.key = k /\ op.seq < o.seq
    PROVE  Answer(NoRecord) = NewestWrite(k)
<1> DEFINE of_k == {op \in log : op.key = k}
           top == CHOOSE op \in of_k : \A o \in of_k : o.seq <= op.seq
<1>1. Answer(NoRecord) = 0
  BY EmptyTypes DEF Answer
<1>2. CASE of_k = {}
  BY <1>1, <1>2 DEF NewestWrite
<1>3. CASE of_k # {}
  <2>1. of_k \in SUBSET log
    OBVIOUS
  <2>2. NewestWrite(k) = IF top.kind = "erase" THEN 0 ELSE top.seq
    BY <1>3 DEF NewestWrite
  <2>3. top \in of_k /\ \A o \in of_k : o.seq <= top.seq
    <3> HIDE DEF of_k
    <3> QED BY <1>3, <2>1, NewestOp
  <2> HIDE DEF top
  <2>4. \A o \in log : o.seq \in Nat
    BY OperationFields DEF TypeInv, TypeOK
  <2>5. top.kind = "erase"
    BY <2>3, <2>4
  <2> QED BY <1>1, <2>2, <2>5
<1> QED BY <1>2, <1>3

\* What the tables answer when they have all there is of k.
LEMMA TablesAnswer ==
    ASSUME TypeInv, OneEach(log), NEW tables \in SUBSET Table, NEW n \in Nat,
           \A t, u \in tables : t.fileId = u.fileId => t = u, \A t \in tables : Exists(t),
           Serves(log, tables, n), NEW k \in Keys, \A op \in log : op.key = k => op.seq <= n
    PROVE  Answer(TableLookup(tables, k)) = NewestWrite(k)
<1>1. log \in SUBSET Operation
  BY DEF TypeInv, TypeOK
<1>2. ASSUME NEW t \in tables, TableLookup(tables, k) = t.recs[k], t.recs[k].seq # 0,
             Genuine(log, t.recs[k], k),
             \A op \in log : op.key = k /\ op.seq <= n => op.seq <= t.recs[k].seq
      PROVE  Answer(TableLookup(tables, k)) = NewestWrite(k)
  <2>1. t.recs[k] \in Record
    BY TableFields
  <2>2. Resolves(t.recs[k])
    BY DEF Exists
  <2>3. \A op \in log : op.key = k => op.seq <= t.recs[k].seq
    BY <1>2
  <2> QED BY <1>2, <2>1, <2>2, <2>3, NewestAnswer
<1>3. CASE TableLookup(tables, k) = NoRecord /\ Erased(log, tables, k, n)
  <2>1. \A op \in log : op.key = k =>
           op.kind = "erase" \/ \E o \in log : o.key = k /\ op.seq < o.seq
    BY <1>3 DEF Erased
  <2> QED BY <1>3, <2>1, NoAnswer
<1>4. \/ \E t \in tables :
            /\ TableLookup(tables, k) = t.recs[k] /\ t.recs[k].seq # 0
            /\ Genuine(log, t.recs[k], k)
            /\ \A op \in log : op.key = k /\ op.seq <= n => op.seq <= t.recs[k].seq
      \/ TableLookup(tables, k) = NoRecord /\ Erased(log, tables, k, n)
  BY <1>1, TableAnswers
<1> QED BY <1>2, <1>3, <1>4

\* The memtables and the sequences between them.
LEMMA Positions ==
    ASSUME TypeInv
    PROVE  /\ Len(immutables) \in Nat /\ immutables \in Seq(MemTable)
           /\ DOMAIN immutables = 1..Len(immutables)
           /\ \A i \in 1..Len(immutables) :
                 /\ immutables[i] \in MemTable /\ immutables[i].maxSeq \in Nat
                 /\ immutables[i].recs \in [Keys -> Record] /\ MemRecsOK(immutables[i].recs)
           /\ mutable.maxSeq \in Nat /\ mutable.recs \in [Keys -> Record] /\ MemRecsOK(mutable.recs)
           /\ manifest.maxSequence \in Nat /\ disk.maxSequence \in Nat /\ lastVisible \in Nat
           /\ \A i \in 1..(Len(immutables) + 1) : Base(i) \in Nat
           /\ log \in SUBSET Operation /\ \A op \in log : op.seq \in Nat
<1> DEFINE n == Len(immutables)
<1>1. /\ n \in Nat /\ immutables \in Seq(MemTable) /\ DOMAIN immutables = 1..n
      /\ \A i \in 1..n : immutables[i] \in MemTable
  BY DEF TypeInv, TypeOK
<1>2. /\ \A i \in 1..n : /\ immutables[i].maxSeq \in Nat /\ immutables[i].recs \in [Keys -> Record]
                         /\ MemRecsOK(immutables[i].recs)
      /\ mutable.maxSeq \in Nat /\ mutable.recs \in [Keys -> Record] /\ MemRecsOK(mutable.recs)
  BY <1>1, MemFields DEF TypeInv, TypeOK, RecsInv
<1>3. manifest.maxSequence \in Nat /\ disk.maxSequence \in Nat /\ lastVisible \in Nat
  BY ManifestFields DEF TypeInv, TypeOK
<1>4. \A i \in 1..(n + 1) : Base(i) \in Nat
  BY <1>1, <1>2, <1>3 DEF Base
<1>5. log \in SUBSET Operation /\ \A op \in log : op.seq \in Nat
  BY OperationFields DEF TypeInv, TypeOK
<1> QED BY <1>1, <1>2, <1>3, <1>4, <1>5

\* Memtables with nothing of k, from the i-th on, have no operation on k below them.
LEMMA NothingAbove ==
    ASSUME TypeInv, MemInv, life = "open", NEW k \in Keys, NEW i \in 1..(Len(immutables) + 1),
           \A j \in i..Len(immutables) : immutables[j].recs[k].seq = 0,
           NEW op \in log, op.key = k, op.seq <= Base(Len(immutables) + 1)
    PROVE  op.seq <= Base(i)
<1> DEFINE n == Len(immutables)
           S == {j \in i..n : op.seq <= immutables[j].maxSeq}
<1>1. n \in Nat /\ op.seq \in Nat
  BY Positions
<1>2. \A j \in 1..n : immutables[j].maxSeq \in Nat
  BY Positions
<1>3. manifest.maxSequence \in Nat
  BY Positions
<1>4. \A j \in 1..(n + 1) : Base(j) \in Nat
  BY Positions
<1> SUFFICES ASSUME op.seq > Base(i) PROVE FALSE
  BY <1>1, <1>4
<1>5. i <= n
  BY <1>1, <1>4
<1>6. n \in S
  BY <1>1, <1>5 DEF Base
<1>7. PICK j \in S : \A h \in S : j <= h
  <2>1. S \in SUBSET Nat
    BY <1>1
  <2> HIDE DEF S
  <2> QED BY <1>6, <2>1, LeastNatural
<1>8. Base(j) < op.seq
  <2>1. CASE j = i
    BY <2>1
  <2>2. CASE j # i
    <3>1. j - 1 \in i..n /\ j - 1 \notin S /\ j # 1
      BY <1>1, <1>7, <2>2
    <3>2. immutables[j - 1].maxSeq < op.seq
      BY <1>1, <1>2, <3>1
    <3> QED BY <3>1, <3>2 DEF Base
  <2> QED BY <2>1, <2>2
<1>9. j \in 1..n /\ Layer(j) /\ op.seq <= immutables[j].maxSeq /\ immutables[j].recs[k].seq = 0
  BY <1>1, <1>7 DEF MemInv
<1>10. CASE j = 1 /\ flushPc = "remove"
  BY <1>1, <1>3, <1>8, <1>9, <1>10 DEF Layer, Base
<1>11. CASE ~(j = 1 /\ flushPc = "remove")
  <2>1. Covers(log, immutables[j].recs, Base(j), immutables[j].maxSeq)
    BY <1>9, <1>11 DEF Layer
  <2>2. op.seq <= 0
    BY <1>8, <1>9, <2>1 DEF Covers
  <2> QED BY <1>1, <1>4, <1>8, <1>9, <2>2
<1> QED BY <1>10, <1>11

\* A record in memory, newest of a range of sequences with nothing above it, answers.
LEMMA MemAnswer ==
    ASSUME TypeInv, OneEach(log), NEW recs \in [Keys -> Record], MemRecsOK(recs), NEW lo \in Nat,
           NEW hi \in Nat, Covers(log, recs, lo, hi), NEW k \in Keys, recs[k].seq # 0,
           \A op \in log : op.key = k => op.seq <= hi
    PROVE  Answer(recs[k]) = NewestWrite(k)
<1>1. recs[k] \in Record /\ recs[k].seq \in Nat
  BY RecordFields
<1>2. Resolves(recs[k])
  BY DEF Resolves, MemRecsOK
<1>3. /\ Genuine(log, recs[k], k) /\ lo < recs[k].seq
      /\ \A op \in log : op.key = k /\ lo < op.seq /\ op.seq <= hi => op.seq <= recs[k].seq
  BY DEF Covers
<1>4. \A op \in log : op.seq \in Nat
  BY OperationFields DEF TypeInv, TypeOK
<1>5. \A op \in log : op.key = k => op.seq <= recs[k].seq
  BY <1>1, <1>3, <1>4
<1> QED BY <1>1, <1>2, <1>3, <1>5, NewestAnswer

\* A reader of an open database finds what the newest write of its key left.
LEMMA LookupAnswers ==
    ASSUME TypeInv, IdsInv, FilesInv, CInv, life = "open", NEW k \in Keys
    PROVE  Answer(Lookup(k)) = NewestWrite(k)
<1> DEFINE n == Len(immutables)
           holding == {i \in DOMAIN immutables : immutables[i].recs[k].seq # 0}
<1>1. n \in Nat /\ DOMAIN immutables = 1..n
  BY Positions
<1>2. /\ \A i \in 1..n : /\ immutables[i].maxSeq \in Nat /\ immutables[i].recs \in [Keys -> Record]
                         /\ MemRecsOK(immutables[i].recs)
      /\ mutable.recs \in [Keys -> Record] /\ MemRecsOK(mutable.recs)
  BY Positions
<1>3. manifest.maxSequence \in Nat /\ lastVisible \in Nat /\ manifest.tables \in SUBSET Table
  BY Positions, ManifestFields DEF TypeInv, TypeOK
<1>4. \A i \in 1..(n + 1) : Base(i) \in Nat
  BY Positions
<1>5. OneEach(log) /\ \A op \in log : op.seq <= lastVisible
  BY DEF CInv, Contents, LogInv
<1>6. /\ \A i \in 1..n : Layer(i)
      /\ Covers(log, mutable.recs, Base(n + 1), lastVisible)
  BY DEF CInv, Contents, MemInv
<1>7. \A op \in log : op.seq \in Nat
  BY OperationFields DEF TypeInv, TypeOK
<1>8. CASE mutable.recs[k].seq # 0
  <2>1. Answer(mutable.recs[k]) = NewestWrite(k)
    <3>1. n + 1 \in 1..(n + 1)
      BY <1>1
    <3> QED BY <1>2, <1>3, <1>4, <1>5, <1>6, <1>8, <3>1, MemAnswer
  <2> QED BY <1>8, <2>1 DEF Lookup
<1>9. CASE mutable.recs[k].seq = 0
  <2>1. \A op \in log : op.key = k => op.seq <= Base(n + 1)
    <3> SUFFICES ASSUME NEW op \in log, op.key = k, Base(n + 1) < op.seq PROVE FALSE
      BY <1>1, <1>4, <1>7
    <3>1. op.seq <= 0
      BY <1>5, <1>6, <1>9 DEF Covers
    <3> QED BY <1>1, <1>4, <1>7, <3>1
  <2>2. CASE holding # {}
    <3> DEFINE j == Max(holding)
    <3>1. j \in holding /\ \A i \in holding : j >= i
      BY <1>1, <2>2, MaxPosition
    <3>2. Lookup(k) = immutables[j].recs[k]
      BY <1>9, <2>2 DEF Lookup
    <3> HIDE DEF j
    <3>3. j \in 1..n /\ immutables[j].recs[k].seq # 0
      BY <1>1, <3>1
    <3>4. \A i \in (j + 1)..n : immutables[i].recs[k].seq = 0
      BY <1>1, <3>1, <3>3
    <3>5. \A op \in log : op.key = k => op.seq <= Base(j + 1)
      <4>1. j + 1 \in 1..(n + 1) /\ MemInv
        BY <1>1, <3>3 DEF CInv, Contents
      <4> QED BY <2>1, <3>4, <4>1, NothingAbove
    <3>6. Base(j + 1) = immutables[j].maxSeq
      BY <3>3 DEF Base
    <3>7. \E lo \in Nat : Covers(log, immutables[j].recs, lo, immutables[j].maxSeq)
      <4>1. CASE j = 1 /\ flushPc = "remove"
        BY <1>6, <3>3, <4>1 DEF Layer
      <4>2. CASE ~(j = 1 /\ flushPc = "remove")
        <5>1. Covers(log, immutables[j].recs, Base(j), immutables[j].maxSeq)
          BY <1>6, <3>3, <4>2 DEF Layer
        <5>2. j \in 1..(n + 1)
          BY <1>1, <3>3
        <5> QED BY <1>4, <5>1, <5>2
      <4> QED BY <4>1, <4>2
    <3>8. Answer(immutables[j].recs[k]) = NewestWrite(k)
      BY <1>2, <1>5, <3>3, <3>5, <3>6, <3>7, MemAnswer
    <3> QED BY <3>2, <3>8
  <2>3. CASE holding = {}
    <3>1. Lookup(k) = TableLookup(manifest.tables, k)
      BY <1>9, <2>3 DEF Lookup
    <3>2. \A i \in 1..n : immutables[i].recs[k].seq = 0
      BY <1>1, <2>3
    <3>3. \A op \in log : op.key = k => op.seq <= Base(1)
      <4>1. 1 \in 1..(n + 1) /\ MemInv
        BY <1>1 DEF CInv, Contents
      <4> QED BY <2>1, <3>2, <4>1, NothingAbove
    <3>4. Base(1) = manifest.maxSequence
      BY DEF Base
    <3>5. /\ \A t, u \in manifest.tables : t.fileId = u.fileId => t = u
          /\ \A t \in manifest.tables : Exists(t)
          /\ Serves(log, manifest.tables, manifest.maxSequence)
      BY DEF IdsInv, IdsOK, Live, FilesInv, CInv, Contents, ServesInv
    <3>6. Answer(TableLookup(manifest.tables, k)) = NewestWrite(k)
      BY <1>3, <1>5, <3>3, <3>4, <3>5, TablesAnswer
    <3> QED BY <3>1, <3>6
  <2> QED BY <2>2, <2>3
<1> QED BY <1>2, <1>8, <1>9, RecordFields

\* What the journal and the tables on disk would answer if the process died now.
LEMMA RecoveredAnswers ==
    ASSUME TypeInv, IdsInv, FilesInv, CInv, NEW k \in Keys
    PROVE  Recovered(k) = NewestWrite(k)
<1>1. CASE \E op \in Replayed : op.key = k
  BY <1>1 DEF Recovered
<1>2. CASE ~\E op \in Replayed : op.key = k
  <2>1. disk.tables \in SUBSET Table /\ disk.maxSequence \in Nat /\ OneEach(log)
    BY ManifestFields DEF TypeInv, TypeOK, CInv, Contents, LogInv
  <2>2. \A op \in log : op.seq \in Nat
    BY OperationFields DEF TypeInv, TypeOK
  <2>3. \A op \in log : op.key = k => op.seq <= disk.maxSequence
    BY <1>2, <2>1, <2>2 DEF Replayed
  <2>4. /\ \A t, u \in disk.tables : t.fileId = u.fileId => t = u
        /\ \A t \in disk.tables : Exists(t)
        /\ Serves(log, disk.tables, disk.maxSequence)
    BY DEF IdsInv, IdsOK, FilesInv, CInv, Contents, ServesInv
  <2>5. Answer(TableLookup(disk.tables, k)) = NewestWrite(k)
    BY <2>1, <2>3, <2>4, TablesAnswer
  <2> QED BY <1>2, <2>5 DEF Recovered
<1> QED BY <1>1, <1>2

-----------------------------------------------------------------------------
(* What steps that do not touch contents keep.                             *)

\* The manifest has the tables it had.
SameTables == /\ manifest'.tables = manifest.tables
              /\ manifest'.maxSequence = manifest.maxSequence

\* Journal, memtables and tables stay.
LEMMA ContentsSame ==
    ASSUME LogInv, MemInv, ServesInv, SameTables, disk' = disk,
           UNCHANGED <<mutable, immutables, log, lastVisible, life>>,
           flushPc' = "remove" <=> flushPc = "remove"
    PROVE  LogInv' /\ MemInv' /\ ServesInv'
<1>1. LogInv'
  BY DEF LogInv, SameTables
<1>2. MemInv'
  BY DEF MemInv, Layer, Base, SameTables
<1>3. ServesInv'
  BY DEF ServesInv, SameTables
<1> QED BY <1>1, <1>2, <1>3

\* The flush waits while others replace tables by tables of level 1.
LEMMA FlushSame ==
    ASSUME FlushInv, UNCHANGED <<flushPc, flushMem, flushTable>>,
           \A t \in manifest'.tables : t.level = 0 => t \in manifest.tables
    PROVE  FlushInv'
  BY DEF FlushInv

\* The compaction waits while the tables stay.
LEMMA CompSame ==
    ASSUME CompInv, UNCHANGED <<compPc, compTables, compDrop, compNew>>,
           manifest'.tables = manifest.tables
    PROVE  CompInv'
  BY DEF CompInv

\* No pass, nothing to know.
LEMMA CompOver ==
    ASSUME compTables' = {}, compPc' \notin {"merge", "install"}
    PROVE  CompInv'
<1>1. /\ compTables' = {} /\ compPc' # "merge" /\ compPc' # "install"
  OBVIOUS
<1> QED BY <1>1 DEF CompInv, Rewritable

\* The collector waits.
LEMMA CollectSame ==
    ASSUME CollectInv, gc' = gc, gcPc' \in {"list", "write", "commit"} => gcPc' = gcPc
    PROVE  CollectInv'
  BY DEF CollectInv

\* Scheduling a collection is nothing to it.
LEMMA GcScheduled ==
    ASSUME ScheduleGc
    PROVE  gcPc' \in {"list", "write", "commit"} => gcPc' = gcPc
  BY DEF ScheduleGc

\* The tables a pass is given can be rewritten beside those it leaves.
LEMMA MergeSetRewritable ==
    ASSUME NEW tables \in SUBSET Table
    PROVE  Rewritable(MergeSet(tables), tables \ MergeSet(tables), FALSE)
<1> SUFFICES ASSUME NEW t \in MergeSet(tables), NEW u \in tables \ MergeSet(tables)
             PROVE  u.level # 0 /\ t.level = 0
  BY DEF Rewritable
<1> QED BY MergeSetEffect

\* Steps of writers, and of deletions, that touch no contents.
LEMMA QuietContents ==
    ASSUME CInv,
           \/ \E w \in Writers, k \in Keys, kind \in Kinds : BeginWrite(w, k, kind)
           \/ TailStep
           \/ UNCHANGED vars
    PROVE  Contents'
<1>1. /\ manifest' = manifest /\ disk' = disk
      /\ UNCHANGED <<mutable, immutables, log, lastVisible, life, flushPc, flushMem, flushTable,
                     compPc, compTables, compDrop, compNew, gcPc, gc>>
  <2>1. ASSUME NEW w \in Writers, NEW k \in Keys, NEW kind \in Kinds, BeginWrite(w, k, kind)
        PROVE  <1>1!:
    BY <2>1 DEF BeginWrite
  <2>2. ASSUME NEW job \in tails, DeleteFiles(job)
        PROVE  <1>1!:
    BY <2>2 DEF DeleteFiles
  <2>3. CASE UNCHANGED vars
    BY <2>3 DEF vars
  <2> QED BY <2>1, <2>2, <2>3 DEF TailStep
<1>2. LogInv' /\ MemInv' /\ ServesInv'
  BY <1>1, ContentsSame DEF CInv, Contents, SameTables
<1> QED BY <1>2 DEF Contents

-----------------------------------------------------------------------------
(* What the jobs have in hand.                                             *)

\* Taking ids, reading and giving up leave the manifest its tables.
LEMMA TablesStay ==
    ASSUME TypeInv,
           \/ FlushPick \/ FlushWrite \/ FlushFails \/ FlushRemove
           \/ CompStart \/ CompMerge \/ CompFails
           \/ GcStart \/ GcList \/ GcWrite \/ GcFails
    PROVE  SameTables
<1>1. manifest \in Manifest /\ manifest.nextTableId \in Nat /\ BlobTypes
  BY ManifestFields DEF TypeInv, TypeOK, BlobTypes
<1>2. ASSUME NEW recs \in [Keys -> Record], NEW left,
             WriteTable(recs) \/ WriteTableFails(recs, left)
      PROVE  SameTables
  <2>1. PICK n \in Nat : IdsTaken(n)
    BY <1>1, <1>2, WriteEffect, WriteFailsEffect
  <2> QED BY <1>1, <2>1 DEF IdsTaken, Manifest, SameTables
<1>3. ASSUME manifest' = [manifest EXCEPT !.nextTableId = @ + 1] PROVE SameTables
  BY <1>1, <1>3 DEF Manifest, SameTables
<1>4. ASSUME manifest' = manifest PROVE SameTables
  BY <1>4 DEF SameTables
<1>5. gc.recs \in [Keys -> Record]
  BY GcRecsFields
<1>6. CASE FlushPick \/ FlushRemove
  <2>1. manifest' = manifest
    BY <1>6 DEF FlushPick, FlushRemove
  <2> QED BY <1>4, <2>1
<1>7. CASE FlushWrite \/ FlushFails
  <2>1. \/ flushPc = "write" /\ WriteTable(flushMem.recs)
        \/ flushPc = "write" /\ WriteTableFails(flushMem.recs, {manifest.nextTableId})
        \/ manifest' = manifest
    BY <1>7 DEF FlushWrite, FlushFails, PersistFails
  <2>2. flushPc = "write" => flushMem.recs \in [Keys -> Record]
    BY FlushMemOK
  <2> QED BY <1>2, <1>4, <2>1, <2>2
<1>8. CASE CompStart \/ CompMerge \/ CompFails
  <2>1. manifest' = manifest \/ manifest' = [manifest EXCEPT !.nextTableId = @ + 1]
    BY <1>8 DEF CompStart, CompMerge, CompFails, PersistFails
  <2> QED BY <1>3, <1>4, <2>1
<1>9. CASE GcStart \/ GcList \/ GcWrite \/ GcFails
  <2>1. \/ WriteTable(gc.recs) \/ WriteTableFails(gc.recs, {})
        \/ manifest' = manifest
    BY <1>9 DEF GcStart, GcList, GcWrite, GcFails, PersistFails
  <2> QED BY <1>2, <1>4, <1>5, <2>1
<1> QED BY <1>6, <1>7, <1>8, <1>9

\* The manifest that a flush is about to install.
LEMMA FlushedTables ==
    ASSUME TypeInv, flushPc = "install"
    PROVE  LET m == WithTable(flushMem, flushTable) IN
           /\ m \in Manifest /\ m.tables = manifest.tables \cup {flushTable}
           /\ m.maxSequence = Max({manifest.maxSequence, flushMem.maxSeq})
           /\ life = "open" /\ immutables # <<>> /\ flushMem = Head(immutables)
           /\ flushMem \in MemTable /\ flushTable \in Table
<1>1. manifest \in Manifest /\ flushTable \in Table /\ flushMem \in MemTable
  BY DEF TypeInv, TypeOK
<1>2. life = "open" /\ immutables # <<>> /\ flushMem = Head(immutables)
  BY DEF TypeInv, PhaseInv
<1> QED BY <1>1, <1>2, WithTableFields

\* The tables of a waiting pass are older than the one a flush installs.
LEMMA FlushSchedules ==
    ASSUME TypeInv, FlushInv, CompInv, FlushInstall,
           manifest'.tables = manifest.tables \cup {flushTable}
    PROVE  CompInv'
<1> DEFINE tables == manifest.tables \cup {flushTable}
<1>1. /\ flushPc = "install" /\ UNCHANGED <<compDrop, compNew>>
      /\ ScheduleCompaction(compPc # "idle" \/ life = "closing", WithTable(flushMem, flushTable).tables)
  BY DEF FlushInstall
<1>2. WithTable(flushMem, flushTable).tables = tables
  BY <1>1, FlushedTables
<1>3. tables \in SUBSET Table /\ flushTable \in Table /\ compTables \in SUBSET Table
  BY ManifestFields DEF TypeInv, TypeOK
<1>4. /\ flushTable.level = 0
      /\ \A t \in manifest.tables : t.level = 0 => t.fileId < flushTable.fileId
  BY <1>1 DEF FlushInv
<1>5. CASE compPc' = compPc /\ compTables' = compTables
  <2> DEFINE drop == compPc \in {"merge", "install"} /\ compDrop
             others == manifest.tables \ compTables
  <2>1. /\ Rewritable(compTables, others, drop)
        /\ compPc = "install" => Rewrites(compNew, Merged(compTables, compDrop), others)
    BY DEF CompInv
  <2>2. compTables \subseteq manifest.tables
    BY DEF TypeInv, PhaseInv
  <2>3. \A t \in compTables : NewerTable(flushTable, t)
    <3> SUFFICES ASSUME NEW t \in compTables PROVE NewerTable(flushTable, t)
      OBVIOUS
    <3>1. t \in manifest.tables /\ t.level \in {0, 1} /\ t.fileId \in Nat /\ flushTable.fileId \in Nat
      BY <1>3, <2>2, TableFields
    <3> QED BY <1>4, <3>1 DEF NewerTable
  <2>4. \A u \in tables \ compTables : u \in others \/ u = flushTable
    OBVIOUS
  <2>5. Rewritable(compTables, tables \ compTables, drop)
    <3> HIDE DEF tables, drop, others
    <3> QED BY <1>4, <2>1, <2>3, <2>4 DEF Rewritable
  <2>6. compPc = "install" => Rewrites(compNew, Merged(compTables, compDrop), tables \ compTables)
    <3> HIDE DEF tables, others
    <3> QED BY <1>4, <2>1, <2>4 DEF Rewrites
  <2> QED BY <1>1, <1>5, <2>5, <2>6 DEF CompInv
<1>6. CASE compPc' = "queued" /\ compTables' = MergeSet(tables)
  <2>1. Rewritable(MergeSet(tables), tables \ MergeSet(tables), FALSE)
    BY <1>3, MergeSetRewritable
  <2>2. ~(compPc' \in {"merge", "install"} /\ compDrop') /\ compPc' # "install"
    BY <1>6
  <2> QED BY <1>6, <2>1, <2>2 DEF CompInv
<1> HIDE DEF tables
<1>7. ScheduleCompaction(compPc # "idle" \/ life = "closing", tables)
  BY <1>1, <1>2
<1> QED BY <1>3, <1>5, <1>6, <1>7, ScheduleEffect

\* Steps that leave the jobs and the tables alone.
LEMMA JobsSame ==
    ASSUME JobsInv, manifest'.tables = manifest.tables,
           UNCHANGED <<flushPc, flushMem, flushTable, compPc, compTables, compDrop, compNew, gcPc, gc>>
    PROVE  JobsInv'
<1>1. FlushInv'
  BY FlushSame DEF JobsInv
<1>2. CompInv'
  BY CompSame DEF JobsInv
<1>3. CollectInv'
  BY CollectSame DEF JobsInv
<1> QED BY <1>1, <1>2, <1>3 DEF JobsInv

\* A flush: its table has the records of the memtable, and is the newest one.
LEMMA FlushJobs ==
    ASSUME TypeInv, IdsInv, JobsInv, FlushStep
    PROVE  JobsInv'
<1>1. FlushInv'
  <2>1. CASE FlushWrite
    <3>1. /\ flushPc = "write" /\ flushPc' = "install" /\ flushMem' = flushMem
          /\ flushTable' = TableOf(0, flushMem.recs)
      BY <2>1 DEF FlushWrite
    <3>2. manifest \in Manifest /\ flushMem.recs \in [Keys -> Record]
      BY <3>1, FlushMemOK DEF TypeInv, TypeOK
    <3>3. /\ flushTable'.level = 0 /\ flushTable'.fileId = manifest.nextTableId
          /\ SameRecs(flushTable'.recs, flushMem.recs)
      BY <3>1, <3>2, TableOfFields DEF SameRecs
    <3>4. \A t \in manifest.tables : t.fileId < manifest.nextTableId
      BY DEF IdsInv, IdsOK, Live
    <3> QED BY <2>1, <3>1, <3>3, <3>4, TablesStay DEF FlushInv, SameTables
  <2>2. CASE ~FlushWrite
    <3>1. flushPc' # "install"
      BY <2>2 DEF FlushStep, FlushPick, FlushInstall, FlushFails, FlushRemove
    <3> QED BY <3>1 DEF FlushInv
  <2> QED BY <2>1, <2>2
<1>2. CompInv'
  <2>1. CASE FlushInstall
    <3>1. flushPc = "install" /\ Persist(WithTable(flushMem, flushTable))
      BY <2>1 DEF FlushInstall
    <3>2. manifest'.tables = manifest.tables \cup {flushTable}
      BY <3>1, FlushedTables, PersistEffect, PersistedFields
    <3> QED BY <2>1, <3>2, FlushSchedules DEF JobsInv
  <2>2. CASE FlushPick \/ FlushWrite \/ FlushFails \/ FlushRemove
    <3>1. UNCHANGED <<compPc, compTables, compDrop, compNew>>
      BY <2>2 DEF FlushPick, FlushWrite, FlushFails, FlushRemove
    <3> QED BY <2>2, <3>1, TablesStay, CompSame DEF JobsInv, SameTables
  <2> QED BY <2>1, <2>2 DEF FlushStep
<1>3. CollectInv'
  <2>1. gc' = gc /\ (gcPc' = gcPc \/ ScheduleGc)
    BY DEF FlushStep, FlushPick, FlushWrite, FlushInstall, FlushFails, FlushRemove
  <2> QED BY <2>1, CollectSame, GcScheduled DEF JobsInv
<1> QED BY <1>1, <1>2, <1>3 DEF JobsInv

\* A pass has the records of the tables it was given.
LEMMA CompactedIsMerged == CompactedRecs = Merged(compTables, compDrop)
  BY DEF CompactedRecs, Merged

\* A pass of the compaction.  It may drop tombstones only when it has all of level 1;
\* the table it writes is newer than those of level 1.
LEMMA CompJobs ==
    ASSUME TypeInv, IdsInv, JobsInv, CompStep
    PROVE  JobsInv'
<1>1. life # "closing"
  BY DEF TypeInv, PhaseInv
<1>2. CASE CompStart
  <2>1. /\ compPc' = "merge" /\ compDrop' = DropsTombstones(compTables)
        /\ compTables' = compTables \cap manifest.tables /\ manifest' = manifest
        /\ UNCHANGED <<flushPc, flushMem, flushTable, gcPc, gc>>
    BY <1>1, <1>2 DEF CompStart
  <2>2. compTables' = compTables
    BY <2>1 DEF TypeInv, PhaseInv
  <2>3. compDrop' => \A u \in manifest.tables \ compTables : u.level = 0
    <3>1. \A u \in manifest.tables : u.level \in {0, 1}
      BY ManifestFields, TableFields DEF TypeInv, TypeOK
    <3> QED BY <2>1, <3>1 DEF DropsTombstones
  <2>4. \A t \in compTables : \A u \in manifest.tables \ compTables :
           IF u.level = 0 THEN NewerTable(u, t) ELSE t.level = 0
    BY DEF JobsInv, CompInv, Rewritable
  <2>5. Rewritable(compTables, manifest.tables \ compTables,
                   compPc' \in {"merge", "install"} /\ compDrop')
    BY <2>3, <2>4 DEF Rewritable
  <2>6. CompInv'
    BY <2>1, <2>2, <2>5 DEF CompInv
  <2>7. FlushInv' /\ CollectInv'
    BY <2>1, FlushSame, CollectSame DEF JobsInv
  <2> QED BY <2>6, <2>7 DEF JobsInv
<1>3. CASE CompMerge
  <2>1. /\ compPc = "merge" /\ compPc' = "install"
        /\ \/ CompactedRecs = NoRecords /\ compNew' = {}
           \/ compNew' = {[level |-> MergedLevel(compTables), fileId |-> manifest.nextTableId,
                           recs |-> CompactedRecs]}
        /\ UNCHANGED <<compTables, compDrop, flushPc, flushMem, flushTable, gcPc, gc>>
    BY <1>1, <1>3 DEF CompMerge
  <2>2. SameTables
    BY <1>3, TablesStay
  <2> DEFINE others == manifest.tables \ compTables
             R == Merged(compTables, compDrop)
  <2>3. Rewritable(compTables, others, compPc' \in {"merge", "install"} /\ compDrop')
    BY <2>1 DEF JobsInv, CompInv
  <2>4. Rewrites(compNew', R, others)
    <3>1. ASSUME CompactedRecs = NoRecords, compNew' = {}
          PROVE  Rewrites(compNew', R, others)
      <4>1. \A k \in Keys : R[k].seq = 0
        BY <3>1, CompactedIsMerged, EmptyTypes
      <4> QED BY <3>1, <4>1 DEF Rewrites
    <3>2. ASSUME compNew' = {[level |-> MergedLevel(compTables), fileId |-> manifest.nextTableId,
                              recs |-> CompactedRecs]}
          PROVE  Rewrites(compNew', R, others)
      <4> DEFINE t == [level |-> MergedLevel(compTables), fileId |-> manifest.nextTableId,
                       recs |-> CompactedRecs]
      <4>1. t.level = 1 /\ t.fileId = manifest.nextTableId /\ t.recs = R
        BY CompactedIsMerged DEF MergedLevel
      <4>2. \A u \in others : u.fileId < manifest.nextTableId
        BY DEF IdsInv, IdsOK, Live
      <4> HIDE DEF t
      <4>3. SameRecs(t.recs, R)
        BY <4>1 DEF SameRecs
      <4>4. compNew' = {t}
        BY <3>2 DEF t
      <4> QED BY <4>1, <4>2, <4>3, <4>4 DEF Rewrites
    <3> QED BY <2>1, <3>1, <3>2
  <2>5. CompInv'
    BY <2>1, <2>2, <2>3, <2>4 DEF CompInv, SameTables
  <2>6. FlushInv' /\ CollectInv'
    BY <2>1, <2>2, FlushSame, CollectSame DEF JobsInv, SameTables
  <2> QED BY <2>5, <2>6 DEF JobsInv
<1>4. CASE CompInstall
  <2>1. /\ compPc = "install" /\ Persist(Compacted) /\ ScheduleGc
        /\ compTables' = MergeSet(Compacted.tables) /\ compPc' \in {"idle", "queued"}
        /\ UNCHANGED <<flushPc, flushMem, flushTable, gc>>
    BY <1>1, <1>4 DEF CompInstall
  <2>2. /\ manifest \in Manifest /\ compNew \subseteq Table
        /\ Compacted \in Manifest /\ Compacted.tables = (manifest.tables \ compTables) \cup compNew
    BY ReplacedFields DEF TypeInv, TypeOK
  <2>3. manifest'.tables = Compacted.tables
    BY <2>1, <2>2, PersistEffect, PersistedFields
  <2>4. FlushInv'
    <3>1. \A t \in compNew : t.level = 1
      BY <2>1 DEF JobsInv, CompInv, Rewrites
    <3>2. \A t \in manifest'.tables : t.level = 0 => t \in manifest.tables
      BY <2>2, <2>3, <3>1
    <3> QED BY <2>1, <3>2, FlushSame DEF JobsInv
  <2>5. CompInv'
    <3> DEFINE tables == Compacted.tables
    <3>1. Rewritable(MergeSet(tables), tables \ MergeSet(tables), FALSE)
      BY <2>2, ManifestFields, MergeSetRewritable
    <3>2. ~(compPc' \in {"merge", "install"} /\ compDrop') /\ compPc' # "install"
      BY <2>1
    <3> HIDE DEF tables
    <3>3. compTables' = MergeSet(tables) /\ manifest'.tables = tables
      BY <2>1, <2>3 DEF tables
    <3> QED BY <3>1, <3>2, <3>3 DEF CompInv
  <2>6. CollectInv'
    BY <2>1, CollectSame, GcScheduled DEF JobsInv
  <2> QED BY <2>4, <2>5, <2>6 DEF JobsInv
<1>5. CASE CompFails
  <2>1. /\ compPc' = "idle" /\ compTables' = {}
        /\ UNCHANGED <<flushPc, flushMem, flushTable, gcPc, gc>>
    BY <1>5 DEF CompFails, CompEnds
  <2>2. FlushInv' /\ CollectInv'
    BY <1>5, <2>1, TablesStay, FlushSame, CollectSame DEF JobsInv, SameTables
  <2> QED BY <2>1, <2>2, CompOver DEF JobsInv
<1> QED BY <1>2, <1>3, <1>4, <1>5 DEF CompStep

\* The records of a collection are those of its tables.
LEMMA LiveIsMerged ==
    ASSUME NEW tables
    PROVE  LiveRecs(tables) = Merged(tables, TRUE)
  BY DEF LiveRecs, Merged

\* What a blob collection has read and written.
LEMMA CollectJobs ==
    ASSUME TypeInv, CollectInv, GcStep
    PROVE  CollectInv'
<1>1. CASE gcPc' = "idle"
  BY <1>1 DEF CollectInv
<1>2. CASE GcStart /\ gcPc' # "idle"
  <2>1. /\ gcPc' = "list"
        /\ gc' = [NoGc EXCEPT !.tables = manifest.tables, !.recs = LiveRecs(manifest.tables),
                              !.seq = lastVisible, !.manifestId = manifest.manifestId]
    BY <1>2, GcStartEffect
  <2>2. gc'.tables = manifest.tables /\ gc'.recs = LiveRecs(manifest.tables)
    BY <2>1 DEF NoGc
  <2>3. SameRecs(gc'.recs, Merged(gc'.tables, TRUE))
    BY <2>2, LiveIsMerged DEF SameRecs
  <2> QED BY <2>1, <2>3 DEF CollectInv
<1>3. CASE GcList /\ gcPc' # "idle"
  <2> DEFINE new == [k \in Keys |-> [gc.recs[k] EXCEPT !.blob = 0]]
  <2>1. /\ gcPc = "list" /\ gcPc' = "write"
        /\ gc' = [gc EXCEPT !.listed = {b.id : b \in blobFiles}, !.recs = new]
    BY <1>3 DEF GcList, GcEnds
  <2>2. gc \in Collection /\ gc.recs \in [Keys -> Record] /\ RecsOK(gc.recs)
    BY GcRecsFields
  <2>3. \A k \in Keys : /\ new[k].seq = gc.recs[k].seq
                        /\ new[k].del = gc.recs[k].del /\ new[k].big = gc.recs[k].big
    <3>1. new = [k \in Keys |-> [gc.recs[k] EXCEPT !.blob = 0]]
      OBVIOUS
    <3> HIDE DEF new
    <3> QED BY <2>2, <3>1, InlinedOK
  <2> HIDE DEF new
  <2>4. gc'.tables = gc.tables /\ gc'.recs = new
    BY <2>1, <2>2 DEF Collection
  <2>5. SameRecs(gc.recs, Merged(gc.tables, TRUE))
    BY <2>1 DEF CollectInv
  <2>6. SameRecs(gc'.recs, Merged(gc'.tables, TRUE))
    BY <2>3, <2>4, <2>5 DEF SameRecs
  <2> QED BY <2>1, <2>6 DEF CollectInv
<1>4. CASE GcWrite
  <2>1. /\ gcPc = "write" /\ gcPc' = "commit"
        /\ \/ gc.recs = NoRecords /\ gc' = gc
           \/ gc' = [gc EXCEPT !.new = {TableOf(1, gc.recs)}]
    BY <1>4 DEF GcWrite
  <2>2. /\ gc \in Collection /\ gc.recs \in [Keys -> Record] /\ manifest \in Manifest
        /\ gc.new = {}
    BY <2>1, GcRecsFields DEF TypeInv, PhaseInv
  <2>3. SameRecs(gc.recs, Merged(gc.tables, TRUE))
    BY <2>1 DEF CollectInv
  <2>4. CASE gc.recs = NoRecords /\ gc' = gc
    <3>1. Rewrites(gc.new, gc.recs, {})
      BY <2>2, <2>4, EmptyTypes DEF Rewrites
    <3> QED BY <2>3, <2>4, <3>1 DEF CollectInv
  <2>5. CASE gc' = [gc EXCEPT !.new = {TableOf(1, gc.recs)}]
    <3> DEFINE t == TableOf(1, gc.recs)
    <3>1. t.level = 1 /\ SameRecs(t.recs, gc.recs)
      BY <2>2, TableOfFields DEF SameRecs
    <3> HIDE DEF t
    <3>2. gc' = [gc EXCEPT !.new = {t}]
      BY <2>5 DEF t
    <3>3. gc'.new = {t} /\ gc'.recs = gc.recs /\ gc'.tables = gc.tables
      BY <2>2, <3>2 DEF Collection
    <3>4. Rewrites({t}, gc.recs, {})
      BY <3>1 DEF Rewrites
    <3> QED BY <2>3, <3>3, <3>4 DEF CollectInv
  <2> QED BY <2>1, <2>4, <2>5
<1>5. CASE GcCommit \/ GcFails
  <2>1. gcPc' = "idle"
    BY <1>5 DEF GcCommit, GcFails, GcEnds
  <2> QED BY <1>1, <2>1
<1> QED BY <1>1, <1>2, <1>3, <1>4, <1>5 DEF GcStep

\* A blob collection leaves flush and compaction alone, and commits only without them.
LEMMA GcJobs ==
    ASSUME TypeInv, JobsInv, GcStep
    PROVE  JobsInv'
<1>1. CollectInv'
  BY CollectJobs DEF JobsInv
<1>2. UNCHANGED <<flushPc, flushMem, flushTable, compPc, compTables, compDrop, compNew>>
  BY DEF GcStep, GcStart, GcList, GcWrite, GcCommit, GcFails
<1>3. CASE manifest'.tables = manifest.tables
  BY <1>1, <1>2, <1>3, FlushSame, CompSame DEF JobsInv
<1>4. CASE manifest'.tables # manifest.tables
  <2>1. GcCommit /\ GcStable
    <3>1. GcCommit
      BY <1>4, TablesStay DEF GcStep, SameTables
    <3> QED BY <1>4, <3>1 DEF GcCommit
  <2>2. flushPc # "install" /\ compPc = "idle" /\ compTables = {}
    BY <2>1 DEF GcStable, GcMayRun, TypeInv, PhaseInv
  <2>3. FlushInv'
    BY <1>2, <2>2 DEF FlushInv
  <2>4. CompInv'
    BY <1>2, <2>2, CompOver
  <2> QED BY <1>1, <2>3, <2>4 DEF JobsInv
<1> QED BY <1>3, <1>4

\* A crash ends the jobs; open() may schedule a compaction.
LEMMA RestartJobs ==
    ASSUME TypeInv, IdsInv, Crash \/ Open
    PROVE  JobsInv'
<1>1. CASE Crash
  <2>1. flushPc' = "idle" /\ compPc' = "idle" /\ compTables' = {} /\ gcPc' = "idle"
    BY <1>1 DEF Crash, ForgetState, CompEnds, GcEnds
  <2> QED BY <2>1, CompOver DEF JobsInv, FlushInv, CollectInv
<1>2. CASE Open
  <2>1. /\ life = "closed" /\ manifest'.tables = disk.tables
        /\ \/ compPc' = compPc /\ compTables' = compTables
           \/ compPc' = "queued" /\ compTables' = MergeSet(disk.tables)
        /\ UNCHANGED <<flushPc, flushMem, flushTable, compDrop, compNew, gcPc, gc>>
    BY <1>2, OpenEffect
  <2>2. flushPc = "idle" /\ compPc = "idle" /\ compTables = {} /\ gcPc = "idle"
    BY <2>1 DEF TypeInv, PhaseInv
  <2>3. FlushInv' /\ CollectInv'
    BY <2>1, <2>2 DEF FlushInv, CollectInv
  <2>4. CASE compPc' = compPc /\ compTables' = compTables
    BY <2>2, <2>3, <2>4, CompOver DEF JobsInv
  <2>5. CASE compPc' = "queued" /\ compTables' = MergeSet(disk.tables)
    <3>1. Rewritable(MergeSet(disk.tables), disk.tables \ MergeSet(disk.tables), FALSE)
      BY ManifestFields, MergeSetRewritable DEF TypeInv, TypeOK
    <3>2. ~(compPc' \in {"merge", "install"} /\ compDrop') /\ compPc' # "install"
      BY <2>5
    <3>3. CompInv'
      BY <2>1, <2>5, <3>1, <3>2 DEF CompInv
    <3> QED BY <2>3, <3>3 DEF JobsInv
  <2> QED BY <2>1, <2>4, <2>5
<1> QED BY <1>1, <1>2

\* What jobs have in hand fits the tables, whatever steps come between.
LEMMA JobsKept ==
    ASSUME IInv, JobsInv, [Next]_vars
    PROVE  JobsInv'
<1>1. TypeInv /\ IdsInv
  BY DEF IInv, FileInv
<1>2. ASSUME manifest' = manifest,
             UNCHANGED <<flushPc, flushMem, flushTable, compPc, compTables, compDrop, compNew, gcPc, gc>>
      PROVE  JobsInv'
  BY <1>2, JobsSame
<1>3. ASSUME NEW w \in Writers, NEW k \in Keys, NEW kind \in Kinds, BeginWrite(w, k, kind)
      PROVE  JobsInv'
  BY <1>2, <1>3 DEF BeginWrite
<1>4. ASSUME NEW w \in Writers, ApplyWrite(w) PROVE JobsInv'
  <2>1. /\ manifest' = manifest
        /\ flushPc' # flushPc => flushPc' = "queued"
        /\ UNCHANGED <<flushMem, flushTable, compPc, compTables, compDrop, compNew, gcPc, gc>>
    BY <1>4 DEF ApplyWrite
  <2>2. CASE flushPc' = flushPc
    BY <1>2, <2>1, <2>2
  <2>3. CASE flushPc' = "queued"
    BY <2>1, <2>3, CompSame, CollectSame DEF JobsInv, FlushInv
  <2> QED BY <2>1, <2>2, <2>3
<1>5. ASSUME NEW job \in tails, DeleteFiles(job) PROVE JobsInv'
  BY <1>2, <1>5 DEF DeleteFiles
<1>6. CASE UNCHANGED vars
  BY <1>2, <1>6 DEF vars
<1>7. CASE FlushStep \/ CompStep \/ GcStep
  BY <1>1, <1>7, FlushJobs, CompJobs, GcJobs
<1>8. CASE Crash \/ Open
  BY <1>1, <1>8, RestartJobs
<1> QED BY <1>3, <1>4, <1>5, <1>6, <1>7, <1>8 DEF Next, TailStep

-----------------------------------------------------------------------------
(* A write.                                                                *)

\* No record in memory or in the tables is newer than lastVisible_.
LEMMA LookupOld ==
    ASSUME TypeInv, IdsInv, CInv, life = "open", NEW k \in Keys
    PROVE  Lookup(k).seq \in Nat /\ Lookup(k).seq <= lastVisible
<1> DEFINE holding == {i \in DOMAIN immutables : immutables[i].recs[k].seq # 0}
<1>1. lastVisible \in Nat /\ NoRecord.seq = 0 /\ log \in SUBSET Operation
  BY Positions, EmptyTypes
<1>2. \A r \in Record : Genuine(log, r, k) => r.seq \in Nat /\ r.seq <= lastVisible
  BY <1>1, RecordFields DEF Genuine, CInv, Contents, LogInv
<1>3. mutable.recs[k] \in Record /\ Genuine(log, mutable.recs[k], k)
  BY Positions DEF CInv, Contents, MemInv, Covers
<1>4. \A i \in 1..Len(immutables) :
         immutables[i].recs[k] \in Record /\ Genuine(log, immutables[i].recs[k], k)
  BY Positions DEF CInv, Contents, MemInv, Layer, Covers
<1>5. TableLookup(manifest.tables, k) = NoRecord
      \/ \E t \in manifest.tables : /\ TableLookup(manifest.tables, k) = t.recs[k]
                                    /\ t.recs[k] \in Record /\ Genuine(log, t.recs[k], k)
  <2>1. /\ manifest.tables \in SUBSET Table /\ manifest.maxSequence \in Nat
        /\ \A t, u \in manifest.tables : t.fileId = u.fileId => t = u
        /\ Serves(log, manifest.tables, manifest.maxSequence)
    BY Positions, ManifestFields DEF TypeInv, TypeOK, IdsInv, IdsOK, Live, CInv, Contents, ServesInv
  <2>2. \/ \E t \in manifest.tables :
              /\ TableLookup(manifest.tables, k) = t.recs[k] /\ t.recs[k].seq # 0
              /\ Genuine(log, t.recs[k], k)
        \/ TableLookup(manifest.tables, k) = NoRecord
    BY <1>1, <2>1, TableAnswers
  <2> QED BY <2>1, <2>2, TableFields
<1>6. CASE mutable.recs[k].seq # 0
  BY <1>2, <1>3, <1>6 DEF Lookup
<1>7. CASE mutable.recs[k].seq = 0 /\ holding # {}
  <2>1. Max(holding) \in 1..Len(immutables)
    BY <1>7, Positions, MaxPosition
  <2>2. Lookup(k) = immutables[Max(holding)].recs[k]
    BY <1>7 DEF Lookup
  <2> HIDE DEF holding
  <2> QED BY <1>2, <1>4, <2>1, <2>2
<1>8. CASE mutable.recs[k].seq = 0 /\ holding = {}
  <2>1. Lookup(k) = TableLookup(manifest.tables, k)
    BY <1>8 DEF Lookup
  <2> QED BY <1>1, <1>2, <1>5, <2>1
<1> QED BY <1>6, <1>7, <1>8

\* The ranges of the memtables end at lastVisible_ at the latest.
LEMMA BaseOld ==
    ASSUME TypeInv, LogInv, MemInv, life = "open", NEW i \in 1..(Len(immutables) + 1)
    PROVE  Base(i) \in Nat /\ Base(i) <= lastVisible
<1>1. Base(i) \in Nat /\ Len(immutables) \in Nat
  BY Positions
<1>2. CASE i = 1
  BY <1>1, <1>2 DEF Base, LogInv
<1>3. CASE i # 1
  <2>1. i - 1 \in 1..Len(immutables)
    BY <1>1, <1>3
  <2> QED BY <1>1, <1>3, <2>1 DEF Base, MemInv
<1> QED BY <1>2, <1>3

\* A layer does not see a later operation.
LEMMA LayerLater ==
    ASSUME TypeInv, LogInv, MemInv, life = "open", NEW op \in Operation, lastVisible < op.seq,
           log' = log \cup {op}, manifest' = manifest,
           NEW i \in 1..Len(immutables), immutables'[i] = immutables[i],
           i # 1 => immutables'[i - 1] = immutables[i - 1],
           i = 1 => (flushPc' = "remove" <=> flushPc = "remove")
    PROVE  Layer(i)'
<1> DEFINE mem == immutables[i]
<1>1. /\ mem.maxSeq \in Nat /\ Base(i) \in Nat /\ op.seq \in Nat /\ lastVisible \in Nat
      /\ log \in SUBSET Operation
  BY Positions, OperationFields
<1>2. Layer(i) /\ mem.maxSeq < op.seq
  BY <1>1 DEF MemInv
<1>3. Base(i)' = Base(i)
  BY DEF Base
<1>4. \A lo \in Nat : Covers(log, mem.recs, lo, mem.maxSeq) => Covers(log', mem.recs, lo, mem.maxSeq)
  BY <1>1, <1>2, CoversLater
<1>5. CASE i = 1 /\ flushPc = "remove"
  <2>1. mem.maxSeq = manifest.maxSequence /\ \E lo \in Nat : Covers(log', mem.recs, lo, mem.maxSeq)
    BY <1>2, <1>4, <1>5 DEF Layer
  <2>2. flushPc' = "remove" /\ immutables'[i] = mem
    BY <1>5
  <2> QED BY <1>5, <2>1, <2>2 DEF Layer
<1>6. CASE ~(i = 1 /\ flushPc = "remove")
  <2>1. Base(i) < mem.maxSeq /\ Covers(log', mem.recs, Base(i), mem.maxSeq)
    BY <1>1, <1>2, <1>4, <1>6 DEF Layer
  <2>2. ~(i = 1 /\ flushPc' = "remove") /\ immutables'[i] = mem
    BY <1>6
  <2> QED BY <1>3, <2>1, <2>2 DEF Layer
<1> QED BY <1>5, <1>6

\* The memtable after the operation w applies, which comes after all others.
LEMMA WriteApplied ==
    ASSUME TypeInv, IdsInv, CInv, WritesInOrder, NEW w \in Writers, ApplyWrite(w)
    PROVE  LET op  == req[w]
               mem == Applied(mutable, op)
           IN  /\ life = "open" /\ op \in Operation /\ op.seq \in Nat /\ lastVisible < op.seq
               /\ log' = log \cup {op} /\ lastVisible' = op.seq
               /\ mem \in MemTable /\ mem.maxSeq = op.seq
               /\ Covers(log', mem.recs, Base(Len(immutables) + 1), op.seq)
<1> DEFINE op  == req[w]
           mem == Applied(mutable, op)
<1>1. /\ life = "open" /\ op \in Operation /\ lastVisible < op.seq /\ log' = log \cup {op}
      /\ lastVisible' = Max({lastVisible, op.seq}) /\ mutable \in MemTable
  BY DEF ApplyWrite, WritesInOrder, TypeInv, TypeOK
<1>2. op.seq \in Nat /\ op.key \in Keys /\ lastVisible \in Nat /\ mutable.maxSeq \in Nat
  BY <1>1, OperationFields, Positions
<1> HIDE DEF op
<1>3. mutable.maxSeq <= lastVisible
  BY <1>1 DEF CInv, Contents, MemInv
<1>4. Max({lastVisible, op.seq}) = op.seq /\ Max({mutable.maxSeq, op.seq}) = op.seq
  <2>1. \A x \in Nat : x <= lastVisible => Max({x, op.seq}) = op.seq
    <3> SUFFICES ASSUME NEW x \in Nat, x <= lastVisible PROVE Max({x, op.seq}) = op.seq
      OBVIOUS
    <3>1. /\ {x, op.seq} \in SUBSET Nat /\ {x, op.seq} # {} /\ op.seq \in {x, op.seq}
          /\ \A y \in {x, op.seq} : y <= op.seq
      BY <1>1, <1>2
    <3>2. Max({x, op.seq}) \in {x, op.seq} /\ Max({x, op.seq}) >= op.seq
      BY <1>2, <3>1, BoundedMax
    <3> QED BY <1>1, <1>2, <3>2
  <2> QED BY <1>2, <1>3, <2>1
<1>5. /\ mem \in MemTable /\ mem.maxSeq = op.seq
      /\ mem.recs = [mutable.recs EXCEPT ![op.key] = RecordOf(op)]
  <2>1. ~(Lookup(op.key).seq > op.seq)
    BY <1>1, <1>2, LookupOld
  <2> QED BY <1>1, <1>4, <2>1, AppliedEffect
<1>6. Covers(log', mem.recs, Base(Len(immutables) + 1), op.seq)
  <2>1. Len(immutables) + 1 \in 1..(Len(immutables) + 1)
    BY Positions
  <2>2. Base(Len(immutables) + 1) \in Nat /\ Base(Len(immutables) + 1) <= lastVisible
    BY <1>1, <2>1, BaseOld DEF CInv, Contents
  <2>3. /\ Covers(log, mutable.recs, Base(Len(immutables) + 1), lastVisible)
        /\ \A o \in log : o.seq <= lastVisible
    BY <1>1 DEF CInv, Contents, MemInv, LogInv
  <2>4. mutable.recs \in [Keys -> Record] /\ log \in SUBSET Operation
    BY Positions
  <2> DEFINE lo == Base(Len(immutables) + 1)
  <2> HIDE DEF lo
  <2>5. Covers(log \cup {op}, [mutable.recs EXCEPT ![op.key] = RecordOf(op)], lo, op.seq)
    BY <1>1, <1>2, <2>2, <2>3, <2>4, CoversApplied DEF lo
  <2> QED BY <1>1, <1>5, <2>5 DEF lo
<1> QED BY <1>1, <1>2, <1>4, <1>5, <1>6 DEF op

\* submitRequest applies its operation: the memtable being filled has it.
LEMMA ApplyWriteContents ==
    ASSUME TypeInv, IdsInv, CInv, WritesInOrder, NEW w \in Writers, ApplyWrite(w)
    PROVE  Contents'
<1> DEFINE op  == req[w]
           mem == Applied(mutable, op)
           full == mem.ops >= MemTableOps /\ ~IsEmptyMem(mem)
<1>0. PICK n \in Nat : n = Len(immutables)
  BY Positions
<1>1. /\ life = "open" /\ op \in Operation /\ op.seq \in Nat /\ lastVisible < op.seq
      /\ log' = log \cup {op} /\ lastVisible' = op.seq
      /\ mem \in MemTable /\ mem.maxSeq = op.seq
      /\ Covers(log', mem.recs, Base(n + 1), op.seq)
  BY <1>0, WriteApplied
<1>2. /\ mutable' = IF full THEN EmptyMem ELSE mem
      /\ immutables' = IF full THEN Append(immutables, mem) ELSE immutables
      /\ flushPc' = IF full /\ flushPc = "idle" THEN "queued" ELSE flushPc
      /\ manifest' = manifest /\ disk' = disk
      /\ UNCHANGED <<life, flushMem, flushTable, compPc, compTables, compDrop, compNew, gcPc, gc>>
  BY DEF ApplyWrite
<1> HIDE DEF op, mem, full
<1>3. /\ n \in Nat /\ immutables \in Seq(MemTable) /\ lastVisible \in Nat /\ log \in SUBSET Operation
      /\ manifest.maxSequence \in Nat /\ disk.maxSequence \in Nat
      /\ \A i \in 1..n : immutables[i].maxSeq \in Nat /\ immutables[i].maxSeq <= lastVisible
      /\ \A o \in log : o.seq \in Nat /\ o.seq <= lastVisible
      /\ manifest.maxSequence <= lastVisible /\ disk.maxSequence <= lastVisible
      /\ LogInv /\ MemInv
  BY <1>0, <1>1, Positions DEF CInv, Contents, MemInv, LogInv
<1>4. flushPc' = "remove" <=> flushPc = "remove"
  BY <1>2
<1>5. LogInv'
  <2>1. OneEach(log')
    <3>1. OneEach(log) /\ \A o \in log : o.seq # op.seq
      BY <1>1, <1>3 DEF LogInv
    <3> QED BY <1>1, <3>1 DEF OneEach
  <2>2. \A o \in log' : o.seq <= lastVisible'
    BY <1>1, <1>3
  <2>3. manifest'.maxSequence <= lastVisible' /\ disk'.maxSequence <= lastVisible'
    BY <1>1, <1>2, <1>3
  <2> QED BY <2>1, <2>2, <2>3 DEF LogInv
<1>6. ServesInv'
  <2>1. disk.maxSequence < op.seq /\ manifest.maxSequence < op.seq
    BY <1>1, <1>3
  <2>2. /\ Serves(log, disk.tables, disk.maxSequence)
        /\ Serves(log, manifest.tables, manifest.maxSequence)
    BY <1>1 DEF CInv, Contents, ServesInv
  <2>3. /\ Serves(log', disk.tables, disk.maxSequence)
        /\ Serves(log', manifest.tables, manifest.maxSequence)
    BY <1>1, <1>3, <2>1, <2>2, ServesLater
  <2> QED BY <1>2, <2>3 DEF ServesInv
<1>7. ASSUME ~full PROVE MemInv'
  <2>1. immutables' = immutables /\ mutable' = mem
    BY <1>2, <1>7
  <2>2. ASSUME NEW i \in 1..n PROVE Layer(i)' /\ immutables'[i].maxSeq <= lastVisible'
    <3>1. Layer(i)'
      BY <1>0, <1>1, <1>2, <1>3, <1>4, <2>1, LayerLater
    <3> QED BY <1>1, <1>3, <2>1, <3>1
  <2>3. Base(n + 1)' = Base(n + 1)
    BY <1>2, <2>1 DEF Base
  <2> QED BY <1>0, <1>1, <2>1, <2>2, <2>3 DEF MemInv
<1>8. ASSUME full PROVE MemInv'
  <2>1. /\ immutables' = Append(immutables, mem) /\ mutable' = EmptyMem
        /\ Len(immutables') = n + 1 /\ immutables'[n + 1] = mem
        /\ \A i \in 1..n : immutables'[i] = immutables[i]
    BY <1>0, <1>1, <1>2, <1>3, <1>8
  <2>2. ASSUME NEW i \in 1..n PROVE Layer(i)' /\ immutables'[i].maxSeq <= lastVisible'
    <3>1. i # 1 => i - 1 \in 1..n
      BY <1>3
    <3>2. immutables'[i] = immutables[i] /\ (i # 1 => immutables'[i - 1] = immutables[i - 1])
      BY <2>1, <3>1
    <3>3. Layer(i)'
      BY <1>0, <1>1, <1>2, <1>3, <1>4, <3>2, LayerLater
    <3> QED BY <1>1, <1>3, <3>2, <3>3
  <2>3. Base(n + 1)' = Base(n + 1)
    <3>1. n # 0 => n + 1 # 1 /\ immutables'[n] = immutables[n] /\ (n + 1) - 1 = n
      BY <1>3, <2>1
    <3>2. n = 0 => n + 1 = 1
      OBVIOUS
    <3> QED BY <1>2, <3>1, <3>2 DEF Base
  <2>4. Layer(n + 1)' /\ immutables'[n + 1].maxSeq <= lastVisible'
    <3>1. Base(n + 1) < op.seq
      <4>1. n + 1 \in 1..(n + 1)
        BY <1>3
      <4> QED BY <1>0, <1>1, <1>3, <4>1, BaseOld
    <3>2. ~(n + 1 = 1 /\ flushPc' = "remove")
      <4>1. flushPc = "remove" => immutables # <<>>
        BY DEF TypeInv, PhaseInv
      <4>2. immutables # <<>> => n # 0
        BY <1>0, <1>3
      <4> QED BY <1>3, <1>4, <4>1, <4>2
    <3>3. Layer(n + 1)'
      BY <1>1, <2>1, <2>3, <3>1, <3>2 DEF Layer
    <3> QED BY <1>1, <2>1, <3>3
  <2>5. \A i \in 1..(n + 1) : Layer(i)' /\ immutables'[i].maxSeq <= lastVisible'
    <3>1. \A i \in 1..(n + 1) : i \in 1..n \/ i = n + 1
      BY <1>3
    <3> QED BY <2>2, <2>4, <3>1
  <2>6. Base(n + 2)' = op.seq
    <3>1. n + 2 # 1 /\ (n + 2) - 1 = n + 1
      BY <1>3
    <3> QED BY <1>1, <2>1, <3>1 DEF Base
  <2>7. Covers(log', EmptyMem.recs, op.seq, op.seq) /\ EmptyMem.maxSeq <= op.seq
    <3>1. \A k \in Keys : EmptyMem.recs[k].seq = 0
      BY EmptyTypes
    <3>2. \A o \in log' : ~(op.seq < o.seq /\ o.seq <= op.seq)
      BY <1>1, <1>3
    <3> QED BY <1>1, <3>1, <3>2, EmptyTypes DEF Covers, Genuine
  <2>8. Len(immutables') + 1 = n + 2
    BY <1>3, <2>1
  <2> QED BY <1>1, <2>1, <2>5, <2>6, <2>7, <2>8 DEF MemInv
<1>12. MemInv'
  BY <1>7, <1>8
<1> QED BY <1>5, <1>6, <1>12 DEF Contents

-----------------------------------------------------------------------------
(* Flushes.                                                                *)

\* A manifest that serves is on disk, after a persist that failed.
LEMMA ContentsNotInstalled ==
    ASSUME LogInv, MemInv, ServesInv, SameTables,
           UNCHANGED <<mutable, immutables, log, lastVisible, life>>,
           flushPc' = "remove" <=> flushPc = "remove", NEW m,
           Serves(log, m.tables, m.maxSequence), m.maxSequence <= lastVisible,
           disk' = disk \/ disk' = m
    PROVE  LogInv' /\ MemInv' /\ ServesInv'
<1>1. LogInv'
  BY DEF LogInv, SameTables
<1>2. MemInv'
  BY DEF MemInv, Layer, Base, SameTables
<1>3. ServesInv'
  BY DEF ServesInv, SameTables
<1> QED BY <1>1, <1>2, <1>3

\* Or it was persisted, and has the sequences of the one before.
LEMMA ContentsInstalled ==
    ASSUME LogInv, MemInv, life = "open", NEW m,
           UNCHANGED <<mutable, immutables, log, lastVisible, life, flushPc>>,
           disk' = m, manifest'.tables = m.tables, manifest'.maxSequence = m.maxSequence,
           m.maxSequence = manifest.maxSequence,
           Serves(log, m.tables, m.maxSequence)
    PROVE  LogInv' /\ MemInv' /\ ServesInv'
<1>1. LogInv'
  BY DEF LogInv
<1>2. MemInv'
  BY DEF MemInv, Layer, Base
<1>3. ServesInv'
  BY DEF ServesInv
<1> QED BY <1>1, <1>2, <1>3

\* The manifest with the flushed table serves one memtable more.
LEMMA FlushedServes ==
    ASSUME TypeInv, CInv, flushPc = "install"
    PROVE  LET m   == WithTable(flushMem, flushTable)
               mem == immutables[1]
           IN  /\ life = "open" /\ Len(immutables) # 0 /\ flushMem = mem
               /\ m \in Manifest /\ m.tables = manifest.tables \cup {flushTable}
               /\ m.maxSequence = mem.maxSeq /\ mem.maxSeq <= lastVisible
               /\ Serves(log, m.tables, m.maxSequence)
               /\ \E lo \in Nat : Covers(log, mem.recs, lo, mem.maxSeq)
<1> DEFINE m   == WithTable(flushMem, flushTable)
           mem == immutables[1]
<1>1. life = "open" /\ immutables # <<>> /\ flushMem = Head(immutables)
  BY DEF TypeInv, PhaseInv
<1>2. Len(immutables) \in Nat /\ immutables \in Seq(MemTable)
  BY Positions
<1>3. 1 \in 1..Len(immutables) /\ Len(immutables) # 0 /\ flushMem = mem
  BY <1>1, <1>2
<1>4. /\ mem \in MemTable /\ mem.maxSeq \in Nat /\ manifest.maxSequence \in Nat
      /\ log \in SUBSET Operation /\ lastVisible \in Nat
  BY <1>3, Positions
<1>5. /\ manifest.maxSequence < mem.maxSeq /\ mem.maxSeq <= lastVisible
      /\ Covers(log, mem.recs, manifest.maxSequence, mem.maxSeq)
  BY <1>1, <1>3 DEF CInv, Contents, MemInv, Layer, Base
<1>6. manifest \in Manifest /\ flushTable \in Table /\ manifest.tables \in SUBSET Table
  BY ManifestFields DEF TypeInv, TypeOK
<1>7. /\ m \in Manifest /\ m.tables = manifest.tables \cup {flushTable}
      /\ m.maxSequence = Max({manifest.maxSequence, mem.maxSeq})
  BY <1>3, <1>4, <1>6, WithTableFields
<1>8. Max({manifest.maxSequence, mem.maxSeq}) = mem.maxSeq
  <2> DEFINE S == {manifest.maxSequence, mem.maxSeq}
  <2>1. S \in SUBSET Nat /\ S # {} /\ mem.maxSeq \in S /\ \A y \in S : y <= mem.maxSeq
    BY <1>4, <1>5
  <2> HIDE DEF S
  <2>2. Max(S) \in S /\ Max(S) >= mem.maxSeq
    BY <1>4, <2>1, BoundedMax
  <2>3. Max(S) <= mem.maxSeq /\ Max(S) \in Nat
    BY <2>1, <2>2
  <2>4. Max(S) = mem.maxSeq
    BY <1>4, <2>2, <2>3
  <2> QED BY <2>4 DEF S
<1>9. Serves(log, manifest.tables \cup {flushTable}, mem.maxSeq)
  <2>1. /\ flushTable.level = 0 /\ SameRecs(flushTable.recs, mem.recs)
        /\ \A u \in manifest.tables : u.level = 0 => u.fileId < flushTable.fileId
    BY <1>3 DEF CInv, JobsInv, FlushInv
  <2>2. Covers(log, flushTable.recs, manifest.maxSequence, mem.maxSeq)
    BY <1>5, <2>1, CoversSame
  <2>3. Serves(log, manifest.tables, manifest.maxSequence)
    BY <1>1 DEF CInv, Contents, ServesInv
  <2> QED BY <1>4, <1>5, <1>6, <2>1, <2>2, <2>3, ServesFlushed
<1> HIDE DEF m, mem
<1> QED BY <1>1, <1>3, <1>4, <1>5, <1>7, <1>8, <1>9 DEF m, mem

\* Picking a memtable, and what else reads only.
LEMMA FlushPickContents ==
    ASSUME TypeInv, CInv, FlushPick
    PROVE  Contents'
<1>1. /\ flushPc \in {"pick", "queued"} /\ flushPc' \in {"idle", "write"}
      /\ manifest' = manifest /\ disk' = disk
      /\ UNCHANGED <<mutable, immutables, log, lastVisible, life,
                     compPc, compTables, compDrop, compNew, gcPc, gc>>
  BY DEF FlushPick
<1>2. LogInv' /\ MemInv' /\ ServesInv'
  BY <1>1, ContentsSame DEF CInv, Contents, SameTables
<1> QED BY <1>2 DEF Contents

\* The flushed table is written with the records of its memtable.
LEMMA FlushWriteContents ==
    ASSUME TypeInv, IdsInv, CInv, FlushWrite
    PROVE  Contents'
<1>1. /\ flushPc = "write" /\ flushPc' = "install" /\ disk' = disk
      /\ WriteTable(flushMem.recs) /\ flushTable' = TableOf(0, flushMem.recs)
      /\ UNCHANGED <<flushMem, mutable, immutables, log, lastVisible, life,
                     compPc, compTables, compDrop, compNew, gcPc, gc>>
  BY DEF FlushWrite
<1>2. manifest \in Manifest /\ BlobTypes /\ flushMem.recs \in [Keys -> Record]
  BY <1>1, FlushMemOK DEF TypeInv, TypeOK, BlobTypes
<1>3. SameTables
  <2>1. PICK n \in Nat : IdsTaken(n)
    BY <1>1, <1>2, WriteEffect
  <2> QED BY <1>1, <1>2, <2>1, IdsTakenFields DEF SameTables
<1>4. LogInv' /\ MemInv' /\ ServesInv'
  BY <1>1, <1>3, ContentsSame DEF CInv, Contents
<1> QED BY <1>4 DEF Contents

\* A flush installs its table: the tables have what the memtable had.
LEMMA FlushInstallContents ==
    ASSUME TypeInv, CInv, FlushInstall
    PROVE  Contents'
<1> DEFINE m   == WithTable(flushMem, flushTable)
           mem == immutables[1]
<1>1. /\ flushPc = "install" /\ flushPc' = "remove" /\ Persist(m) /\ ScheduleGc
      /\ UNCHANGED <<flushMem, mutable, immutables, log, lastVisible, life, gc>>
  BY DEF FlushInstall
<1>2. /\ life = "open" /\ Len(immutables) # 0
      /\ m \in Manifest /\ m.tables = manifest.tables \cup {flushTable}
      /\ m.maxSequence = mem.maxSeq /\ mem.maxSeq <= lastVisible
      /\ Serves(log, m.tables, m.maxSequence)
      /\ \E lo \in Nat : Covers(log, mem.recs, lo, mem.maxSeq)
  BY <1>1, FlushedServes
<1> HIDE DEF m
<1>3. disk' = m /\ manifest'.tables = m.tables /\ manifest'.maxSequence = m.maxSequence
  BY <1>1, <1>2, PersistEffect, PersistedFields
<1>4. LogInv'
  BY <1>1, <1>2, <1>3 DEF CInv, Contents, LogInv
<1>5. MemInv'
  <2>1. PICK n \in Nat : n = Len(immutables)
    BY Positions
  <2>2. /\ \A i \in 1..n : Layer(i) /\ immutables[i].maxSeq <= lastVisible
        /\ mutable.maxSeq <= lastVisible /\ Covers(log, mutable.recs, Base(n + 1), lastVisible)
    BY <1>2, <2>1 DEF CInv, Contents, MemInv
  <2>3. Base(n + 1)' = Base(n + 1)
    BY <1>1, <1>2, <2>1 DEF Base
  <2>4. Layer(1)'
    BY <1>1, <1>2, <1>3 DEF Layer
  <2>5. ASSUME NEW i \in 1..n, i # 1 PROVE Layer(i)'
    <3>1. Base(i)' = Base(i)
      BY <1>1, <2>5 DEF Base
    <3> QED BY <1>1, <2>2, <2>5, <3>1 DEF Layer
  <2> QED BY <1>1, <2>1, <2>2, <2>3, <2>4, <2>5 DEF MemInv
<1>6. ServesInv'
  BY <1>1, <1>2, <1>3 DEF ServesInv
<1> QED BY <1>4, <1>5, <1>6 DEF Contents

\* A flush fails; its table may be in the manifest on disk all the same.
LEMMA FlushFailsContents ==
    ASSUME TypeInv, CInv, FlushFails
    PROVE  Contents'
<1> DEFINE m == WithTable(flushMem, flushTable)
<1>1. /\ \/ flushPc = "write" /\ WriteTableFails(flushMem.recs, {manifest.nextTableId}) /\ disk' = disk
         \/ flushPc = "install" /\ PersistFails(m)
      /\ flushPc' = "idle"
      /\ UNCHANGED <<mutable, immutables, log, lastVisible, life,
                     compPc, compTables, compDrop, compNew, gcPc, gc>>
  BY DEF FlushFails
<1>2. SameTables /\ LogInv' /\ MemInv' /\ ServesInv'
  <2>1. CASE flushPc = "write" /\ WriteTableFails(flushMem.recs, {manifest.nextTableId}) /\ disk' = disk
    <3>1. manifest \in Manifest /\ BlobTypes /\ flushMem.recs \in [Keys -> Record]
      BY <2>1, FlushMemOK DEF TypeInv, TypeOK, BlobTypes
    <3>2. PICK n \in Nat : IdsTaken(n)
      BY <2>1, <3>1, WriteFailsEffect
    <3>3. SameTables
      BY <2>1, <3>1, <3>2, IdsTakenFields DEF SameTables
    <3> QED BY <1>1, <2>1, <3>3, ContentsSame DEF CInv, Contents
  <2>2. CASE flushPc = "install" /\ PersistFails(m)
    <3>1. /\ Serves(log, m.tables, m.maxSequence) /\ m.maxSequence <= lastVisible
      BY <2>2, FlushedServes
    <3> HIDE DEF m
    <3>2. manifest' = manifest /\ (disk' = disk \/ disk' = m)
      BY <2>2, PersistEffect DEF NotPersisted
    <3> QED BY <1>1, <2>2, <3>1, <3>2, ContentsNotInstalled DEF CInv, Contents, SameTables
  <2> QED BY <1>1, <2>1, <2>2
<1> QED BY <1>2 DEF Contents

\* The flushed memtable is dropped: the tables have its range.
LEMMA FlushRemoveContents ==
    ASSUME TypeInv, CInv, FlushRemove
    PROVE  Contents'
<1>1. /\ flushPc = "remove" /\ flushPc' = "pick" /\ manifest' = manifest /\ disk' = disk
      /\ UNCHANGED <<mutable, log, lastVisible, life,
                     compPc, compTables, compDrop, compNew, gcPc, gc>>
  BY DEF FlushRemove
<1>2. immutables # <<>> /\ flushMem = Head(immutables) /\ life = "open"
  BY <1>1 DEF TypeInv, PhaseInv
<1>3. immutables' = Tail(immutables)
  BY <1>2 DEF FlushRemove
<1>4. PICK n \in Nat : n = Len(immutables)
  BY Positions
<1>5. immutables \in Seq(MemTable) /\ n # 0
  BY <1>2, <1>4, Positions
<1>6. Len(immutables') = n - 1 /\ \A i \in 1..(n - 1) : immutables'[i] = immutables[i + 1]
  BY <1>3, <1>4, <1>5
<1>7. /\ \A i \in 1..n : Layer(i) /\ immutables[i].maxSeq <= lastVisible
      /\ mutable.maxSeq <= lastVisible /\ Covers(log, mutable.recs, Base(n + 1), lastVisible)
  BY <1>2, <1>4 DEF CInv, Contents, MemInv
<1>8. immutables[1].maxSeq = manifest.maxSequence
  <2>1. 1 \in 1..n
    BY <1>5
  <2> QED BY <1>1, <1>7, <2>1 DEF Layer
<1>9. ASSUME NEW i \in 1..n PROVE Base(i)' = Base(i + 1)
  <2>1. CASE i = 1
    BY <1>1, <1>8, <2>1 DEF Base
  <2>2. CASE i # 1
    <3>1. i - 1 \in 1..(n - 1) /\ (i - 1) + 1 = i /\ (i + 1) - 1 = i /\ i + 1 # 1
      BY <2>2
    <3>2. immutables'[i - 1] = immutables[i]
      BY <1>6, <3>1
    <3> QED BY <2>2, <3>1, <3>2 DEF Base
  <2> QED BY <2>1, <2>2
<1>10. MemInv'
  <2>1. ASSUME NEW i \in 1..(n - 1)
        PROVE  Layer(i)' /\ immutables'[i].maxSeq <= lastVisible'
    <3>1. i + 1 \in 1..n /\ i + 1 # 1 /\ i \in 1..n
      BY <1>4
    <3>2. /\ Base(i + 1) < immutables[i + 1].maxSeq
          /\ Covers(log, immutables[i + 1].recs, Base(i + 1), immutables[i + 1].maxSeq)
          /\ immutables[i + 1].maxSeq <= lastVisible
      BY <1>7, <3>1 DEF Layer
    <3>3. Base(i)' = Base(i + 1) /\ immutables'[i] = immutables[i + 1]
      BY <1>6, <1>9, <3>1
    <3> QED BY <1>1, <3>2, <3>3 DEF Layer
  <2>2. Base(n)' = Base(n + 1)
    <3>1. n \in 1..n
      BY <1>5
    <3> QED BY <1>9, <3>1
  <2>3. Len(immutables') + 1 = n
    BY <1>6
  <2> QED BY <1>1, <1>6, <1>7, <2>1, <2>2, <2>3 DEF MemInv
<1>11. LogInv' /\ ServesInv'
  BY <1>1 DEF CInv, Contents, LogInv, ServesInv
<1> QED BY <1>10, <1>11 DEF Contents

-----------------------------------------------------------------------------
(* Compactions, blob collections.                                          *)

\* The manifest with a pass in it.
LEMMA CompactedTables ==
    ASSUME TypeInv, CompInv, compPc = "install"
    PROVE  /\ life = "open" /\ Compacted \in Manifest
           /\ compTables \in SUBSET manifest.tables /\ compNew \in SUBSET Table
           /\ manifest.tables \in SUBSET Table /\ compDrop \in BOOLEAN
           /\ Compacted.tables = (manifest.tables \ compTables) \cup compNew
           /\ Compacted.maxSequence = manifest.maxSequence
           /\ Rewritable(compTables, manifest.tables \ compTables, compDrop)
           /\ Rewrites(compNew, Merged(compTables, compDrop), manifest.tables \ compTables)
           /\ \A t \in compNew : t.level = 1
<1>1. life = "open" /\ compTables \subseteq manifest.tables
  BY DEF TypeInv, PhaseInv
<1>2. /\ manifest \in Manifest /\ compNew \in SUBSET Table /\ compDrop \in BOOLEAN
      /\ manifest.tables \in SUBSET Table
  BY ManifestFields DEF TypeInv, TypeOK
<1>3. /\ Compacted \in Manifest
      /\ Compacted.tables = (manifest.tables \ compTables) \cup compNew
      /\ Compacted.maxSequence = manifest.maxSequence
  BY <1>2, ReplacedFields
<1>4. /\ Rewritable(compTables, manifest.tables \ compTables, compDrop)
      /\ Rewrites(compNew, Merged(compTables, compDrop), manifest.tables \ compTables)
  <2>1. (compPc \in {"merge", "install"} /\ compDrop) = compDrop
    BY <1>2
  <2> QED BY <2>1 DEF CompInv
<1>5. \A t \in compNew : t.level = 1
  BY <1>4 DEF Rewrites
<1> QED BY <1>1, <1>2, <1>3, <1>4, <1>5

\* It serves what the manifest served.
LEMMA CompactedServes ==
    ASSUME TypeInv, CInv, compPc = "install"
    PROVE  /\ life = "open" /\ Compacted \in Manifest
           /\ Compacted.tables = (manifest.tables \ compTables) \cup compNew
           /\ Compacted.maxSequence = manifest.maxSequence
           /\ Compacted.maxSequence <= lastVisible
           /\ Serves(log, Compacted.tables, Compacted.maxSequence)
           /\ \A t \in compNew : t.level = 1
<1>1. /\ life = "open" /\ Compacted \in Manifest
      /\ compTables \in SUBSET manifest.tables /\ compNew \in SUBSET Table
      /\ manifest.tables \in SUBSET Table /\ compDrop \in BOOLEAN
      /\ Compacted.tables = (manifest.tables \ compTables) \cup compNew
      /\ Compacted.maxSequence = manifest.maxSequence
      /\ Rewritable(compTables, manifest.tables \ compTables, compDrop)
      /\ Rewrites(compNew, Merged(compTables, compDrop), manifest.tables \ compTables)
      /\ \A t \in compNew : t.level = 1
  BY CompactedTables DEF CInv, JobsInv
<1>2. /\ manifest.maxSequence \in Nat /\ log \in SUBSET Operation /\ OneEach(log)
      /\ \A t \in manifest.tables : TableRecsOK(t.recs)
      /\ manifest.maxSequence <= lastVisible
  BY <1>1, Positions DEF CInv, Contents, LogInv, TypeInv, RecsInv, Live
<1>3. Serves(log, manifest.tables, manifest.maxSequence)
  BY <1>1 DEF CInv, Contents, ServesInv
<1>4. Serves(log, (manifest.tables \ compTables) \cup compNew, manifest.maxSequence)
  BY <1>1, <1>2, <1>3, ServesMerged
<1> QED BY <1>1, <1>2, <1>4

\* A pass starts: it may drop tombstones only when it has all of level 1.
LEMMA CompStartContents ==
    ASSUME TypeInv, CInv, CompStart
    PROVE  Contents'
<1>1. life # "closing"
  BY DEF TypeInv, PhaseInv
<1>2. /\ compPc = "queued" /\ compPc' = "merge" /\ compDrop' = DropsTombstones(compTables)
      /\ compTables' = compTables \cap manifest.tables
      /\ manifest' = manifest /\ disk' = disk
      /\ UNCHANGED <<mutable, immutables, log, lastVisible, life, flushPc, flushMem, flushTable,
                     gcPc, gc>>
  BY <1>1 DEF CompStart
<1>4. LogInv' /\ MemInv' /\ ServesInv'
  BY <1>2, ContentsSame DEF CInv, Contents, SameTables
<1> QED BY <1>4 DEF Contents

\* A pass writes its table, newer than those of level 1.
LEMMA CompMergeContents ==
    ASSUME TypeInv, IdsInv, CInv, CompMerge
    PROVE  Contents'
<1>1. life # "closing"
  BY DEF TypeInv, PhaseInv
<1>2. /\ compPc = "merge" /\ compPc' = "install"
      /\ \/ CompactedRecs = NoRecords /\ compNew' = {} /\ manifest' = manifest
         \/ /\ compNew' = {[level |-> MergedLevel(compTables), fileId |-> manifest.nextTableId,
                            recs |-> CompactedRecs]}
            /\ manifest' = [manifest EXCEPT !.nextTableId = @ + 1]
      /\ disk' = disk
      /\ UNCHANGED <<compTables, compDrop, mutable, immutables, log, lastVisible, life,
                     flushPc, flushMem, flushTable, gcPc, gc>>
  BY <1>1 DEF CompMerge
<1>3. manifest \in Manifest /\ manifest.nextTableId \in Nat
  BY ManifestFields DEF TypeInv, TypeOK
<1>4. SameTables
  <2>1. manifest.nextTableId + 1 \in Nat /\ manifest.nextTableId < manifest.nextTableId + 1
    BY <1>3
  <2>2. CASE manifest' = manifest
    BY <1>2, <2>2 DEF SameTables
  <2>3. CASE manifest' = [manifest EXCEPT !.nextTableId = @ + 1]
    <3>1. IdsTaken(manifest.nextTableId + 1)
      BY <2>1, <2>3 DEF IdsTaken
    <3> QED BY <1>2, <1>3, <3>1, IdsTakenFields DEF SameTables
  <2> QED BY <1>2, <2>2, <2>3
<1>5. LogInv' /\ MemInv' /\ ServesInv'
  BY <1>2, <1>4, ContentsSame DEF CInv, Contents
<1> QED BY <1>5 DEF Contents

\* A pass installs its table.
LEMMA CompInstallContents ==
    ASSUME TypeInv, CInv, CompInstall
    PROVE  Contents'
<1>1. life # "closing"
  BY DEF TypeInv, PhaseInv
<1>2. /\ compPc = "install" /\ Persist(Compacted) /\ ScheduleGc
      /\ compTables' = MergeSet(Compacted.tables) /\ compPc' \in {"idle", "queued"}
      /\ UNCHANGED <<mutable, immutables, log, lastVisible, life, flushPc, flushMem, flushTable, gc>>
  BY <1>1 DEF CompInstall
<1>3. /\ life = "open" /\ Compacted \in Manifest
      /\ Compacted.tables = (manifest.tables \ compTables) \cup compNew
      /\ Compacted.maxSequence = manifest.maxSequence
      /\ Serves(log, Compacted.tables, Compacted.maxSequence)
      /\ \A t \in compNew : t.level = 1
  BY <1>2, CompactedServes
<1>4. /\ disk' = Compacted /\ manifest'.tables = Compacted.tables
      /\ manifest'.maxSequence = Compacted.maxSequence
  BY <1>2, <1>3, PersistEffect, PersistedFields
<1>5. LogInv' /\ MemInv' /\ ServesInv'
  BY <1>2, <1>3, <1>4, ContentsInstalled DEF CInv, Contents
<1> QED BY <1>5 DEF Contents

\* A pass is abandoned; its table may be in the manifest on disk all the same.
LEMMA CompFailsContents ==
    ASSUME TypeInv, CInv, CompFails
    PROVE  Contents'
<1>1. /\ \/ /\ compPc = "merge" /\ disk' = disk
            /\ \/ manifest' = manifest
               \/ manifest' = [manifest EXCEPT !.nextTableId = @ + 1]
         \/ compPc = "install" /\ PersistFails(Compacted)
      /\ compPc' = "idle" /\ compTables' = {}
      /\ UNCHANGED <<mutable, immutables, log, lastVisible, life, flushPc, flushMem, flushTable,
                     gcPc, gc>>
  BY DEF CompFails, CompEnds
<1>2. SameTables /\ LogInv' /\ MemInv' /\ ServesInv'
  <2>1. CASE /\ compPc = "merge" /\ disk' = disk
             /\ \/ manifest' = manifest
                \/ manifest' = [manifest EXCEPT !.nextTableId = @ + 1]
    <3>1. /\ manifest \in Manifest /\ manifest.nextTableId + 1 \in Nat
          /\ manifest.nextTableId < manifest.nextTableId + 1
      BY ManifestFields DEF TypeInv, TypeOK
    <3>2. SameTables
      <4>1. ASSUME manifest' = [manifest EXCEPT !.nextTableId = @ + 1] PROVE SameTables
        <5>1. IdsTaken(manifest.nextTableId + 1)
          BY <3>1, <4>1 DEF IdsTaken
        <5> QED BY <2>1, <3>1, <5>1, IdsTakenFields DEF SameTables
      <4> QED BY <2>1, <4>1 DEF SameTables
    <3> QED BY <1>1, <2>1, <3>2, ContentsSame DEF CInv, Contents
  <2>2. CASE compPc = "install" /\ PersistFails(Compacted)
    <3>1. /\ Serves(log, Compacted.tables, Compacted.maxSequence)
          /\ Compacted.maxSequence <= lastVisible
      BY <2>2, CompactedServes
    <3>2. manifest' = manifest /\ (disk' = disk \/ disk' = Compacted)
      BY <2>2, PersistEffect DEF NotPersisted
    <3> QED BY <1>1, <3>1, <3>2, ContentsNotInstalled DEF CInv, Contents, SameTables
  <2> QED BY <1>1, <2>1, <2>2
<1> QED BY <1>2 DEF Contents

\* The same records as records that are the same as others.
LEMMA SameSame ==
    ASSUME NEW a, NEW b, NEW c, SameRecs(a, b), SameRecs(b, c)
    PROVE  SameRecs(a, c)
  BY DEF SameRecs

\* A collection reads its tables.
LEMMA GcReadContents ==
    ASSUME TypeInv, CInv, GcStart \/ GcList
    PROVE  Contents'
<1>1. /\ manifest' = manifest /\ disk' = disk
      /\ UNCHANGED <<mutable, immutables, log, lastVisible, life, flushPc, flushMem, flushTable,
                     compPc, compTables, compDrop, compNew>>
  BY DEF GcStart, GcList
<1>2. LogInv' /\ MemInv' /\ ServesInv'
  BY <1>1, ContentsSame DEF CInv, Contents, SameTables
<1> QED BY <1>2 DEF Contents

\* A collection writes its table.
LEMMA GcWriteContents ==
    ASSUME TypeInv, CInv, GcWrite
    PROVE  Contents'
<1>1. /\ gcPc = "write" /\ gcPc' = "commit" /\ disk' = disk
      /\ \/ gc.recs = NoRecords /\ manifest' = manifest /\ gc' = gc
         \/ /\ WriteTable(gc.recs)
            /\ gc' = [gc EXCEPT !.new = {TableOf(1, gc.recs)}]
      /\ UNCHANGED <<mutable, immutables, log, lastVisible, life, flushPc, flushMem, flushTable,
                     compPc, compTables, compDrop, compNew>>
  BY DEF GcWrite
<1>2. /\ gc \in Collection /\ gc.recs \in [Keys -> Record] /\ manifest \in Manifest /\ BlobTypes
      /\ gc.new = {}
  BY <1>1, GcRecsFields DEF TypeInv, PhaseInv
<1>3. SameTables
  <2>1. CASE WriteTable(gc.recs)
    <3>1. PICK n \in Nat : IdsTaken(n)
      BY <1>2, <2>1, WriteEffect
    <3> QED BY <1>1, <1>2, <3>1, IdsTakenFields DEF SameTables
  <2>2. CASE manifest' = manifest
    BY <2>2 DEF SameTables
  <2> QED BY <1>1, <2>1, <2>2
<1>4. LogInv' /\ MemInv' /\ ServesInv'
  BY <1>1, <1>3, ContentsSame DEF CInv, Contents
<1> QED BY <1>4 DEF Contents

\* The collected manifest, when nothing moved: all tables are replaced.
LEMMA CollectedTables ==
    ASSUME TypeInv, FileInv, CollectInv, gcPc = "commit", GcStable
    PROVE  /\ life = "open" /\ compPc = "idle" /\ immutables = <<>> /\ IsEmptyMem(mutable)
           /\ Collected \in Manifest /\ manifest.tables \in SUBSET Table /\ gc.new \in SUBSET Table
           /\ Collected.maxSequence = manifest.maxSequence
           /\ Collected.tables = (manifest.tables \ manifest.tables) \cup gc.new
           /\ Rewritable(manifest.tables, manifest.tables \ manifest.tables, TRUE)
           /\ Rewrites(gc.new, Merged(manifest.tables, TRUE), manifest.tables \ manifest.tables)
<1>1. life = "open" /\ compPc = "idle" /\ immutables = <<>> /\ IsEmptyMem(mutable)
  BY DEF GcStable, GcMayRun
<1>2. gc.tables = manifest.tables
  BY StableFacts
<1>3. gc.new \in SUBSET Table /\ manifest \in Manifest /\ manifest.tables \in SUBSET Table
  BY GcRecsFields, ManifestFields
<1>4. /\ Collected \in Manifest /\ Collected.maxSequence = manifest.maxSequence
      /\ Collected.tables = (manifest.tables \ manifest.tables) \cup gc.new
  BY <1>2, <1>3, ReplacedFields
<1> DEFINE none == manifest.tables \ manifest.tables
<1>5. none = {}
  OBVIOUS
<1>6. Rewritable(manifest.tables, none, TRUE)
  BY <1>5 DEF Rewritable
<1>7. Rewrites(gc.new, Merged(manifest.tables, TRUE), none)
  <2> DEFINE R == Merged(manifest.tables, TRUE)
  <2>1. SameRecs(gc.recs, R) /\ Rewrites(gc.new, gc.recs, {})
    BY <1>2 DEF CollectInv
  <2> HIDE DEF R
  <2>2. ASSUME gc.new = {}, \A k \in Keys : gc.recs[k].seq = 0
        PROVE  Rewrites(gc.new, R, none)
    BY <2>1, <2>2 DEF Rewrites, SameRecs
  <2>3. ASSUME NEW t \in gc.new, gc.new = {t}, t.level = 1, SameRecs(t.recs, gc.recs)
        PROVE  Rewrites(gc.new, R, none)
    <3>1. SameRecs(t.recs, R)
      BY <2>1, <2>3, SameSame
    <3> QED BY <1>5, <2>3, <3>1 DEF Rewrites
  <2>4. Rewrites(gc.new, R, none)
    BY <2>1, <2>2, <2>3 DEF Rewrites
  <2> QED BY <2>4 DEF R
<1> QED BY <1>1, <1>3, <1>4, <1>6, <1>7

\* It serves what the manifest served.
LEMMA CollectedServes ==
    ASSUME TypeInv, FileInv, CInv, gcPc = "commit", GcStable
    PROVE  /\ life = "open" /\ compPc = "idle" /\ immutables = <<>> /\ Collected \in Manifest
           /\ Collected.maxSequence = manifest.maxSequence
           /\ Collected.maxSequence <= lastVisible
           /\ Serves(log, Collected.tables, Collected.maxSequence)
<1> DEFINE none == manifest.tables \ manifest.tables
<1>1. /\ life = "open" /\ compPc = "idle" /\ immutables = <<>>
      /\ Collected \in Manifest /\ manifest.tables \in SUBSET Table /\ gc.new \in SUBSET Table
      /\ Collected.maxSequence = manifest.maxSequence
      /\ Collected.tables = none \cup gc.new
      /\ Rewritable(manifest.tables, none, TRUE)
      /\ Rewrites(gc.new, Merged(manifest.tables, TRUE), none)
  BY CollectedTables DEF CInv, JobsInv
<1>2. /\ manifest.maxSequence \in Nat /\ log \in SUBSET Operation /\ OneEach(log)
      /\ \A t \in manifest.tables : TableRecsOK(t.recs)
      /\ manifest.maxSequence <= lastVisible
  BY <1>1, Positions DEF CInv, Contents, LogInv, TypeInv, RecsInv, Live
<1>3. Serves(log, manifest.tables, manifest.maxSequence)
  BY <1>1 DEF CInv, Contents, ServesInv
<1>4. Serves(log, none \cup gc.new, manifest.maxSequence)
  BY <1>1, <1>2, <1>3, ServesMerged
<1> HIDE DEF none
<1> QED BY <1>1, <1>2, <1>4

\* A collection commits or gives up.
LEMMA GcCommitContents ==
    ASSUME TypeInv, FileInv, CInv, GcCommit
    PROVE  Contents'
<1>1. /\ gcPc = "commit" /\ gcPc' = "idle"
      /\ \/ GcStable /\ Persist(Collected)
         \/ disk' = disk /\ manifest' = manifest
      /\ UNCHANGED <<mutable, immutables, log, lastVisible, life, flushPc, flushMem, flushTable,
                     compPc, compTables, compDrop, compNew>>
  BY DEF GcCommit, GcEnds
<1>3. CASE GcStable /\ Persist(Collected)
  <2>1. /\ life = "open" /\ compPc = "idle" /\ immutables = <<>> /\ Collected \in Manifest
        /\ Collected.maxSequence = manifest.maxSequence
        /\ Serves(log, Collected.tables, Collected.maxSequence)
    BY <1>1, <1>3, CollectedServes
  <2>2. /\ disk' = Collected /\ manifest'.tables = Collected.tables
        /\ manifest'.maxSequence = Collected.maxSequence
    BY <1>3, <2>1, PersistEffect, PersistedFields
  <2>3. LogInv' /\ MemInv' /\ ServesInv'
    BY <1>1, <2>1, <2>2, ContentsInstalled DEF CInv, Contents
  <2> QED BY <2>3 DEF Contents
<1>4. CASE disk' = disk /\ manifest' = manifest
  <2>1. LogInv' /\ MemInv' /\ ServesInv'
    BY <1>1, <1>4, ContentsSame DEF CInv, Contents, SameTables
  <2> QED BY <2>1 DEF Contents
<1> QED BY <1>1, <1>3, <1>4

\* A collection fails.
LEMMA GcFailsContents ==
    ASSUME TypeInv, FileInv, CInv, GcFails
    PROVE  Contents'
<1>1. /\ \/ gcPc = "write" /\ WriteTableFails(gc.recs, {}) /\ disk' = disk
         \/ gcPc = "commit" /\ GcStable /\ PersistFails(Collected)
      /\ gcPc' = "idle"
      /\ UNCHANGED <<mutable, immutables, log, lastVisible, life, flushPc, flushMem, flushTable,
                     compPc, compTables, compDrop, compNew>>
  BY DEF GcFails, GcEnds
<1>2. SameTables /\ LogInv' /\ MemInv' /\ ServesInv'
  <2>1. CASE gcPc = "write" /\ WriteTableFails(gc.recs, {}) /\ disk' = disk
    <3>1. manifest \in Manifest /\ BlobTypes /\ gc.recs \in [Keys -> Record]
      BY GcRecsFields
    <3>2. PICK n \in Nat : IdsTaken(n)
      BY <2>1, <3>1, WriteFailsEffect
    <3>3. SameTables
      BY <2>1, <3>1, <3>2, IdsTakenFields DEF SameTables
    <3> QED BY <1>1, <2>1, <3>3, ContentsSame DEF CInv, Contents
  <2>2. CASE gcPc = "commit" /\ GcStable /\ PersistFails(Collected)
    <3>1. /\ Serves(log, Collected.tables, Collected.maxSequence)
          /\ Collected.maxSequence <= lastVisible
      BY <2>2, CollectedServes
    <3>2. manifest' = manifest /\ (disk' = disk \/ disk' = Collected)
      BY <2>2, PersistEffect DEF NotPersisted
    <3> QED BY <1>1, <3>1, <3>2, ContentsNotInstalled DEF CInv, Contents, SameTables
  <2> QED BY <1>1, <2>1, <2>2
<1> QED BY <1>2 DEF Contents

-----------------------------------------------------------------------------
(* A crash, and open().                                                    *)

\* What is on disk and in the journal stays.
LEMMA CrashContents ==
    ASSUME CInv, Crash
    PROVE  Contents'
<1>1. /\ life' = "closed" /\ flushPc' = "idle" /\ compPc' = "idle" /\ compTables' = {}
      /\ gcPc' = "idle" /\ disk' = disk /\ log' = log
  BY DEF Crash, ForgetState, CompEnds, GcEnds
<1>2. LogInv' /\ MemInv' /\ ServesInv'
  BY <1>1 DEF CInv, Contents, LogInv, MemInv, ServesInv
<1> QED BY <1>2 DEF Contents

\* Replay gives the memtable the sequences that the tables do not have.
LEMMA OpenContents ==
    ASSUME TypeInv, IdsInv, CInv, Open
    PROVE  Contents'
<1>1. PICK top \in Nat :
         /\ life = "closed" /\ life' = "open" /\ manifest' = disk /\ disk' = disk
         /\ mutable'.recs = ReplayedRecs
         /\ mutable'.maxSeq = IF Replayed = {} THEN 0 ELSE top
         /\ disk.maxSequence <= top /\ \A op \in Replayed : op.seq <= top
         /\ lastVisible' = top
         /\ \/ compPc' = compPc /\ compTables' = compTables
            \/ compPc' = "queued" /\ compTables' = MergeSet(disk.tables)
         /\ UNCHANGED <<immutables, log, flushPc, flushMem, flushTable, compDrop, compNew, gcPc, gc>>
  BY OpenEffect
<1>2. /\ immutables = <<>> /\ flushPc = "idle" /\ compPc = "idle" /\ compTables = {}
      /\ gcPc = "idle"
  BY <1>1 DEF TypeInv, PhaseInv
<1>3. disk.maxSequence \in Nat /\ \A op \in log : op.seq \in Nat
  BY Positions
<1>4. LogInv'
  <2>1. \A op \in log : op.seq <= top
    BY <1>1, <1>3 DEF Replayed
  <2> QED BY <1>1, <2>1 DEF CInv, Contents, LogInv
<1>5. Covers(log, ReplayedRecs, disk.maxSequence, top)
  <2> SUFFICES ASSUME NEW k \in Keys
               PROVE  LET r == ReplayedRecs[k] IN
                      /\ Genuine(log, r, k)
                      /\ r.seq # 0 => disk.maxSequence < r.seq /\ r.seq <= top
                      /\ \A op \in log : op.key = k /\ disk.maxSequence < op.seq /\ op.seq <= top
                                            => op.seq <= r.seq
    BY DEF Covers
  <2>1. \A op \in log : disk.maxSequence < op.seq => op \in Replayed
    BY <1>3 DEF Replayed
  <2>2. CASE ReplayedRecs[k] = NoRecord /\ \A op \in Replayed : op.key # k
    BY <2>1, <2>2, EmptyTypes DEF Genuine
  <2>3. ASSUME NEW op \in Replayed, op.key = k, ReplayedRecs[k] = RecordOf(op),
               \A o \in Replayed : o.key = k => o.seq <= op.seq
        PROVE  LET r == ReplayedRecs[k] IN
               /\ Genuine(log, r, k)
               /\ r.seq # 0 => disk.maxSequence < r.seq /\ r.seq <= top
               /\ \A o \in log : o.key = k /\ disk.maxSequence < o.seq /\ o.seq <= top
                                    => o.seq <= r.seq
    <3>1. op \in log /\ op \in Operation /\ op.seq > disk.maxSequence /\ op.seq <= top
      BY <1>1, Positions DEF Replayed
    <3>2. /\ RecordOf(op).seq = op.seq
          /\ RecordOf(op).del <=> op.kind = "erase"
          /\ RecordOf(op).big <=> op.kind = "blob"
      BY <3>1, OperationFields
    <3>3. Genuine(log, RecordOf(op), k)
      BY <2>3, <3>1, <3>2 DEF Genuine
    <3>4. disk.maxSequence < RecordOf(op).seq /\ RecordOf(op).seq <= top
      BY <1>3, <3>1, <3>2
    <3>5. \A o \in log : o.key = k /\ disk.maxSequence < o.seq => o.seq <= RecordOf(op).seq
      BY <2>1, <2>3, <3>2
    <3> QED BY <2>3, <3>3, <3>4, <3>5
  <2> QED BY <2>2, <2>3, ReplayedNewest
<1>6. MemInv'
  <2>1. Len(immutables') = 0
    BY <1>1, <1>2
  <2>2. Base(1)' = disk.maxSequence
    BY <1>1 DEF Base
  <2>3. mutable'.maxSeq <= lastVisible'
    BY <1>1
  <2>4. Len(immutables') + 1 = 1 /\ \A i \in 1..Len(immutables') : FALSE
    BY <2>1
  <2> QED BY <1>1, <1>5, <2>2, <2>3, <2>4 DEF MemInv
<1>7. ServesInv'
  BY <1>1 DEF CInv, Contents, ServesInv
<1> QED BY <1>4, <1>6, <1>7 DEF Contents

-----------------------------------------------------------------------------
(* Every step keeps the invariant about contents.                          *)

\* The empty database has empty contents.
LEMMA InitContents == Init => CInv
<1> SUFFICES ASSUME Init PROVE CInv
  OBVIOUS
<1>1. /\ log = {} /\ disk = NewManifest /\ life = "closed" /\ flushPc = "idle" /\ compPc = "idle"
      /\ compTables = {} /\ gcPc = "idle"
  BY DEF Init
<1>2. disk.tables = {}
  BY <1>1 DEF NewManifest
<1>3. LogInv /\ MemInv
  BY <1>1 DEF LogInv, MemInv, OneEach
<1>4. ServesInv
  BY <1>1, <1>2 DEF ServesInv, Serves, Sound, Sorted, Erased
<1>5. FlushInv /\ CollectInv
  BY <1>1 DEF FlushInv, CollectInv
<1>6. CompInv
  BY <1>1 DEF CompInv, Rewritable
<1> QED BY <1>3, <1>4, <1>5, <1>6 DEF CInv, Contents, JobsInv

\* What memtables and tables have of the journal stays what they should have.
LEMMA ContentKept ==
    ASSUME IInv, CInv, WritesInOrder, [Next]_vars
    PROVE  CInv'
<1>1. TypeInv /\ IdsInv /\ FileInv
  BY DEF IInv, FileInv
<1>0. JobsInv'
  BY JobsKept DEF CInv
<1> SUFFICES Contents'
  BY <1>0 DEF CInv
<1>2. CASE \E w \in Writers, k \in Keys, kind \in Kinds : BeginWrite(w, k, kind)
  BY <1>2, QuietContents
<1>3. CASE \E w \in Writers : ApplyWrite(w)
  BY <1>1, <1>3, ApplyWriteContents
<1>4. CASE FlushStep
  BY <1>1, <1>4, FlushPickContents, FlushWriteContents, FlushInstallContents,
     FlushFailsContents, FlushRemoveContents DEF FlushStep
<1>5. CASE CompStep
  BY <1>1, <1>5, CompStartContents, CompMergeContents, CompInstallContents,
     CompFailsContents DEF CompStep
<1>6. CASE GcStep
  BY <1>1, <1>6, GcReadContents, GcWriteContents, GcCommitContents, GcFailsContents DEF GcStep
<1>7. CASE TailStep \/ UNCHANGED vars
  BY <1>7, QuietContents
<1>8. CASE Crash
  BY <1>8, CrashContents
<1>9. CASE Open
  BY <1>1, <1>9, OpenContents
<1> QED BY <1>2, <1>3, <1>4, <1>5, <1>6, <1>7, <1>8, <1>9 DEF Next

\* So it is in every behaviour whose writes are applied in order.
LEMMA ContentAlways == Spec /\ []WritesInOrder => []CInv
<1>1. Init => CInv
  BY InitContents
<1>2. IInv /\ CInv /\ WritesInOrder /\ [Next]_vars => CInv'
  BY ContentKept
<1> QED BY <1>1, <1>2, InvAlways, PTL DEF Spec
-----------------------------------------------------------------------------
(* The refinement.                                                         *)

\* What the newest of some operations on k left.
NewestIn(ops, k) ==
    LET of_k == {op \in ops : op.key = k}
    IN  IF of_k = {} THEN 0
        ELSE LET top == CHOOSE op \in of_k : \A o \in of_k : o.seq <= op.seq
             IN  IF top.kind = "erase" THEN 0 ELSE top.seq

\* A later operation is the newest of its key, and of no other.
LEMMA NewestAdded ==
    ASSUME NEW ops \in SUBSET Operation, NEW op \in Operation, \A o \in ops : o.seq < op.seq
    PROVE  /\ NewestIn(ops \cup {op}, op.key) = IF op.kind = "erase" THEN 0 ELSE op.seq
           /\ \A k \in Keys : k # op.key => NewestIn(ops \cup {op}, k) = NewestIn(ops, k)
<1> DEFINE all(k) == {o \in ops \cup {op} : o.key = k}
           top == CHOOSE t \in all(op.key) : \A o \in all(op.key) : o.seq <= t.seq
<1>1. NewestIn(ops \cup {op}, op.key) = IF top.kind = "erase" THEN 0 ELSE top.seq
  BY DEF NewestIn
<1>2. op.seq \in Nat /\ \A o \in ops : o.seq \in Nat
  BY OperationFields
<1>3. op \in all(op.key) /\ \A o \in all(op.key) : o.seq <= op.seq
  BY <1>2
<1>4. top \in all(op.key) /\ op.seq <= top.seq
  <2> HIDE DEF all
  <2>1. top \in all(op.key) /\ \A o \in all(op.key) : o.seq <= top.seq
    BY <1>3
  <2> QED BY <1>3, <2>1
<1> HIDE DEF top
<1>5. top = op
  BY <1>2, <1>4
<1>6. ASSUME NEW k \in Keys, k # op.key
      PROVE  NewestIn(ops \cup {op}, k) = NewestIn(ops, k)
  <2> DEFINE of_k == {o \in ops : o.key = k}
             more == {o \in ops \cup {op} : o.key = k}
  <2>1. more = of_k
    BY <1>6
  <2>2. NewestIn(ops, k) =
           IF of_k = {} THEN 0
           ELSE LET t == CHOOSE p \in of_k : \A o \in of_k : o.seq <= p.seq
                IN  IF t.kind = "erase" THEN 0 ELSE t.seq
    BY DEF NewestIn
  <2>3. NewestIn(ops \cup {op}, k) =
           IF more = {} THEN 0
           ELSE LET t == CHOOSE p \in more : \A o \in more : o.seq <= p.seq
                IN  IF t.kind = "erase" THEN 0 ELSE t.seq
    BY DEF NewestIn
  <2> HIDE DEF of_k, more
  <2> QED BY <2>1, <2>2, <2>3
<1> QED BY <1>1, <1>5, <1>6

\* Readers see what was written.
StoreInv == Store = [k \in Keys |-> NewestWrite(k)]

\* So the invariants say.
LEMMA StoreAnswers == IInv /\ FilesInv /\ CInv => StoreInv
<1> SUFFICES ASSUME IInv, FilesInv, CInv PROVE StoreInv
  OBVIOUS
<1>1. TypeInv /\ IdsInv
  BY DEF IInv, FileInv
<1>2. \A k \in Keys : life = "open" => Answer(Lookup(k)) = NewestWrite(k)
  BY <1>1, LookupAnswers
<1>3. \A k \in Keys : Recovered(k) = NewestWrite(k)
  BY <1>1, RecoveredAnswers
<1> QED BY <1>2, <1>3 DEF StoreInv, Store

\* Only writes add to the journal.
LEMMA JournalChanges ==
    ASSUME [Next]_vars
    PROVE  log' = log \/ \E w \in Writers : ApplyWrite(w)
<1>1. CASE UNCHANGED vars
  BY <1>1 DEF vars
<1>2. ASSUME NEW w \in Writers, NEW k \in Keys, NEW kind \in Kinds, BeginWrite(w, k, kind)
      PROVE  log' = log
  BY <1>2 DEF BeginWrite
<1>3. CASE FlushStep
  BY <1>3 DEF FlushStep, FlushPick, FlushWrite, FlushInstall, FlushFails, FlushRemove
<1>4. CASE CompStep
  BY <1>4 DEF CompStep, CompStart, CompMerge, CompInstall, CompFails
<1>5. CASE GcStep
  BY <1>5 DEF GcStep, GcStart, GcList, GcWrite, GcCommit, GcFails
<1>6. ASSUME NEW job \in tails, DeleteFiles(job)
      PROVE  log' = log
  BY <1>6 DEF DeleteFiles
<1>7. CASE Crash
  BY <1>7 DEF Crash
<1>8. CASE Open
  BY <1>8 DEF Open
<1> QED BY <1>1, <1>2, <1>3, <1>4, <1>5, <1>6, <1>7, <1>8 DEF Next, TailStep

\* A step is a write of the map, or changes nothing that a reader sees.
LEMMA KvStep ==
    ASSUME IInv, CInv, WritesInOrder, StoreInv, StoreInv', [Next]_vars
    PROVE  [Kv!Next]_<<Store, LastWrite>>
<1>1. /\ \A k \in Keys : NewestWrite(k) = NewestIn(log, k)
      /\ \A k \in Keys : NewestWrite(k)' = NewestIn(log', k)
  BY DEF NewestWrite, NewestIn
<1>2. Store = [k \in Keys |-> NewestIn(log, k)] /\ Store' = [k \in Keys |-> NewestIn(log', k)]
  BY <1>1 DEF StoreInv
<1>3. CASE log' = log
  BY <1>2, <1>3 DEF LastWrite
<1>4. ASSUME NEW w \in Writers, ApplyWrite(w) PROVE Kv!Next
  <2> DEFINE op == req[w]
             seqs == {0} \cup {o.seq : o \in log}
  <2>1. /\ log' = log \cup {op} /\ pc[w] = "encode" /\ life = "open"
        /\ log \in SUBSET Operation /\ op \in Operation /\ lastVisible \in Nat
    BY <1>4 DEF ApplyWrite, IInv, TypeInv, TypeOK
  <2>2. op.seq \in Nat /\ op.key \in Keys /\ \A o \in log : o.seq \in Nat
    BY <2>1, OperationFields
  <2>3. lastVisible < op.seq /\ \A o \in log : o.seq <= lastVisible
    BY <2>1 DEF WritesInOrder, CInv, Contents, LogInv
  <2>4. \A o \in log : o.seq < op.seq
    BY <2>1, <2>2, <2>3
  <2> HIDE DEF op
  <2>5. Max(seqs) \in seqs /\ Max(seqs) < op.seq
    <3>1. seqs \in SUBSET Nat /\ seqs # {} /\ \A x \in seqs : x <= lastVisible
      BY <2>1, <2>2, <2>3
    <3>2. Max(seqs) \in seqs
      BY <2>1, <3>1, BoundedMax
    <3> HIDE DEF seqs
    <3>3. Max(seqs) \in Nat /\ Max(seqs) <= lastVisible
      BY <3>1, <3>2
    <3> QED BY <2>1, <2>2, <2>3, <3>2, <3>3
  <2>6. Max(seqs \cup {op.seq}) = op.seq
    <3> DEFINE new == seqs \cup {op.seq}
    <3>1. new \in SUBSET Nat /\ new # {} /\ \A x \in new : x <= op.seq
      BY <2>1, <2>2, <2>4
    <3>2. Max(new) \in new /\ \A y \in new : Max(new) >= y
      <4> HIDE DEF new
      <4> QED BY <2>2, <3>1, BoundedMax
    <3>3. op.seq \in new
      OBVIOUS
    <3> HIDE DEF new
    <3>4. Max(new) <= op.seq /\ Max(new) >= op.seq /\ Max(new) \in Nat
      BY <3>1, <3>2, <3>3
    <3>5. Max(new) = op.seq
      BY <2>2, <3>4
    <3> QED BY <3>5 DEF new
  <2>7. LastWrite' = op.seq /\ op.seq > LastWrite
    <3>1. {0} \cup {o.seq : o \in log'} = seqs \cup {op.seq}
      BY <2>1
    <3>2. LastWrite' = Max({0} \cup {o.seq : o \in log'}) /\ LastWrite = Max(seqs)
      BY DEF LastWrite
    <3>3. Max(seqs) \in Nat
      BY <2>2, <2>5
    <3> HIDE DEF seqs
    <3> QED BY <2>2, <2>5, <2>6, <3>1, <3>2, <3>3
  <2>8. /\ NewestIn(log', op.key) = IF op.kind = "erase" THEN 0 ELSE op.seq
        /\ \A k \in Keys : k # op.key => NewestIn(log', k) = NewestIn(log, k)
    BY <2>1, <2>4, NewestAdded
  <2>9. Store' = [Store EXCEPT ![op.key] = Store'[op.key]] /\ Store'[op.key] \in {0, op.seq}
    <3>1. \A k \in Keys : Store[k] = NewestIn(log, k) /\ Store'[k] = NewestIn(log', k)
      BY <1>2
    <3>2. Store' = [k \in Keys |-> Store'[k]] /\ Store = [k \in Keys |-> Store[k]]
      BY <1>2
    <3> QED BY <2>2, <2>8, <3>1, <3>2
  <2>10. Kv!Write(op.key, LastWrite', Store'[op.key])
    BY <2>7, <2>9 DEF Kv!Write
  <2> QED BY <2>2, <2>10 DEF Kv!Next
<1> QED BY <1>3, <1>4, JournalChanges

\* The empty database is the empty map.
LEMMA KvInit == Init /\ StoreInv => Kv!Init
<1> SUFFICES ASSUME Init, StoreInv PROVE Kv!Init
  OBVIOUS
<1>1. log = {}
  BY DEF Init
<1>2. \A k \in Keys : NewestWrite(k) = 0
  BY <1>1 DEF NewestWrite
<1>3. LastWrite = 0
  <2>1. LastWrite = Max({0})
    <3>1. {0} \cup {op.seq : op \in log} = {0}
      BY <1>1
    <3> QED BY <3>1 DEF LastWrite
  <2>2. Max({0}) \in {0}
    BY BoundedMax
  <2> QED BY <2>1, <2>2
<1> QED BY <1>2, <1>3 DEF Kv!Init, StoreInv

\* As long as writes are applied in the order of their sequences, and no job deletes a
\* blob file whose id will be handed out again, the database is the map of KvStore: only
\* a write changes what readers find, and it changes its own key only.  A flush, a
\* compaction, a blob collection, the failure of any of them at any I/O call, a crash and
\* the replay of open() move records between journal, memtables and tables, and change
\* no answer, neither now nor after the next open().
THEOREM KvRefinement == Spec /\ []WritesInOrder /\ []DeletesOldBlobs => RefinesKvStore
<1>1. Init /\ StoreInv => Kv!Init
  BY KvInit
<1>2. IInv /\ CInv /\ WritesInOrder /\ StoreInv /\ StoreInv' /\ [Next]_vars
      => [Kv!Next]_<<Store, LastWrite>>
  BY KvStep
<1>3. IInv /\ FilesInv /\ CInv => StoreInv
  BY StoreAnswers
<1> QED BY <1>1, <1>2, <1>3, InvAlways, FilesAlways, ContentAlways, PTL DEF Spec, RefinesKvStore, Kv!Spec

-----------------------------------------------------------------------------
(* One writer keeps its writes in order.                                   *)

\* The sequence of a write under way is the newest one handed out.
SeqInv == /\ life = "open" => lastVisible < nextSequence
          /\ \A w \in Writers : pc[w] = "encode" =>
                lastVisible < req[w].seq /\ req[w].seq < nextSequence

\* It is, when no other writer can take a sequence before this one is applied.
LEMMA SeqKept ==
    ASSUME \A v, w \in Writers : v = w, IInv, SeqInv, [Next]_vars
    PROVE  SeqInv'
<1>1. /\ TypeInv /\ IdsInv /\ life \in {"open", "closed"}
      /\ nextSequence \in Nat /\ lastVisible \in Nat
      /\ pc \in [Writers -> {"idle", "encode"}] /\ req \in [Writers -> Operation]
      /\ \A w \in Writers : req[w].seq \in Nat
  BY OperationFields DEF IInv, FileInv, TypeInv, TypeOK, PhaseInv
<1>2. ASSUME NEW w \in Writers, NEW k \in Keys, NEW kind \in Kinds, BeginWrite(w, k, kind)
      PROVE  SeqInv'
  <2> DEFINE op == [seq |-> nextSequence, key |-> k, kind |-> kind]
  <2>1. /\ life = "open" /\ life' = life /\ lastVisible' = lastVisible
        /\ nextSequence' = nextSequence + 1 /\ req' = [req EXCEPT ![w] = op]
    BY <1>2 DEF BeginWrite
  <2>2. op.seq = nextSequence
    OBVIOUS
  <2> HIDE DEF op
  <2>3. \A v \in Writers : req'[v].seq = nextSequence
    BY <1>1, <2>1, <2>2
  <2>4. lastVisible < nextSequence /\ nextSequence < nextSequence + 1
    BY <1>1, <2>1 DEF SeqInv
  <2>5. lastVisible < nextSequence + 1
    BY <1>1, <2>4
  <2> QED BY <2>1, <2>3, <2>4, <2>5 DEF SeqInv
<1>3. ASSUME NEW w \in Writers, ApplyWrite(w)
      PROVE  SeqInv'
  <2>1. /\ pc[w] = "encode" /\ life = "open" /\ life' = life /\ nextSequence' = nextSequence
        /\ lastVisible' = Max({lastVisible, req[w].seq}) /\ pc' = [pc EXCEPT ![w] = "idle"]
    BY <1>3 DEF ApplyWrite
  <2>2. lastVisible' \in {lastVisible, req[w].seq}
    BY <1>1, <2>1, PairBounds
  <2>3. lastVisible < nextSequence /\ req[w].seq < nextSequence
    BY <2>1 DEF SeqInv
  <2>4. \A v \in Writers : pc'[v] # "encode"
    BY <1>1, <2>1
  <2> QED BY <2>1, <2>2, <2>3, <2>4 DEF SeqInv
<1>4. CASE FlushStep \/ CompStep \/ GcStep \/ TailStep \/ UNCHANGED vars
  <2>1. UNCHANGED <<life, nextSequence, lastVisible, pc, req>>
    <3>1. CASE FlushStep
      BY <3>1 DEF FlushStep, FlushPick, FlushWrite, FlushInstall, FlushFails, FlushRemove
    <3>2. CASE CompStep
      BY <3>2 DEF CompStep, CompStart, CompMerge, CompInstall, CompFails
    <3>3. CASE GcStep
      BY <3>3 DEF GcStep, GcStart, GcList, GcWrite, GcCommit, GcFails
    <3>4. CASE TailStep
      BY <3>4 DEF TailStep, DeleteFiles
    <3>5. CASE UNCHANGED vars
      BY <3>5 DEF vars
    <3> QED BY <1>4, <3>1, <3>2, <3>3, <3>4, <3>5
  <2> QED BY <2>1 DEF SeqInv
<1>5. CASE Crash
  <2>1. life' = "closed" /\ pc' = [w \in Writers |-> "idle"]
    BY <1>5 DEF Crash, ForgetState
  <2>2. \A w \in Writers : pc'[w] # "encode"
    BY <2>1
  <2> QED BY <2>1, <2>2 DEF SeqInv
<1>6. CASE Open
  <2>1. PICK top \in Nat : lastVisible' = top /\ nextSequence' = top + 1
    BY <1>1, <1>6, OpenEffect
  <2>2. life = "closed" /\ pc' = pc
    BY <1>6 DEF Open
  <2>3. \A w \in Writers : pc'[w] # "encode"
    BY <1>1, <2>2 DEF TypeInv, PhaseInv
  <2>4. lastVisible' < nextSequence'
    BY <2>1
  <2> QED BY <2>3, <2>4 DEF SeqInv
<1> QED BY <1>2, <1>3, <1>4, <1>5, <1>6 DEF Next

\* So it applies them in order.
LEMMA OrderAlways == ASSUME \A v, w \in Writers : v = w PROVE Spec => []WritesInOrder
<1>1. Init => SeqInv
  <2> SUFFICES ASSUME Init PROVE SeqInv
    OBVIOUS
  <2>1. life = "closed" /\ \A w \in Writers : pc[w] # "encode"
    BY DEF Init
  <2> QED BY <2>1 DEF SeqInv
<1>2. IInv /\ SeqInv /\ [Next]_vars => SeqInv'
  BY SeqKept
<1>3. SeqInv => WritesInOrder
  BY DEF SeqInv, WritesInOrder
<1> QED BY <1>1, <1>2, <1>3, InvAlways, PTL DEF Spec

\* When no crash is allowed there is none.
LEMMA NoCrash == ASSUME MaxCrashes = 0 PROVE Spec => [](crashes = 0)
<1> DEFINE None == crashes = 0
<1>1. Init => None
  BY DEF Init
<1>2. None /\ [Next]_vars => None'
  <2> SUFFICES ASSUME crashes = 0, [Next]_vars PROVE crashes' = 0
    OBVIOUS
  <2>1. ~Crash
    BY DEF Crash
  <2>2. ASSUME NEW w \in Writers, NEW k \in Keys, NEW kind \in Kinds, BeginWrite(w, k, kind)
        PROVE  crashes' = crashes
    BY <2>2 DEF BeginWrite
  <2>3. ASSUME NEW w \in Writers, ApplyWrite(w) PROVE crashes' = crashes
    BY <2>3 DEF ApplyWrite
  <2>4. ASSUME NEW job \in tails, DeleteFiles(job) PROVE crashes' = crashes
    BY <2>4 DEF DeleteFiles
  <2>5. CASE Open
    BY <2>5 DEF Open
  <2>6. ASSUME FlushStep PROVE crashes' = crashes
    BY <2>6 DEF FlushStep, FlushPick, FlushWrite, FlushInstall, FlushFails, FlushRemove
  <2>7. ASSUME CompStep PROVE crashes' = crashes
    BY <2>7 DEF CompStep, CompStart, CompMerge, CompInstall, CompFails
  <2>8. ASSUME GcStep PROVE crashes' = crashes
    BY <2>8 DEF GcStep, GcStart, GcList, GcWrite, GcCommit, GcFails
  <2>9. CASE UNCHANGED vars
    BY <2>9 DEF vars
  <2> QED BY <2>1, <2>2, <2>3, <2>4, <2>5, <2>6, <2>7, <2>8, <2>9 DEF Next, TailStep
<1> QED BY <1>1, <1>2, PTL DEF Spec

\* A database with one writer whose values all stay in the tables is the map of KvStore,
\* however often its flushes and compactions fail, and its process dies and replays.
THEOREM KvInline ==
    ASSUME \A v, w \in Writers : v = w, "blob" \notin Kinds
    PROVE  Spec => RefinesKvStore
<1>1. Spec => []DeletesOldBlobs
  BY SmallOldBlobs
<1> QED BY <1>1, OrderAlways, KvRefinement, PTL

\* With values in blob files too it is that map in the life of one process, which
\* collects its blob files while it writes.
THEOREM KvOneLife ==
    ASSUME \A v, w \in Writers : v = w, MaxCrashes = 0
    PROVE  Spec => RefinesKvStore
<1>1. SafeUntilCrash /\ crashes = 0 => DeletesOldBlobs
  BY DEF SafeUntilCrash
<1> QED BY <1>1, NoCrash, OldAlways, OrderAlways, KvRefinement, PTL
=============================================================================
