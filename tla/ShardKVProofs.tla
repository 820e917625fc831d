---------------------------- MODULE ShardKVProofs ----------------------------
(***************************************************************************)
(* What a shard promises about its data: what an fsync has covered         *)
(* survives every fault, and a shard that is only killed is a KVStore.     *)
(***************************************************************************)
EXTENDS ShardKV, ShardProofs

(***************************************************************************)
(* Durability.  What synced says of a key is true of the index only while  *)
(* the process lives; through a crash it is the synced part of the files   *)
(* that carries it.  So the invariant says of each key where its last      *)
(* record is: the index agrees with it, and if nothing was written to the  *)
(* key since the last fsync it lies in the synced part of the journal and  *)
(* its value in the synced part of cool.log.                               *)
(***************************************************************************)
Last(k, i) ==
    /\ i \in 1..Len(backup) /\ backup[i].key = k
    /\ \A j \in 1..Len(backup) : backup[j].key = k => j <= i

\* The last record of k is a SET to location loc.
LastSet(k, loc) ==
    \E i \in 1..Len(backup) :
        Last(k, i) /\ backup[i].op = "set" /\ loc = [off |-> backup[i].off, exp |-> backup[i].exp]

TornSynced == \E i \in 1..backupSync : backup[i].op = "torn"

Durable(off, v) == off \in 1..coolSync /\ cool[off] = v /\ (off = coolSync => v # Junk)

KeyIndexed(k) ==
    pc # "down" /\ ~Torn /\ index[k] # None /\ ~HasExpiredRecord(k) => LastSet(k, index[k])

\* The record of k that an fsync has covered: none or a DEL, or its SET.
SyncedRecord(k) ==
    \/ /\ synced[k] = None
       /\ \A i \in 1..Len(backup) : Last(k, i) => backup[i].op = "del"
    \/ \E loc \in Loc, v \in Cell \ {None} :
          synced[k] = [val |-> v, exp |-> loc.exp] /\ LastSet(k, loc) /\ Durable(loc.off, v)

KeySynced(k) ==
    synced[k] # Unknown =>
        /\ \A i \in 1..Len(backup) : backup[i].key = k => i <= backupSync
        /\ ~TornSynced /\ ~HasExpiredRecord(k) => SyncedRecord(k)

KeyHeld(k) ==
    pc # "down" /\ ~Torn /\ synced[k] # Unknown /\ ~HasExpiredRecord(k) => Holds(k, synced[k])

CoolSynced == pc = "fsync" => coolSync = Len(cool)

DurInv == CoolSynced /\ \A k \in Keys : KeyIndexed(k) /\ KeySynced(k) /\ KeyHeld(k)

\* The journal has only grown, and not by a record of k.
QuietFor(k) ==
    /\ Len(backup) <= Len(backup') /\ \A i \in 1..Len(backup) : backup'[i] = backup[i]
    /\ \A i \in 1..Len(backup') : i > Len(backup) => backup'[i].key # k

\* What was synced is there, and no record of k is anywhere else.
SyncedKept(k) ==
    /\ backupSync <= backupSync' /\ backupSync <= Len(backup')
    /\ \A i \in 1..backupSync : backup'[i] = backup[i]
    /\ \A i \in 1..Len(backup') : backup'[i].key = k => i <= backupSync
    /\ coolSync <= coolSync' /\ coolSync <= Len(cool')
    /\ \A i \in 1..coolSync : cool'[i] = cool[i]

LEMMA IndexedStep ==
    ASSUME TypeOK, TypeOK', NEW k \in Keys, KeyIndexed(k), pc # "down", QuietFor(k), now <= now',
           index'[k] \in {None, index[k]}
    PROVE  KeyIndexed(k)'
<1> SUFFICES ASSUME ~Torn', index'[k] # None, ~HasExpiredRecord(k)'
             PROVE  LastSet(k, index[k])'
  BY DEF KeyIndexed
<1>0. Len(backup) \in Nat /\ Len(backup') \in Nat /\ now \in Nat /\ now' \in Nat
      /\ \A i \in 1..Len(backup) : backup[i] \in Record
  BY DiskBounds DEF TypeOK, WorkerTypeOK, DiskTypeOK
<1>1. \A i \in 1..Len(backup) : i \in 1..Len(backup') /\ backup'[i] = backup[i]
  BY <1>0 DEF QuietFor
<1>2. ~Torn
  BY <1>1 DEF Torn
<1>3. ~HasExpiredRecord(k)
  BY <1>0, <1>1 DEF HasExpiredRecord, Expired, Record
<1>4. PICK i \in 1..Len(backup) :
         /\ Last(k, i) /\ backup[i].op = "set"
         /\ index[k] = [off |-> backup[i].off, exp |-> backup[i].exp]
  BY <1>2, <1>3 DEF KeyIndexed, LastSet
<1>5. Last(k, i)'
  <2>1. ASSUME NEW j \in 1..Len(backup'), backup'[j].key = k PROVE j <= i
    BY <1>0, <1>1, <1>4, <2>1 DEF QuietFor, Last
  <2> QED
    BY <1>1, <1>4, <2>1 DEF Last
<1> QED
  BY <1>1, <1>4, <1>5 DEF LastSet

LEMMA SyncedStep ==
    ASSUME TypeOK, TypeOK', NEW k \in Keys, KeySynced(k), synced'[k] = synced[k],
           now <= now', synced[k] # Unknown => SyncedKept(k)
    PROVE  KeySynced(k)'
<1> SUFFICES ASSUME synced[k] # Unknown
             PROVE  /\ \A i \in 1..Len(backup') : backup'[i].key = k => i <= backupSync'
                    /\ ~TornSynced' /\ ~HasExpiredRecord(k)' => SyncedRecord(k)'
  BY DEF KeySynced
<1>0. /\ Len(backup) \in Nat /\ Len(backup') \in Nat /\ now \in Nat /\ now' \in Nat
      /\ Len(cool) \in Nat /\ coolSync \in 0..Len(cool) /\ backupSync \in 0..Len(backup)
      /\ \A i \in 1..Len(backup) : backup[i] \in Record
  BY DiskBounds DEF TypeOK, WorkerTypeOK
<1>00. coolSync' \in Nat /\ backupSync' \in Nat /\ Len(cool') \in Nat
  <2>1. DiskTypeOK'
    BY DEF TypeOK, WorkerTypeOK
  <2> QED
    BY <2>1, LenProperties DEF DiskTypeOK
<1>1. \A i \in 1..backupSync : i \in 1..backupSync' /\ i \in 1..Len(backup') /\ backup'[i] = backup[i]
  BY <1>0, <1>00 DEF SyncedKept
<1>2. /\ \A i \in 1..Len(backup) : backup[i].key = k => i \in 1..backupSync
      /\ \A i \in 1..Len(backup') : backup'[i].key = k => i \in 1..backupSync
  BY <1>0 DEF SyncedKept, KeySynced
<1>3. \A i \in 1..Len(backup') : backup'[i].key = k => i <= backupSync'
  <2>1. \A i \in 1..Len(backup') : backup'[i].key = k => i \in 1..backupSync'
    BY <1>1, <1>2
  <2> QED
    BY <1>00, <2>1
<1>4. ASSUME ~TornSynced', ~HasExpiredRecord(k)' PROVE SyncedRecord(k)'
  <2>1. ~TornSynced
    BY <1>1, <1>4 DEF TornSynced
  <2>2. ~HasExpiredRecord(k)
    BY <1>0, <1>1, <1>2, <1>4 DEF HasExpiredRecord, Expired, Record
  <2>3. \A i : Last(k, i)' <=> Last(k, i)
    <3> SUFFICES ASSUME NEW i PROVE Last(k, i)' <=> Last(k, i)
      OBVIOUS
    <3>1. ASSUME NEW j PROVE (j \in 1..Len(backup') /\ backup'[j].key = k)
                               <=> (j \in 1..Len(backup) /\ backup[j].key = k)
      BY <1>0, <1>1, <1>2
    <3> QED
      BY <3>1 DEF Last
  <2>4. \A loc : LastSet(k, loc) => LastSet(k, loc)'
    <3> SUFFICES ASSUME NEW loc, LastSet(k, loc) PROVE LastSet(k, loc)'
      OBVIOUS
    <3>1. PICK i \in 1..Len(backup) :
             Last(k, i) /\ backup[i].op = "set" /\ loc = [off |-> backup[i].off, exp |-> backup[i].exp]
      BY DEF LastSet
    <3>2. i \in 1..Len(backup') /\ backup'[i] = backup[i]
      BY <1>1, <1>2, <3>1 DEF Last
    <3> QED
      BY <2>3, <3>1, <3>2 DEF LastSet
  <2>5. \A off, v : Durable(off, v) => Durable(off, v)'
    BY <1>0, <1>00 DEF Durable, SyncedKept
  <2>6. SyncedRecord(k)
    BY <2>1, <2>2 DEF KeySynced
  <2>7. CASE synced[k] = None /\ \A i \in 1..Len(backup) : Last(k, i) => backup[i].op = "del"
    <3>1. \A i \in 1..Len(backup') : Last(k, i)' => backup'[i].op = "del"
      BY <1>1, <1>2, <2>3, <2>7 DEF Last
    <3> QED
      BY <2>7, <3>1 DEF SyncedRecord
  <2>8. CASE \E loc \in Loc, v \in Cell \ {None} :
                synced[k] = [val |-> v, exp |-> loc.exp] /\ LastSet(k, loc) /\ Durable(loc.off, v)
    BY <2>4, <2>5, <2>8 DEF SyncedRecord
  <2> QED
    BY <2>6, <2>7, <2>8 DEF SyncedRecord
<1> QED
  BY <1>3, <1>4

LEMMA HeldStep ==
    ASSUME TypeOK, TypeOK', NEW k \in Keys, KeySynced(k), KeyHeld(k), pc # "down",
           QuietFor(k), CoolGrows, now <= now', synced'[k] = synced[k],
           \/ index'[k] = index[k]
           \/ index'[k] = None /\ (index[k] # None => Expired(index[k].exp))
    PROVE  KeyHeld(k)'
<1> SUFFICES ASSUME ~Torn', synced[k] # Unknown, ~HasExpiredRecord(k)'
             PROVE  Holds(k, synced[k])'
  BY DEF KeyHeld, Holds
<1>0. /\ Len(backup) \in Nat /\ Len(backup') \in Nat /\ now \in Nat /\ now' \in Nat
      /\ backupSync \in 0..Len(backup) /\ DiskTypeOK /\ DiskTypeOK'
      /\ \A i \in 1..Len(backup) : backup[i] \in Record
  BY DiskBounds DEF TypeOK, WorkerTypeOK, DiskTypeOK
<1>1. \A i \in 1..Len(backup) : i \in 1..Len(backup') /\ backup'[i] = backup[i]
  BY <1>0 DEF QuietFor
<1>2. ~Torn
  BY <1>1 DEF Torn
<1>3. ~HasExpiredRecord(k)
  BY <1>0, <1>1 DEF HasExpiredRecord, Expired, Record
<1>4. Holds(k, synced[k])
  BY <1>2, <1>3 DEF KeyHeld
<1>5. SyncedRecord(k)
  <2>1. ~TornSynced
    BY <1>0, <1>2 DEF Torn, TornSynced
  <2> QED
    BY <1>3, <2>1 DEF KeySynced
<1>6. CASE synced[k] = None
  BY <1>4, <1>6 DEF Holds
<1>7. CASE synced[k] # None
  <2>1. Stored(k) = synced[k]
    BY <1>4, <1>7 DEF Holds
  <2>2. index[k] # None /\ synced[k] = [val |-> read_at(index[k].off), exp |-> index[k].exp]
    BY <1>7, <2>1 DEF Stored
  <2>3. PICK loc \in Loc, v \in Cell \ {None} :
           synced[k] = [val |-> v, exp |-> loc.exp] /\ LastSet(k, loc) /\ Durable(loc.off, v)
    BY <1>5, <1>7 DEF SyncedRecord
  <2>4. PICK off, e : off = index[k].off /\ e = index[k].exp
    OBVIOUS
  <2>5. read_at(off) = v /\ e = loc.exp
    BY <2>2, <2>3, <2>4
  <2>6. ~Expired(e)
    <3>1. PICK i \in 1..Len(backup) : backup[i].key = k /\ backup[i].exp = loc.exp
      BY <2>3 DEF LastSet, Last
    <3> QED
      BY <1>3, <2>5, <3>1 DEF HasExpiredRecord
  <2>7. index'[k] = index[k]
    BY <2>2, <2>4, <2>6
  <2>8. read_at(off)' = v
    BY <1>0, <2>3, <2>5, ReadStable
  <2>9. Stored(k)' = [val |-> v, exp |-> e]
    <3>1. Stored(k)' = [val |-> read_at(index[k].off)', exp |-> index'[k].exp]
      BY <2>2, <2>7 DEF Stored
    <3>2. read_at(index[k].off)' = read_at(off)'
      BY <2>4, <2>7 DEF read_at
    <3> QED
      BY <2>4, <2>7, <2>8, <3>1, <3>2
  <2>10. synced'[k] = [val |-> v, exp |-> e]
    BY <2>3, <2>5
  <2> QED
    BY <1>7, <2>9, <2>10 DEF Holds
<1> QED
  BY <1>6, <1>7

\* A step of a living process in which nothing is written to k.
LEMMA QuietStep ==
    ASSUME TypeOK, TypeOK', NEW k \in Keys, KeyIndexed(k), KeySynced(k), KeyHeld(k),
           pc # "down", QuietFor(k), CoolGrows, now <= now', synced'[k] = synced[k],
           coolSync <= coolSync', backupSync <= backupSync',
           \/ index'[k] = index[k]
           \/ index'[k] = None /\ (index[k] # None => Expired(index[k].exp))
    PROVE  KeyIndexed(k)' /\ KeySynced(k)' /\ KeyHeld(k)'
<1>1. KeyIndexed(k)'
  BY IndexedStep
<1>2. KeyHeld(k)'
  BY HeldStep
<1>3. KeySynced(k)'
  <2>1. ASSUME synced[k] # Unknown PROVE SyncedKept(k)
    <3>1. /\ Len(backup) \in Nat /\ Len(backup') \in Nat /\ Len(cool) \in Nat /\ Len(cool') \in Nat
          /\ coolSync \in 0..Len(cool) /\ backupSync \in 0..Len(backup)
      BY DiskBounds, LenProperties DEF TypeOK, WorkerTypeOK, DiskTypeOK
    <3>2. \A i \in 1..Len(backup) : backup[i].key = k => i <= backupSync
      BY <2>1 DEF KeySynced
    <3>3. ASSUME NEW i \in 1..Len(backup'), backup'[i].key = k PROVE i <= backupSync
      <4>1. i \in 1..Len(backup)
        BY <3>1, <3>3 DEF QuietFor
      <4> QED
        BY <3>2, <3>3, <4>1 DEF QuietFor
    <3>4. backupSync <= Len(backup') /\ \A i \in 1..backupSync : backup'[i] = backup[i]
      BY <3>1 DEF QuietFor
    <3>5. coolSync <= Len(cool') /\ \A i \in 1..coolSync : cool'[i] = cool[i]
      BY <3>1 DEF CoolGrows
    <3> QED
      BY <3>3, <3>4, <3>5 DEF SyncedKept
  <2> QED
    BY <2>1, SyncedStep
<1> QED
  BY <1>1, <1>2, <1>3

\* Without torn or expired records, replay ends with the last record of k.
LEMMA RebuiltLast ==
    ASSUME DiskTypeOK, NEW Q \in Readable, NEW k \in Keys, ~Torn, ~HasExpiredRecord(k)
    PROVE  \/ Rebuilt(Q)[k] = None /\ \A i \in 1..Len(backup) : backup[i].key # k
           \/ \E i \in 1..Len(backup) : Last(k, i) /\ Rebuilt(Q)[k] = LocOf(backup[i])
<1>1. Len(backup) \in Nat
  BY DiskBounds
<1>2. Whole = 1..Len(backup)
  BY DEF Whole, Torn
<1>3. BeforeTear = 1..Len(backup)
  BY <1>1, <1>2 DEF BeforeTear
<1>4. Q = 1..Len(backup)
  BY <1>2, <1>3 DEF Readable
<1>5. Applied(Q, k) = {i \in 1..Len(backup) : backup[i].key = k}
  BY <1>4 DEF Applied, HasExpiredRecord
<1>6. CASE Applied(Q, k) = {}
  BY <1>5, <1>6 DEF Rebuilt
<1>7. CASE Applied(Q, k) # {}
  <2>1. Applied(Q, k) \in SUBSET (1..Len(backup))
    BY <1>5
  <2>2. PICK i : i = Max(Applied(Q, k)) /\ i \in Applied(Q, k) /\ \A x \in Applied(Q, k) : x <= i
    BY <1>1, <1>7, <2>1, MaxIn
  <2>3. Rebuilt(Q)[k] = LocOf(backup[i])
    BY <1>7, <2>2 DEF Rebuilt
  <2>4. Last(k, i)
    BY <1>5, <2>2 DEF Last
  <2> QED
    BY <2>3, <2>4 DEF Last
<1> QED
  BY <1>6, <1>7

LEMMA LastUnique ==
    ASSUME DiskTypeOK, NEW k, NEW i, NEW j, Last(k, i), Last(k, j)
    PROVE  i = j
BY DiskBounds DEF Last

LEMMA WholeReadable == ASSUME DiskTypeOK PROVE Whole \in Readable
BY DEF Readable, BeforeTear, Whole

\* One record for key k is added, or none.
LEMMA AppendQuiet ==
    ASSUME DiskTypeOK, NEW k, NEW r \in Record, r.key = k,
           backup' \in {backup, Append(backup, r)}
    PROVE  /\ \A j : j # k => QuietFor(j)
           /\ backup' = backup => \A j : QuietFor(j)
           /\ backup' # backup => \E n \in 1..Len(backup') : Last(k, n)' /\ backup'[n] = r
<1>1. Len(backup) \in Nat /\ backup \in Seq(Record)
  BY DiskBounds DEF DiskTypeOK
<1>2. ASSUME backup' = backup PROVE \A j : QuietFor(j)
  BY <1>1, <1>2 DEF QuietFor
<1>3. ASSUME backup' = Append(backup, r)
      PROVE  /\ \A j : j # k => QuietFor(j)
             /\ \E n \in 1..Len(backup') : Last(k, n)' /\ backup'[n] = r
  <2>1. /\ Len(backup') = Len(backup) + 1 /\ backup'[Len(backup) + 1] = r
        /\ \A i \in 1..Len(backup) : backup'[i] = backup[i]
    BY <1>1, <1>3, AppendSeq
  <2>2. \A i \in 1..Len(backup') : i > Len(backup) => backup'[i] = r
    BY <1>1, <2>1
  <2>3. \A j : j # k => QuietFor(j)
    BY <1>1, <2>1, <2>2 DEF QuietFor
  <2>4. PICK n \in 1..Len(backup') : n = Len(backup') /\ backup'[n] = r
    BY <1>1, <2>1
  <2>5. Last(k, n)'
    BY <1>1, <2>1, <2>4 DEF Last
  <2> QED
    BY <2>3, <2>4, <2>5
<1> QED
  BY <1>2, <1>3

\* What a SET or DEL of k does to the invariant: the other keys are quiet, and
\* nothing is known to be synced of k.
LEMMA WriteDurable ==
    ASSUME TypeOK, TypeOK', DurInv, NEW k \in Keys, pc # "down", pc' = "batch", CoolGrows,
           now' = now, coolSync' = coolSync, backupSync' = backupSync,
           \A j \in Keys : j # k => QuietFor(j) /\ index'[j] = index[j],
           synced' = [synced EXCEPT ![k] = Unknown], KeyIndexed(k)'
    PROVE  DurInv'
<1>1. synced'[k] = Unknown /\ \A j \in Keys : j # k => synced'[j] = synced[j]
  BY DEF TypeOK
<1>2. KeySynced(k)' /\ KeyHeld(k)'
  BY <1>1 DEF KeySynced, KeyHeld
<1>3. now <= now' /\ coolSync <= coolSync' /\ backupSync <= backupSync'
  BY DiskBounds DEF TypeOK, WorkerTypeOK
<1>4. ASSUME NEW j \in Keys, j # k PROVE KeyIndexed(j)' /\ KeySynced(j)' /\ KeyHeld(j)'
  BY <1>1, <1>3, <1>4, QuietStep DEF DurInv
<1>5. CoolSynced'
  BY DEF CoolSynced
<1> QED
  BY <1>2, <1>4, <1>5 DEF DurInv

\* A step of a living process that writes nothing.
LEMMA NoWriteDurable ==
    ASSUME TypeOK, TypeOK', DurInv, pc # "down", cool' = cool, backup' = backup, now <= now',
           coolSync <= coolSync', backupSync <= backupSync', CoolSynced', synced' = synced,
           \A k \in Keys : \/ index'[k] = index[k]
                           \/ index'[k] = None /\ (index[k] # None => Expired(index[k].exp))
    PROVE  DurInv'
<1>1. CoolGrows /\ \A k \in Keys : QuietFor(k)
  BY DiskBounds DEF TypeOK, WorkerTypeOK, CoolGrows, QuietFor
<1>2. ASSUME NEW k \in Keys PROVE KeyIndexed(k)' /\ KeySynced(k)' /\ KeyHeld(k)'
  BY <1>1, QuietStep DEF DurInv
<1> QED
  BY <1>2 DEF DurInv

\* The fsync covers what the index holds, unless an append has failed.
LEMMA TickDurable ==
    ASSUME TypeOK, TypeOK', HeapExpires, DurInv, TickBackup
    PROVE  DurInv'
<1>0. /\ WorkerTypeOK /\ DiskTypeOK /\ Len(cool) \in Nat /\ Len(backup) \in Nat
      /\ index \in [Keys -> Loc \cup {None}] /\ now \in Nat
      /\ \A i \in 1..Len(backup) : backup[i] \in Record
  BY DiskBounds DEF TypeOK, WorkerTypeOK
<1>1. /\ cool' = cool /\ backup' = backup /\ now' = now /\ pc = "fsync" /\ pc' = "idle"
      /\ coolSync' = coolSync /\ backupSync' = Len(backup) /\ expire_due
      /\ synced' = [k \in Keys |-> IF Unjournaled(k) THEN Unknown ELSE Stored(k)]
  BY DEF TickBackup, sync_backup
<1>2. coolSync = Len(cool)
  BY <1>1 DEF DurInv, CoolSynced
<1>3. CoolSynced'
  BY <1>1 DEF CoolSynced
<1>4. SUFFICES ASSUME NEW k \in Keys PROVE KeyIndexed(k)' /\ KeySynced(k)' /\ KeyHeld(k)'
  BY <1>3 DEF DurInv
<1>5. \/ index'[k] = index[k]
      \/ index'[k] = None /\ index[k] # None /\ Expired(index[k].exp)
  BY <1>0, <1>1, SweptExpired
<1>6. KeyIndexed(k)'
  <2>1. QuietFor(k) /\ now <= now'
    BY <1>0, <1>1 DEF QuietFor
  <2> QED
    BY <1>1, <1>5, <2>1, IndexedStep DEF DurInv
<1>7. HasExpiredRecord(k)' = HasExpiredRecord(k) /\ Torn' = Torn /\ TornSynced' = Torn
  BY <1>1 DEF HasExpiredRecord, Expired, Torn, TornSynced
<1>8. \A i : Last(k, i)' = Last(k, i)
  BY <1>1 DEF Last
<1>9. \A i \in 1..Len(backup') : backup'[i].key = k => i <= backupSync'
  BY <1>0, <1>1
<1>10. SUFFICES ASSUME synced'[k] # Unknown, ~Torn, ~HasExpiredRecord(k)
                PROVE  SyncedRecord(k)' /\ Holds(k, synced[k])'
  BY <1>1, <1>6, <1>7, <1>9 DEF KeySynced, KeyHeld
<1>11. ~Unjournaled(k) /\ synced'[k] = Stored(k)
  BY <1>1, <1>10
<1>12. CASE index[k] = None
  <2>1. Rebuilt(Whole)[k] = None /\ synced'[k] = None /\ index'[k] = None
    BY <1>5, <1>11, <1>12 DEF Unjournaled, Stored
  <2>2. ASSUME NEW i \in 1..Len(backup), Last(k, i) PROVE backup[i].op = "del"
    <3>1. Rebuilt(Whole)[k] = LocOf(backup[i])
      BY <1>0, <1>10, <2>2, RebuiltLast, LastUnique, WholeReadable DEF Last
    <3>2. backup[i] \in Record /\ backup[i].op # "torn"
      BY <1>0, <1>10 DEF Torn
    <3>3. backup[i].op # "set"
      <4> SUFFICES ASSUME backup[i].op = "set" PROVE FALSE
        OBVIOUS
      <4>1. LocOf(backup[i]) \in Loc
        BY <3>2 DEF LocOf, Loc, Record
      <4> QED
        BY <2>1, <3>1, <4>1, WorkerAssumption
    <3> QED
      BY <3>2, <3>3 DEF Record
  <2>3. SyncedRecord(k)'
    BY <1>1, <1>8, <2>1, <2>2 DEF SyncedRecord
  <2> QED
    BY <2>1, <2>3 DEF Holds
<1>13. CASE index[k] # None
  <2>1. PICK loc \in Loc : loc = index[k]
    BY <1>0, <1>13
  <2>2. PICK v : v = read_at(loc.off)
    OBVIOUS
  <2>3. /\ v \in Cell \ {None} /\ loc.off \in 1..Len(cool) /\ cool[loc.off] = v
        /\ (loc.off = Len(cool) => v # Junk)
    BY <1>0, <1>11, <1>13, <2>1, <2>2, ReadAtType DEF Unjournaled, read_at
  <2>4. synced'[k] = [val |-> v, exp |-> loc.exp] /\ synced'[k] \in Entry
    BY <1>0, <1>11, <1>13, <2>1, <2>2, StoredType DEF Stored
  <2>5. LastSet(k, loc)
    BY <1>1, <1>10, <1>13, <2>1 DEF DurInv, KeyIndexed
  <2>6. LastSet(k, loc)'
    BY <1>1, <1>8, <2>5 DEF LastSet
  <2>7. Durable(loc.off, v)'
    BY <1>1, <1>2, <2>3 DEF Durable
  <2>8. SyncedRecord(k)'
    BY <2>3, <2>4, <2>6, <2>7 DEF SyncedRecord
  <2>9. ~Expired(index[k].exp)
    <3>1. PICK i \in 1..Len(backup) : backup[i].key = k /\ backup[i].exp = loc.exp
      BY <2>5 DEF LastSet, Last
    <3> QED
      BY <1>10, <2>1, <3>1 DEF HasExpiredRecord
  <2>10. index'[k] = index[k]
    BY <1>5, <2>9
  <2>11. Stored(k)' = Stored(k)
    BY <1>1, <2>10 DEF Stored, read_at
  <2> QED
    BY <1>11, <2>4, <2>8, <2>11, ShardAssumption DEF Holds
<1> QED
  BY <1>12, <1>13

\* A crash leaves what was synced.
LEMMA CrashDurable ==
    ASSUME TypeOK, TypeOK', DurInv, NEW kind, Crash(kind)
    PROVE  DurInv'
<1>0. /\ Len(cool) \in Nat /\ coolFile \in 0..Len(cool) /\ coolSync \in 0..coolFile
      /\ Len(backup) \in Nat /\ backupFile \in 0..Len(backup) /\ backupSync \in 0..backupFile
      /\ cool \in Seq(Cell) /\ backup \in Seq(Record) /\ DiskTypeOK'
      /\ \A i \in 1..Len(backup) : backup[i] \in Record
  BY DiskBounds DEF TypeOK, WorkerTypeOK, DiskTypeOK
<1>1. lose_unwritten(kind) /\ pc' = "down" /\ now' = now /\ synced' = synced
  BY DEF Crash, historyVars
<1>2. /\ \A n \in Survivors(kind, coolSync, coolFile) : n \in coolSync..Len(cool)
      /\ \A n \in Survivors(kind, backupSync, backupFile) : n \in backupSync..Len(backup)
  BY <1>0 DEF Survivors
<1>3. Len(cool') >= coolSync /\ \A i \in 1..coolSync : cool'[i] = cool[i]
  <2>1. PICK n \in Survivors(kind, coolSync, coolFile) :
           cool' = SubSeq(cool, 1, n) \/ cool' = Append(SubSeq(cool, 1, n), Junk)
    BY <1>1 DEF lose_unwritten
  <2> DEFINE p == SubSeq(cool, 1, n)
  <2>2. p \in Seq(Cell) /\ Len(p) = n /\ n \in Nat /\ coolSync <= n
        /\ \A i \in 1..n : p[i] = cool[i]
    BY <1>0, <1>2, Prefix
  <2> HIDE DEF p
  <2>3. cool' = p \/ cool' = Append(p, Junk)
    BY <2>1 DEF p
  <2>4. CASE cool' = p
    BY <1>0, <2>2, <2>4
  <2>5. CASE cool' = Append(p, Junk)
    <3>1. Len(cool') = n + 1 /\ \A i \in 1..n : cool'[i] = p[i]
      BY <2>2, <2>5, AppendSeq DEF Cell
    <3> QED
      BY <1>0, <2>2, <3>1
  <2> QED
    BY <2>3, <2>4, <2>5
<1>4. /\ Len(backup') >= backupSync /\ \A i \in 1..backupSync : backup'[i] = backup[i]
      /\ \A i \in 1..Len(backup') : i > backupSync =>
            i \in 1..Len(backup) /\ backup'[i].key = backup[i].key
  <2>1. PICK n \in Survivors(kind, backupSync, backupFile) :
            \/ backup' = SubSeq(backup, 1, n)
            \/ /\ CanTear(n, backupFile, Len(backup))
               /\ backup' = Append(SubSeq(backup, 1, n), Tear(backup[n + 1]))
    BY <1>1 DEF lose_unwritten
  <2> DEFINE p == SubSeq(backup, 1, n)
             t == Tear(backup[n + 1])
  <2>2. p \in Seq(Record) /\ Len(p) = n /\ n \in Nat /\ backupSync <= n /\ n <= Len(backup)
        /\ \A i \in 1..n : p[i] = backup[i]
    BY <1>0, <1>2, Prefix
  <2>3. CASE backup' = p
    <3> HIDE DEF p
    <3> QED
      BY <1>0, <2>2, <2>3
  <2>4. CASE CanTear(n, backupFile, Len(backup)) /\ backup' = Append(p, t)
    <3>1. n + 1 \in 1..Len(backup)
      BY <1>0, <2>2, <2>4 DEF CanTear
    <3>2. t \in Record /\ t.key = backup[n + 1].key
      <4>1. backup[n + 1] \in Record
        BY <1>0, <3>1
      <4> QED
        BY <4>1 DEF Tear, Record
    <3> HIDE DEF p, t
    <3>3. Len(backup') = n + 1 /\ backup'[n + 1] = t /\ \A i \in 1..n : backup'[i] = p[i]
      BY <2>2, <2>4, <3>2, AppendSeq
    <3>4. \A i \in 1..Len(backup') : i \in 1..n \/ i = n + 1
      BY <2>2, <3>3
    <3>5. Len(backup') >= backupSync /\ \A i \in 1..backupSync : i \in 1..n
      BY <1>0, <2>2, <3>3
    <3>6. \A i \in 1..n : i \in 1..Len(backup) /\ backup'[i] = backup[i]
      BY <1>0, <2>2, <3>3
    <3>7. \A i \in 1..Len(backup') : i \in 1..Len(backup) /\ backup'[i].key = backup[i].key
      BY <3>1, <3>2, <3>3, <3>4, <3>6
    <3> QED
      BY <3>5, <3>6, <3>7
  <2> QED
    BY <2>1, <2>3, <2>4
<1>5. coolSync <= coolSync' /\ backupSync <= backupSync'
  BY <1>0, <1>1, <1>3, <1>4 DEF lose_unwritten
<1>6. ASSUME NEW k \in Keys PROVE KeySynced(k)'
  <2>1. ASSUME synced[k] # Unknown PROVE SyncedKept(k)
    <3>1. \A i \in 1..Len(backup) : backup[i].key = k => i <= backupSync
      BY <2>1 DEF DurInv, KeySynced
    <3>2. Len(backup') \in Nat /\ Len(cool') \in Nat
      BY <1>0, LenProperties DEF DiskTypeOK
    <3>3. \A i \in 1..Len(backup') : backup'[i].key = k => i <= backupSync
      BY <1>0, <1>4, <3>1, <3>2
    <3> QED
      BY <1>0, <1>3, <1>4, <1>5, <3>2, <3>3 DEF SyncedKept
  <2>2. now <= now'
    BY <1>1 DEF TypeOK, WorkerTypeOK
  <2> QED
    BY <1>1, <2>1, <2>2, SyncedStep DEF DurInv
<1> QED
  BY <1>1, <1>6 DEF DurInv, CoolSynced, KeyIndexed, KeyHeld

\* Replay finds what was synced.
LEMMA StartDurable ==
    ASSUME TypeOK, TypeOK', DurInv, Start
    PROVE  DurInv'
<1>0. /\ WorkerTypeOK /\ DiskTypeOK /\ Len(cool) \in Nat /\ Len(backup) \in Nat
      /\ coolSync \in 0..Len(cool) /\ backupSync \in 0..Len(backup) /\ now \in Nat
  BY DiskBounds DEF TypeOK, WorkerTypeOK
<1>1. /\ cool' = cool /\ backup' = backup /\ now' = now /\ pc' = "idle"
      /\ coolSync' = coolSync /\ backupSync' = backupSync /\ synced' = synced
  BY DEF Start, start, open, historyVars
<1>3. SUFFICES ASSUME NEW k \in Keys PROVE KeyIndexed(k)' /\ KeySynced(k)' /\ KeyHeld(k)'
  BY <1>1 DEF DurInv, CoolSynced
<1>4. KeySynced(k)'
  BY <1>0, <1>1, SyncedStep DEF DurInv, KeySynced, SyncedKept
<1>5. HasExpiredRecord(k)' = HasExpiredRecord(k) /\ Torn' = Torn /\ \A i : Last(k, i)' = Last(k, i)
  BY <1>1 DEF HasExpiredRecord, Expired, Torn, Last
<1>6. SUFFICES ASSUME ~Torn, ~HasExpiredRecord(k)
               PROVE  /\ index'[k] # None => LastSet(k, index[k])'
                      /\ synced[k] # Unknown => Holds(k, synced[k])'
  BY <1>1, <1>4, <1>5 DEF KeyIndexed, KeyHeld
<1>2. PICK Q \in Readable : index' = Rebuilt(Q)
  BY <1>0, <1>6, StartWhole DEF Start, Torn
<1>7. \/ index'[k] = None /\ \A i \in 1..Len(backup) : backup[i].key # k
      \/ \E i \in 1..Len(backup) : Last(k, i) /\ index'[k] = LocOf(backup[i])
  BY <1>0, <1>2, <1>6, RebuiltLast
<1>8. index'[k] # None => LastSet(k, index[k])'
  BY <1>1, <1>5, <1>7 DEF LocOf, LastSet
<1>9. ASSUME synced[k] # Unknown PROVE Holds(k, synced[k])'
  <2>1. SyncedRecord(k)
    BY <1>0, <1>6, <1>9 DEF DurInv, KeySynced, Torn, TornSynced
  <2>2. CASE synced[k] = None /\ \A i \in 1..Len(backup) : Last(k, i) => backup[i].op = "del"
    BY <1>1, <1>7, <2>2 DEF Holds, LocOf
  <2>3. ASSUME NEW loc \in Loc, NEW v \in Cell \ {None}, synced[k] = [val |-> v, exp |-> loc.exp],
               LastSet(k, loc), Durable(loc.off, v)
        PROVE  Holds(k, synced[k])'
    <3>1. PICK i \in 1..Len(backup) :
             Last(k, i) /\ backup[i].op = "set" /\ loc = [off |-> backup[i].off, exp |-> backup[i].exp]
      BY <2>3 DEF LastSet
    <3>2. index'[k] = LocOf(backup[i])
      BY <1>0, <1>7, <3>1, LastUnique DEF Last
    <3>3. index'[k] = loc /\ loc # None
      BY <3>1, <3>2, WorkerAssumption DEF LocOf
    <3>4. read_at(loc.off) = v
      BY <1>0, <2>3 DEF Durable, read_at
    <3>5. Stored(k)' = [val |-> v, exp |-> loc.exp]
      BY <1>1, <3>3, <3>4 DEF Stored, read_at
    <3>6. [val |-> v, exp |-> loc.exp] # None
      BY <2>3, ShardAssumption DEF Entry, Loc
    <3> QED
      BY <1>1, <2>3, <3>5, <3>6 DEF Holds
  <2> QED
    BY <2>1, <2>2, <2>3 DEF SyncedRecord
<1> QED
  BY <1>8, <1>9

LEMMA NextDurable == TypeOK /\ HeapExpires /\ DurInv /\ [Next]_vars => DurInv'
<1> SUFFICES ASSUME TypeOK, HeapExpires, DurInv, [Next]_vars PROVE DurInv'
  OBVIOUS
<1>0. /\ WorkerTypeOK /\ DiskTypeOK /\ Len(cool) \in Nat /\ Len(backup) \in Nat
      /\ coolSync \in 0..Len(cool) /\ backupSync \in 0..Len(backup) /\ now \in Nat
      /\ index \in [Keys -> Loc \cup {None}]
      /\ synced \in [Keys -> Entry \cup {None, Unknown}]
  BY DiskBounds DEF TypeOK, WorkerTypeOK
<1>T. TypeOK'
  BY NextType
<1>1. ASSUME NEW op, NEW k \in Keys, NEW v \in Values, NEW e \in Nat,
             write(op, k, v, e), InBatch, Touched(k), now' = now
      PROVE  DurInv'
  <2> DEFINE r == SetRecord(k, ValOff, e)
  <2>0. r \in Record /\ Tear(r) \in Record /\ r.key = k /\ Tear(r).key = k /\ Tear(r).op = "torn"
        /\ r.op = "set" /\ r.off = ValOff /\ r.exp = e
    <3>1. ValOff \in Nat
      BY <1>0 DEF DiskTypeOK, ValOff
    <3> QED
      BY <3>1 DEF Record, SetRecord, Tear
  <2>1. CoolGrows
    BY <1>0, <1>1, SetDrifts DEF write, DriftGrows
  <2>2. /\ coolSync' = coolSync /\ backupSync' = backupSync
        /\ \/ /\ backup' = Append(backup, r)
              /\ index' = [index EXCEPT ![k] = [off |-> ValOff, exp |-> e]]
           \/ backup' \in {backup, Append(backup, Tear(r))} /\ index' = index
    BY <1>1 DEF write, append_set, SpillBoth, append_set_fails, append_fails, ramVars
  <2>3. pc # "down" /\ pc' = "batch" /\ synced' = [synced EXCEPT ![k] = Unknown]
    BY <1>1 DEF InBatch, Touched
  <2>4. \A j \in Keys : j # k => QuietFor(j) /\ index'[j] = index[j]
    BY <1>0, <2>0, <2>2, AppendQuiet
  <2> HIDE DEF r
  <2>5. KeyIndexed(k)'
    <3>1. CASE backup' = backup /\ index' = index
      <4>1. QuietFor(k) /\ now <= now'
        BY <1>0, <1>1, <3>1 DEF QuietFor
      <4> QED
        BY <1>T, <2>3, <3>1, <4>1, IndexedStep DEF DurInv
    <3>2. CASE backup' = Append(backup, r) /\ index' = [index EXCEPT ![k] = [off |-> ValOff, exp |-> e]]
      <4>1. backup' # backup
        BY <1>0, <2>0, <3>2, AppendSeq DEF DiskTypeOK
      <4>2. PICK n \in 1..Len(backup') : Last(k, n)' /\ backup'[n] = r
        BY <1>0, <2>0, <3>2, <4>1, AppendQuiet
      <4>3. index'[k] = [off |-> r.off, exp |-> r.exp]
        BY <1>0, <2>0, <3>2
      <4> QED
        BY <2>0, <4>2, <4>3 DEF KeyIndexed, LastSet
    <3>3. CASE backup' = Append(backup, Tear(r))
      <4>1. backup' # backup
        BY <1>0, <2>0, <3>3, AppendSeq DEF DiskTypeOK
      <4>2. PICK n \in 1..Len(backup') : backup'[n] = Tear(r)
        BY <1>0, <2>0, <3>3, <4>1, AppendQuiet
      <4> QED
        BY <2>0, <4>2 DEF KeyIndexed, Torn
    <3> QED
      BY <2>2, <3>1, <3>2, <3>3
  <2> QED
    BY <1>1, <1>T, <2>1, <2>2, <2>3, <2>4, <2>5, WriteDurable
<1>2. ASSUME NEW k \in Keys, Del(k) PROVE DurInv'
  <2>0. /\ pc # "down" /\ pc' = "batch" /\ now' = now
        /\ index' = [index EXCEPT ![k] = None]
    BY <1>2 DEF Del, InBatch, delete
  <2>1. CASE index[k] = None
    <3>1. UNCHANGED diskVars /\ synced' = synced /\ \A j \in Keys : index'[j] = index[j]
      BY <1>0, <1>2, <2>0, <2>1 DEF Del, delete
    <3> QED
      BY <1>0, <1>T, <2>0, <3>1, NoWriteDurable DEF diskVars, CoolSynced
  <2>2. CASE index[k] # None
    <3> DEFINE r == DelRecord(k)
    <3>0. r \in Record /\ Tear(r) \in Record /\ r.key = k /\ Tear(r).key = k
      BY DEF Record, DelRecord, Tear
    <3>1. (append_del(k) \/ append_del_fails(k)) /\ synced' = [synced EXCEPT ![k] = Unknown]
      BY <1>2, <2>2 DEF Del, delete, Touched
    <3>2. CoolGrows
      BY <1>0, <3>1, DelDrifts DEF DriftGrows
    <3>3. /\ coolSync' = coolSync /\ backupSync' = backupSync
          /\ backup' \in {backup, Append(backup, r), Append(backup, Tear(r))}
      BY <3>1 DEF append_del, SpillBoth, append_del_fails, append_fails
    <3> HIDE DEF r
    <3>4. \A j \in Keys : j # k => QuietFor(j) /\ index'[j] = index[j]
      BY <1>0, <2>0, <3>0, <3>3, AppendQuiet
    <3>5. KeyIndexed(k)'
      BY <1>0, <2>0 DEF KeyIndexed
    <3> QED
      BY <1>T, <2>0, <3>1, <3>2, <3>3, <3>4, <3>5, WriteDurable
  <2> QED
    BY <2>1, <2>2
<1>3. ASSUME NEW k \in Keys, Get(k) PROVE DurInv'
  <2>1. /\ cool' = cool /\ backup' = backup /\ now' = now /\ pc # "down" /\ pc' = "batch"
        /\ coolSync' = coolSync /\ backupSync' = backupSync /\ synced' = synced
        /\ \/ index' = index
           \/ index' = [index EXCEPT ![k] = None] /\ Expired(index[k].exp)
    BY <1>3 DEF Get, InBatch, get, get_miss, get_expired, get_hot, get_cold, diskVars, ramVars,
         historyVars, flush_cool, flush_cool_fails
  <2> QED
    BY <1>0, <1>T, <2>1, NoWriteDurable DEF CoolSynced
<1>4. CASE FlushCool \/ FlushBackup \/ FlushFails
  <2>1. /\ cool' = cool /\ backup' = backup /\ now' = now /\ pc # "down" /\ pc' # "fsync"
        /\ coolSync' = coolSync /\ backupSync' = backupSync /\ synced' = synced /\ index' = index
    BY <1>4 DEF FlushCool, FlushBackup, FlushFails, ramVars, historyVars, flush_cool, flush_backup,
         flush_cool_fails, flush_backup_fails
  <2> QED
    BY <1>0, <1>T, <2>1, NoWriteDurable DEF CoolSynced
<1>5. CASE TickCool
  <2>1. /\ cool' = cool /\ backup' = backup /\ now' = now /\ pc # "down" /\ coolSync' = Len(cool)
        /\ backupSync' = backupSync /\ synced' = synced /\ index' = index
    BY <1>5 DEF TickCool, ramVars, historyVars, sync_cool
  <2> QED
    BY <1>0, <1>T, <2>1, NoWriteDurable DEF CoolSynced
<1>6. CASE TickFails
  <2>1. /\ cool' = cool /\ backup' = backup /\ now' = now /\ pc # "down" /\ pc' = "idle"
        /\ coolSync' = coolSync /\ backupSync' = backupSync /\ synced' = synced /\ expire_due
    BY <1>6 DEF TickFails, historyVars, flush_cool_fails, flush_backup_fails
  <2>2. \A k \in Keys : \/ index'[k] = index[k]
                        \/ index'[k] = None /\ index[k] # None /\ Expired(index[k].exp)
    BY <1>0, <2>1, SweptExpired
  <2> QED
    BY <1>0, <1>T, <2>1, <2>2, NoWriteDurable DEF CoolSynced
<1>7. CASE Advance \/ UNCHANGED vars
  <2>1. /\ cool' = cool /\ backup' = backup /\ now' \in {now, now + 1} /\ pc' = pc
        /\ coolSync' = coolSync /\ backupSync' = backupSync /\ synced' = synced /\ index' = index
    BY <1>7 DEF Advance, vars, diskVars, ramVars, historyVars
  <2>2. now <= now' /\ CoolSynced'
    BY <1>0, <2>1 DEF DurInv, CoolSynced
  <2>3. CASE pc # "down"
    BY <1>0, <1>T, <2>1, <2>2, <2>3, NoWriteDurable
  <2>4. CASE pc = "down"
    <3>1. ASSUME NEW k \in Keys PROVE KeySynced(k)'
      <4>1. synced[k] # Unknown => SyncedKept(k)
        BY <1>0, <2>1 DEF SyncedKept, DurInv, KeySynced
      <4> QED
        BY <1>T, <2>1, <2>2, <4>1, SyncedStep DEF DurInv
    <3> QED
      BY <2>1, <2>2, <2>4, <3>1 DEF DurInv, KeyIndexed, KeyHeld
  <2> QED
    BY <2>3, <2>4
<1>8. ASSUME NEW k \in Keys, NEW v \in Values, Set(k, v) PROVE DurInv'
  BY <1>1, <1>8 DEF Set, set
<1>9. ASSUME NEW k \in Keys, NEW v \in Values, NEW ttl \in TTLs, SetEx(k, v, ttl) PROVE DurInv'
  <2>1. now + ttl \in Nat
    BY <1>0, ShardAssumption
  <2> QED
    BY <1>1, <1>9, <2>1 DEF SetEx, set_ex
<1>10. CASE TickBackup
  BY <1>T, <1>10, TickDurable
<1>11. ASSUME NEW kind, Crash(kind) PROVE DurInv'
  BY <1>T, <1>11, CrashDurable
<1>12. CASE Start
  BY <1>T, <1>12, StartDurable
<1> QED
  BY <1>2, <1>3, <1>4, <1>5, <1>6, <1>7, <1>8, <1>9, <1>10, <1>11, <1>12 DEF Next

\* What a key held at the last fsync it holds for as long as nothing is written
\* to it, through failing writes, spilled buffers, kills and power cuts, unless
\* the journal has a torn record or the key an expired one (disk.rs, fsync).
THEOREM FsyncIsDurable == Spec => []SyncedSurvives
<1>1. Init => DurInv
  BY DEF Init, DiskInit, DurInv, CoolSynced, KeyIndexed, KeySynced, KeyHeld
<1>2. DurInv => SyncedSurvives
  BY DEF DurInv, KeyHeld, SyncedSurvives
<1> QED
  BY <1>1, <1>2, NextDurable, TypeCorrect, HeapAlwaysExpires, PTL DEF Spec

-----------------------------------------------------------------------------
(***************************************************************************)
(* The refinement, for a shard that is only ever killed: it rests on       *)
(* KillInv and FileInv.                                                    *)
(***************************************************************************)
\* The last of the first n records of k.
LastOf(n, k, i) ==
    /\ i \in 1..n /\ backup[i].key = k
    /\ \A j \in 1..n : backup[j].key = k => j <= i

HeldBy(r) == IF r.op = "set" THEN [val |-> read_at(r.off), exp |-> r.exp] ELSE None

LEMMA HeldAfterLast ==
    ASSUME NEW n \in Nat, NEW k \in Keys
    PROVE  \/ HeldAfter(n)[k] = None /\ \A i \in 1..n : backup[i].key # k
           \/ \E i \in 1..n : LastOf(n, k, i) /\ HeldAfter(n)[k] = HeldBy(backup[i])
<1>1. CASE RecordsOf(n, k) = {}
  BY <1>1 DEF RecordsOf, HeldAfter
<1>2. CASE RecordsOf(n, k) # {}
  <2>1. RecordsOf(n, k) \in SUBSET (1..n)
    BY DEF RecordsOf
  <2>2. PICK i : i = Max(RecordsOf(n, k)) /\ i \in RecordsOf(n, k)
                 /\ \A x \in RecordsOf(n, k) : x <= i
    BY <1>2, <2>1, MaxIn
  <2>3. HeldAfter(n)[k] = HeldBy(backup[i])
    BY <1>2, <2>2 DEF HeldAfter, HeldBy
  <2>4. LastOf(n, k, i)
    BY <2>2 DEF RecordsOf, LastOf
  <2> QED
    BY <2>3, <2>4 DEF LastOf
<1> QED
  BY <1>1, <1>2

LEMMA LastOfUnique ==
    ASSUME NEW n \in Nat, NEW k, NEW i, NEW j, LastOf(n, k, i), LastOf(n, k, j)
    PROVE  i = j
BY DEF LastOf

\* Values that the first n records point at can be read as before.
ReadsKept(n) ==
    \A i \in 1..n, off \in Nat :
        backup[i].op = "set" /\ backup[i].off = off => read_at(off)' = read_at(off)

LEMMA HeldStable ==
    ASSUME DiskTypeOK, NEW n \in 0..Len(backup), ReadsKept(n),
           \A i \in 1..n : backup'[i] = backup[i]
    PROVE  HeldAfter(n)' = HeldAfter(n)
<1>0. n \in Nat /\ \A i \in 1..n : backup[i] \in Record
  BY DiskBounds
<1>1. \A k \in Keys : RecordsOf(n, k)' = RecordsOf(n, k)
  BY DEF RecordsOf
<1>2. ASSUME NEW k \in Keys PROVE HeldAfter(n)'[k] = HeldAfter(n)[k]
  <2>1. CASE RecordsOf(n, k) = {}
    BY <1>1, <2>1 DEF HeldAfter
  <2>2. CASE RecordsOf(n, k) # {}
    <3>1. RecordsOf(n, k) \in SUBSET (1..n)
      BY DEF RecordsOf
    <3>2. PICK i \in 1..n : i = Max(RecordsOf(n, k))
      BY <1>0, <2>2, <3>1, MaxIn
    <3>3. PICK off \in Nat : off = backup[i].off
      BY <1>0 DEF Record
    <3>4. backup[i].op = "set" => read_at(off)' = read_at(off)
      BY <3>3 DEF ReadsKept
    <3>5. HeldAfter(n)[k] = IF backup[i].op = "set" THEN [val |-> read_at(off), exp |-> backup[i].exp]
                            ELSE None
      BY <2>2, <3>2, <3>3 DEF HeldAfter
    <3>6. HeldAfter(n)'[k] = IF backup[i].op = "set"
                             THEN [val |-> read_at(off)', exp |-> backup[i].exp] ELSE None
      <4>1. RecordsOf(n, k)' # {} /\ Max(RecordsOf(n, k)') = i /\ backup'[i] = backup[i]
        BY <1>1, <2>2, <3>2
      <4>2. HeldAfter(n)'[k] = IF backup'[i].op = "set"
                 THEN [val |-> read_at(backup[i].off)', exp |-> backup'[i].exp] ELSE None
        BY <4>1 DEF HeldAfter
      <4>3. read_at(backup[i].off)' = read_at(off)'
        BY <3>3, <4>1 DEF read_at
      <4> QED
        BY <4>1, <4>2, <4>3
    <3> QED
      BY <3>4, <3>5, <3>6
  <2> QED
    BY <2>1, <2>2
<1>3. HeldAfter(n) = [k \in Keys |-> HeldAfter(n)[k]] /\ HeldAfter(n)' = [k \in Keys |-> HeldAfter(n)'[k]]
  BY DEF HeldAfter
<1> QED
  BY <1>2, <1>3

\* One more record changes what its key holds and nothing else.
LEMMA HeldAppend ==
    ASSUME DiskTypeOK, NEW r \in Record, backup' = Append(backup, r), ReadsKept(Len(backup)),
           NEW k, k = r.key, NEW entry,
           \/ r.op # "set" /\ entry = None
           \/ \E off : r.op = "set" /\ off = r.off /\ entry = [val |-> read_at(off)', exp |-> r.exp]
    PROVE  HeldAfter(Len(backup))' = [HeldAfter(Len(backup)) EXCEPT ![k] = entry]
<1> DEFINE n == Len(backup)
<1>0. n \in Nat /\ backup \in Seq(Record) /\ n \in 0..Len(backup) /\ k \in Keys
  BY DiskBounds DEF DiskTypeOK, Record
<1> HIDE DEF n
<1>1. PICK m \in Nat : m = n /\ n = Len(backup)
  BY <1>0 DEF n
<1>2. /\ Len(backup') = m + 1 /\ backup'[m + 1] = r /\ \A i \in 1..m : backup'[i] = backup[i]
  BY <1>0, <1>1, AppendSeq
<1>3. HeldAfter(m)' = HeldAfter(m)
  BY <1>0, <1>1, <1>2, HeldStable
<1>4. 1..(m + 1) = (1..m) \cup {m + 1}
  BY <1>1
<1>5. PICK l \in Nat : l = m + 1
  BY <1>1
<1>6. ASSUME NEW j \in Keys, j # k PROVE HeldAfter(l)'[j] = HeldAfter(m)'[j]
  <2>1. RecordsOf(l, j)' = RecordsOf(m, j)'
    BY <1>2, <1>4, <1>5, <1>6 DEF RecordsOf
  <2> QED
    BY <2>1 DEF HeldAfter
<1>7. HeldAfter(l)'[k] = entry
  <2>1. PICK T : T = RecordsOf(l, k)'
    OBVIOUS
  <2>2. T \in SUBSET (1..l) /\ l \in T
    BY <1>2, <1>4, <1>5, <2>1 DEF RecordsOf
  <2>3. Max(T) \in T /\ \A x \in T : x <= Max(T)
    BY <2>2, MaxIn
  <2>4. Max(T) = l
    <3>1. Max(T) \in 1..l /\ l <= Max(T)
      BY <2>2, <2>3
    <3> QED
      BY <1>5, <3>1
  <2>5. HeldAfter(l)'[k] = IF backup'[l].op = "set"
             THEN [val |-> read_at(backup[l].off)', exp |-> backup'[l].exp] ELSE None
    <3>1. RecordsOf(l, k)' # {} /\ Max(RecordsOf(l, k)') = l
      BY <2>1, <2>2, <2>4
    <3> QED
      BY <1>0, <3>1 DEF HeldAfter
  <2>6. backup'[l] = r
    BY <1>2, <1>5
  <2>7. CASE r.op # "set"
    BY <2>5, <2>6, <2>7
  <2>8. CASE r.op = "set"
    <3>1. PICK off : off = r.off /\ entry = [val |-> read_at(off)', exp |-> r.exp]
      BY <2>8
    <3>2. read_at(backup[l].off)' = read_at(off)'
      BY <2>6, <3>1 DEF read_at
    <3> QED
      BY <2>5, <2>6, <2>8, <3>1, <3>2
  <2> QED
    BY <2>7, <2>8
<1>8. HeldAfter(Len(backup))' = HeldAfter(l)'
  BY <1>2, <1>5 DEF HeldAfter, RecordsOf
<1>9. HeldAfter(l)' = [j \in Keys |-> HeldAfter(l)'[j]] /\ HeldAfter(m) = [j \in Keys |-> HeldAfter(m)[j]]
  BY DEF HeldAfter
<1>10. HeldAfter(l)' = [HeldAfter(m) EXCEPT ![k] = entry]
  BY <1>0, <1>3, <1>6, <1>7, <1>9
<1> QED
  BY <1>1, <1>8, <1>10

RefInv == TypeOK /\ LengthKnown /\ CacheCoherent /\ KillInv /\ HeapExpires /\ FileInv

StoreOf == [k \in Keys |-> Stored(k)]

LEMMA RefFacts ==
    ASSUME RefInv
    PROVE  /\ WorkerTypeOK /\ DiskTypeOK /\ now \in Nat
           /\ index \in [Keys -> Loc \cup {None}]
           /\ Len(backup) \in Nat /\ backupFile \in 0..Len(backup) /\ Len(cool) \in Nat
           /\ backup \in Seq(Record) /\ cool \in Seq(Cell) /\ coolFile \in 0..Len(cool)
           /\ \A k \in Keys : index[k] # None <=> Stored(k) # None
           /\ \A k \in Keys : index[k] # None => read_at(index[k].off) \in Values
<1>1. /\ WorkerTypeOK /\ DiskTypeOK /\ now \in Nat /\ index \in [Keys -> Loc \cup {None}]
      /\ backup \in Seq(Record) /\ cool \in Seq(Cell)
  BY DEF RefInv, TypeOK, WorkerTypeOK, DiskTypeOK
<1>2. Len(backup) \in Nat /\ backupFile \in 0..Len(backup) /\ Len(cool) \in Nat /\ coolFile \in 0..Len(cool)
  BY <1>1, DiskBounds
<1>3. \A k \in Keys : index[k] # None <=> Stored(k) # None
  BY <1>1, StoredType, ShardAssumption DEF Stored
<1>4. ASSUME NEW k \in Keys, index[k] # None PROVE read_at(index[k].off) \in Values
  <2>1. <<k, read_at(index[k].off), index[k].exp>> \in written
    BY <1>4, BackedReads DEF RefInv, KillInv, IndexBacked
  <2> QED
    BY <2>1 DEF RefInv, TypeOK
<1> QED
  BY <1>1, <1>2, <1>3, <1>4

\* While cool.log only grows, everything the index and the journal point at
\* reads the same.
LEMMA GrowKeeps ==
    ASSUME RefInv, DiskTypeOK', CoolGrows
    PROVE  /\ \A n \in 0..Len(backup) : ReadsKept(n)
           /\ \A k \in Keys : index'[k] = index[k] => Stored(k)' = Stored(k)
<1>0. DiskTypeOK /\ Len(backup) \in Nat
  BY RefFacts
<1>1. ASSUME NEW off, read_at(off) # None PROVE read_at(off)' = read_at(off)
  BY <1>0, <1>1, ReadStable
<1>2. ASSUME NEW n \in 0..Len(backup), NEW i \in 1..n, NEW off \in Nat,
             backup[i].op = "set", backup[i].off = off
      PROVE  read_at(off)' = read_at(off)
  <2>1. i \in 1..Len(backup)
    BY <1>0
  <2>2. PICK k, e : k = backup[i].key /\ e = backup[i].exp
    OBVIOUS
  <2>3. Backed(k, off, e)
    BY <1>2, <2>1, <2>2 DEF RefInv, KillInv, JournalBacked
  <2>4. <<k, read_at(off), e>> \in written
    BY <2>3, BackedReads DEF RefInv
  <2>5. read_at(off) # None
    BY <2>4, DiskAssumption DEF RefInv, TypeOK
  <2> QED
    BY <1>1, <2>5
<1>3. ASSUME NEW k \in Keys, index'[k] = index[k] PROVE Stored(k)' = Stored(k)
  <2>1. CASE index[k] = None
    BY <1>3, <2>1 DEF Stored
  <2>2. CASE index[k] # None
    <3>1. PICK off : off = index[k].off
      OBVIOUS
    <3>2. read_at(off) # None
      BY <2>2, <3>1, RefFacts, DiskAssumption
    <3>3. read_at(off)' = read_at(off)
      BY <1>1, <3>2
    <3>4. read_at(index[k].off)' = read_at(off)'
      BY <1>3, <3>1 DEF read_at
    <3> QED
      BY <1>3, <2>2, <3>1, <3>3, <3>4 DEF Stored
  <2> QED
    BY <2>1, <2>2
<1> QED
  BY <1>2, <1>3 DEF ReadsKept

LEMMA CommittedKept ==
    ASSUME RefInv, DiskTypeOK', CoolGrows, backupFile' = backupFile,
           \A i \in 1..Len(backup) : backup'[i] = backup[i]
    PROVE  HeldAfter(backupFile)' = HeldAfter(backupFile)
<1>1. PICK n \in 0..Len(backup) : n = backupFile
  BY RefFacts
<1>2. Len(backup) \in Nat /\ DiskTypeOK /\ \A i \in 1..n : i \in 1..Len(backup)
  BY RefFacts
<1>3. ReadsKept(n)
  BY GrowKeeps
<1>4. HeldAfter(n)' = HeldAfter(n)
  BY <1>2, <1>3, HeldStable
<1>5. HeldAfter(backupFile)' = HeldAfter(n)'
  BY <1>1 DEF HeldAfter, RecordsOf
<1> QED
  BY <1>1, <1>4, <1>5

LEMMA PutRefines ==
    ASSUME Faults = {}, RefInv, TypeOK', NEW op, NEW k \in Keys, NEW v \in Values, NEW e \in Nat,
           write(op, k, v, e), InBatch, written' = written \cup {<<k, v, e>>}, now' = now
    PROVE  KV!Put(op, k, v, e)
<1>0. /\ DiskTypeOK /\ DiskTypeOK' /\ index \in [Keys -> Loc \cup {None}] /\ pc # "down" /\ pc' # "down"
      /\ Len(backup) \in Nat
  BY RefFacts DEF InBatch, TypeOK, WorkerTypeOK
<1>1. /\ append_set(k, v, e) /\ cool_len = Len(cool)
      /\ index' = [index EXCEPT ![k] = [off |-> ValOff, exp |-> e]]
      /\ reply' = [op |-> op, key |-> k, res |-> v]
  BY <1>0 DEF write, append_set_fails, append_fails, Answer, RefInv, LengthKnown
<1>2. CoolGrows
  BY <1>0, <1>1, AppendSetReads
<1>3. PICK off : off = ValOff /\ read_at(off)' = v
  BY <1>0, <1>1, AppendSetReads
<1>4. PICK r : r = SetRecord(k, off, e)
  OBVIOUS
<1>5. r \in Record /\ r.key = k /\ r.op = "set" /\ r.off = off /\ r.exp = e /\ backup' = Append(backup, r)
  <2>1. ValOff \in Nat
    BY <1>0 DEF DiskTypeOK, ValOff
  <2> QED
    BY <1>1, <1>3, <1>4, <2>1 DEF append_set, SetRecord, Record
<1>6. ReadsKept(Len(backup))
  BY <1>0, <1>2, GrowKeeps
<1>7. PICK entry : entry = [val |-> v, exp |-> e] /\ entry = [val |-> read_at(off)', exp |-> r.exp]
  BY <1>3, <1>5
<1>8. HeldAfter(Len(backup))' = [HeldAfter(Len(backup)) EXCEPT ![k] = entry]
  BY <1>0, <1>5, <1>6, <1>7, HeldAppend
<1>10. \A i \in 1..Len(backup) : backup'[i] = backup[i]
  BY <1>0, <1>5, AppendSeq DEF DiskTypeOK
<1>11. backupFile' = backupFile
  BY <1>1 DEF append_set, SpillBoth, Spill
<1>12. HeldAfter(backupFile)' = HeldAfter(backupFile)
  BY <1>0, <1>2, <1>10, <1>11, CommittedKept
<1>13. StoreOf' = [StoreOf EXCEPT ![k] = [val |-> v, exp |-> e]]
  <2>1. \A j \in Keys : j # k => Stored(j)' = Stored(j)
    BY <1>0, <1>1, <1>2, GrowKeeps
  <2>2. Stored(k)' = [val |-> v, exp |-> e]
    <3>1. index'[k] = [off |-> off, exp |-> e] /\ index'[k] # None
      <4>1. [off |-> off, exp |-> e] \in Loc
        BY <1>5 DEF Loc, Record
      <4> QED
        BY <1>0, <1>1, <1>3, <4>1, WorkerAssumption
    <3>2. read_at(index[k].off)' = read_at(off)'
      BY <3>1 DEF read_at
    <3> QED
      BY <1>3, <3>1, <3>2 DEF Stored
  <2> QED
    BY <2>1, <2>2 DEF StoreOf
<1> QED
  BY <1>0, <1>1, <1>7, <1>8, <1>12, <1>13 DEF KV!Put, KV!Answer, StoreOf

LEMMA DelRefines ==
    ASSUME Faults = {}, RefInv, TypeOK', NEW k \in Keys, Del(k)
    PROVE  KV!Del(k)
<1>0. /\ DiskTypeOK /\ DiskTypeOK' /\ index \in [Keys -> Loc \cup {None}] /\ pc # "down" /\ pc' # "down"
      /\ Len(backup) \in Nat /\ Len(cool) \in Nat /\ backup \in Seq(Record)
      /\ written' = written /\ now' = now
      /\ index' = [index EXCEPT ![k] = None]
      /\ reply' = [op |-> "del", key |-> k, res |-> IF index[k] # None THEN "1" ELSE "0"]
  BY RefFacts DEF Del, InBatch, delete, Answer, TypeOK, WorkerTypeOK
<1>1. index[k] # None <=> StoreOf[k] # None
  BY RefFacts DEF StoreOf
<1>2. CASE index[k] = None
  <2>1. /\ UNCHANGED <<cool, backup, backupFile>> /\ index' = index
    BY <1>0, <1>2 DEF Del, delete, diskVars
  <2>2. StoreOf' = [StoreOf EXCEPT ![k] = None]
    BY <1>1, <1>2, <2>1 DEF StoreOf, Stored, read_at
  <2>3. UNCHANGED <<HeldAfter(backupFile), HeldAfter(Len(backup))>>
    BY <2>1 DEF HeldAfter, RecordsOf, read_at
  <2> QED
    BY <1>0, <1>1, <1>2, <2>2, <2>3 DEF KV!Del, KV!Answer, StoreOf
<1>3. CASE index[k] # None
  <2>1. append_del(k)
    BY <1>3 DEF Del, delete, append_del_fails, append_fails
  <2>2. CoolGrows
    BY <1>0, <2>1, AppendDelGrows
  <2>3. PICK r \in Record : r.key = k /\ r.op # "set" /\ backup' = Append(backup, r)
    <3>1. DelRecord(k) \in Record /\ DelRecord(k).key = k /\ DelRecord(k).op # "set"
      BY DEF DelRecord, Record
    <3> QED
      BY <2>1, <3>1 DEF append_del
  <2>4. ReadsKept(Len(backup))
    BY <1>0, <2>2, GrowKeeps
  <2>5. PICK entry : entry = None
    OBVIOUS
  <2>6. HeldAfter(Len(backup))' = [HeldAfter(Len(backup)) EXCEPT ![k] = entry]
    <3>1. \/ r.op # "set" /\ entry = None
          \/ \E off : r.op = "set" /\ off = r.off /\ entry = [val |-> read_at(off)', exp |-> r.exp]
      BY <2>3, <2>5
    <3>2. DiskTypeOK /\ backup' = Append(backup, r) /\ k = r.key
      BY <1>0, <2>3
    <3> QED
      BY <2>4, <3>1, <3>2, HeldAppend
  <2>7. \A i \in 1..Len(backup) : backup'[i] = backup[i]
    BY <1>0, <2>3, AppendSeq
  <2>8. backupFile' = backupFile
    BY <2>1 DEF append_del, SpillBoth, Spill
  <2>9. HeldAfter(backupFile)' = HeldAfter(backupFile)
    BY <1>0, <2>2, <2>7, <2>8, CommittedKept
  <2>10. StoreOf' = [StoreOf EXCEPT ![k] = None]
    <3>1. \A j \in Keys : j # k => Stored(j)' = Stored(j)
      BY <1>0, <2>2, GrowKeeps
    <3>2. Stored(k)' = None
      BY <1>0 DEF Stored
    <3> QED
      BY <3>1, <3>2 DEF StoreOf
  <2> QED
    BY <1>0, <1>1, <1>3, <2>5, <2>6, <2>9, <2>10 DEF KV!Del, KV!Answer, StoreOf
<1> QED
  BY <1>2, <1>3

\* Steps that write neither file's contents leave what the journal holds.
LEMMA JournalSame ==
    ASSUME cool' = cool, backup' = backup
    PROVE  /\ HeldAfter(Len(backup))' = HeldAfter(Len(backup))
           /\ backupFile' = backupFile => HeldAfter(backupFile)' = HeldAfter(backupFile)
           /\ backupFile' = Len(backup) => HeldAfter(backupFile)' = HeldAfter(Len(backup))
           /\ \A k \in Keys : index'[k] = index[k] => Stored(k)' = Stored(k)
BY DEF HeldAfter, RecordsOf, read_at, Stored

LEMMA GetRefines ==
    ASSUME Faults = {}, RefInv, NEW k \in Keys, Get(k)
    PROVE  KV!Hit(k) \/ KV!Miss(k)
<1>0. /\ index \in [Keys -> Loc \cup {None}] /\ pc # "down" /\ pc' # "down"
      /\ written' = written /\ now' = now /\ cool' = cool /\ backup' = backup /\ backupFile' = backupFile
  BY RefFacts DEF Get, InBatch, get, get_miss, get_expired, get_hot, get_cold, historyVars, diskVars,
     flush_cool, flush_cool_fails
<1>1. /\ HeldAfter(Len(backup))' = HeldAfter(Len(backup))
      /\ HeldAfter(backupFile)' = HeldAfter(backupFile)
      /\ \A j \in Keys : index'[j] = index[j] => Stored(j)' = Stored(j)
  BY <1>0, JournalSame
<1>2. index[k] # None <=> StoreOf[k] # None
  BY RefFacts DEF StoreOf
<1>3. index[k] # None => /\ StoreOf[k] = [val |-> read_at(index[k].off), exp |-> index[k].exp]
                         /\ KV!Expired(StoreOf[k]) <=> Expired(index[k].exp)
  BY DEF StoreOf, Stored, KV!Expired, Expired
<1>4. CASE get_miss(k) \/ get_expired(k)
  <2>1. /\ index' = [index EXCEPT ![k] = None]
        /\ reply' = [op |-> "get", key |-> k, res |-> None]
        /\ index[k] # None => Expired(index[k].exp)
    BY <1>0, <1>4 DEF get_miss, get_expired, Answer, ramVars
  <2>2. StoreOf' = [StoreOf EXCEPT ![k] = None]
    <3>1. \A j \in Keys : j # k => Stored(j)' = Stored(j)
      BY <1>0, <1>1, <2>1
    <3>2. Stored(k)' = None
      BY <1>0, <2>1 DEF Stored
    <3> QED
      BY <3>1, <3>2 DEF StoreOf
  <2>3. StoreOf[k] # None => KV!Expired(StoreOf[k])
    BY <1>2, <1>3, <2>1
  <2> QED
    BY <1>0, <1>1, <2>1, <2>2, <2>3 DEF KV!Miss, KV!Answer, StoreOf
<1>5. CASE get_hot(k) \/ get_cold(k)
  <2>1. read_at(index[k].off) # None
    BY <1>5, RefFacts, DiskAssumption DEF get_hot, get_cold
  <2>2. /\ index' = index /\ index[k] # None /\ ~Expired(index[k].exp)
        /\ reply' = [op |-> "get", key |-> k, res |-> read_at(index[k].off)]
    BY <1>5, <2>1 DEF get_hot, get_cold, Answer, RefInv, CacheCoherent, Cached
  <2>3. StoreOf' = StoreOf
    BY <1>1, <2>2 DEF StoreOf
  <2>4. StoreOf[k] # None /\ ~KV!Expired(StoreOf[k]) /\ StoreOf[k].val = read_at(index[k].off)
    BY <1>2, <1>3, <2>2
  <2> QED
    BY <1>0, <1>1, <2>2, <2>3, <2>4 DEF KV!Hit, KV!Answer, StoreOf
<1> QED
  BY <1>4, <1>5 DEF Get, get

LEMMA CommitRefines ==
    ASSUME Faults = {}, RefInv, FlushBackup \/ TickBackup
    PROVE  KV!Commit
<1>0. WorkerTypeOK /\ HeapExpires
  BY RefFacts DEF RefInv
<1>1. /\ cool' = cool /\ backup' = backup /\ backupFile' = Len(backup)
      /\ pc # "down" /\ pc' # "down" /\ written' = written /\ now' = now /\ reply' = NoReply
      /\ index' = index \/ expire_due
  BY DEF FlushBackup, TickBackup, flush_backup, flush_backup_fails, sync_backup, historyVars, Silent
<1>2. /\ HeldAfter(Len(backup))' = HeldAfter(Len(backup))
      /\ HeldAfter(backupFile)' = HeldAfter(Len(backup))
      /\ \A j \in Keys : index'[j] = index[j] => Stored(j)' = Stored(j)
  BY <1>1, JournalSame
<1>3. \A k \in Keys : \/ index'[k] = index[k]
                      \/ index'[k] = None /\ index[k] # None /\ Expired(index[k].exp)
  BY <1>0, <1>1, SweptExpired
<1> DEFINE gone == {k \in Keys : index'[k] # index[k]}
<1>4. ASSUME NEW k \in gone
      PROVE  StoreOf[k] # None /\ KV!Expired(StoreOf[k]) /\ Stored(k)' = None
  <2>1. index[k] # None /\ Expired(index[k].exp) /\ index'[k] = None
    BY <1>3
  <2>2. StoreOf[k] = [val |-> read_at(index[k].off), exp |-> index[k].exp] /\ StoreOf[k] # None
    BY <2>1, RefFacts DEF StoreOf, Stored
  <2> QED
    BY <2>1, <2>2 DEF KV!Expired, Expired, Stored
<1>5. StoreOf' = [k \in Keys |-> IF k \in gone THEN None ELSE StoreOf[k]]
  BY <1>2, <1>4 DEF StoreOf
<1>6. gone \in SUBSET {k \in Keys : StoreOf[k] # None /\ KV!Expired(StoreOf[k])}
  BY <1>4
<1> HIDE DEF gone
<1> QED
  BY <1>1, <1>2, <1>5, <1>6 DEF KV!Commit, KV!NoReply, NoReply, StoreOf

LEMMA QuietRefines ==
    ASSUME FlushCool \/ TickCool \/ Advance \/ UNCHANGED vars
    PROVE  KV!Sent \/ KV!Advance \/ UNCHANGED KV!kvVars
<1>1. /\ cool' = cool /\ backup' = backup /\ backupFile' = backupFile /\ index' = index
      /\ written' = written
  BY DEF FlushCool, TickCool, Advance, vars, diskVars, ramVars, historyVars, flush_cool, sync_cool
<1>2. /\ HeldAfter(Len(backup))' = HeldAfter(Len(backup))
      /\ HeldAfter(backupFile)' = HeldAfter(backupFile)
      /\ \A j \in Keys : Stored(j)' = Stored(j)
  BY <1>1, JournalSame
<1>3. StoreOf' = StoreOf
  BY <1>2 DEF StoreOf
<1>4. CASE FlushCool \/ TickCool
  <2>1. pc # "down" /\ pc' # "down" /\ now' = now /\ reply' = NoReply
    BY <1>4 DEF FlushCool, TickCool, Silent
  <2> QED
    BY <1>1, <1>2, <1>3, <2>1 DEF KV!Sent, KV!NoReply, NoReply, StoreOf
<1>5. CASE Advance
  <2>1. pc' = pc /\ now' = now + 1 /\ reply' = NoReply
    BY <1>5 DEF Advance, Silent
  <2> QED
    BY <1>1, <1>2, <1>3, <2>1 DEF KV!Advance, KV!NoReply, NoReply, StoreOf
<1>6. CASE UNCHANGED vars
  <2>1. pc' = pc /\ now' = now /\ reply' = reply
    BY <1>6 DEF vars
  <2> QED
    BY <1>1, <1>2, <1>3, <2>1 DEF KV!kvVars, StoreOf
<1> QED
  BY <1>4, <1>5, <1>6

\* A kill leaves the two files as the operating system had them: the journal
\* holds what was committed, and every value it points at is there.
LEMMA CrashRefines ==
    ASSUME Faults = {}, RefInv, NEW kind \in CrashKinds, Crash(kind)
    PROVE  KV!Crash
<1>0. /\ DiskTypeOK /\ backup \in Seq(Record) /\ cool \in Seq(Cell)
      /\ Len(backup) \in Nat /\ backupFile \in 0..Len(backup)
      /\ Len(cool) \in Nat /\ coolFile \in 0..Len(cool)
  BY RefFacts
<1>1. /\ cool' = SubSeq(cool, 1, coolFile) /\ backup' = SubSeq(backup, 1, backupFile)
      /\ backupFile' = Len(backup') /\ pc # "down" /\ pc' = "down" /\ reply' = NoReply
      /\ written' = written /\ now' = now /\ index' = [k \in Keys |-> None]
  BY <1>0 DEF Crash, CrashKinds, lose_unwritten, Survivors, CanTear, historyVars, Silent
<1>2. /\ Len(cool') = coolFile /\ \A i \in 1..coolFile : cool'[i] = cool[i]
      /\ Len(backup') = backupFile /\ \A i \in 1..backupFile : backup'[i] = backup[i]
  BY <1>0, <1>1, Prefix
<1>3. PICK n \in 0..Len(backup) : n = backupFile
  BY <1>0
<1>4. ReadsKept(n)
  <2> SUFFICES ASSUME NEW i \in 1..n, NEW off \in Nat, backup[i].op = "set", backup[i].off = off
               PROVE  read_at(off)' = read_at(off)
    BY DEF ReadsKept
  <2>1. i \in 1..Len(backup) /\ off <= coolFile
    BY <1>0, <1>3 DEF RefInv, KillInv, JournalBehindCool
  <2>2. PICK k, e : Backed(k, off, e)
    BY <2>1 DEF RefInv, KillInv, JournalBacked
  <2>3. off \in 1..Len(cool) /\ cool[off] \in Values /\ read_at(off) = cool[off]
    BY <2>2, BackedReads DEF RefInv, Backed, TypeOK
  <2>4. off \in 1..Len(cool') /\ cool'[off] = cool[off]
    BY <1>0, <1>2, <2>1, <2>3
  <2> QED
    BY <2>3, <2>4, DiskAssumption DEF read_at
<1>5. HeldAfter(n)' = HeldAfter(n)
  BY <1>0, <1>2, <1>3, <1>4, HeldStable
<1>6. HeldAfter(Len(backup))' = HeldAfter(n)' /\ HeldAfter(backupFile)' = HeldAfter(n)'
  BY <1>1, <1>2, <1>3 DEF HeldAfter, RecordsOf
<1>7. StoreOf' = [k \in Keys |-> None]
  BY <1>1 DEF StoreOf, Stored
<1> QED
  BY <1>1, <1>3, <1>5, <1>6, <1>7 DEF KV!Crash, KV!NoReply, NoReply, StoreOf

\* What a restart rebuilds for one key is what its last record left, or, once
\* that has expired, an older value that has not.
LEMMA RebuiltRecoverable ==
    ASSUME RefInv, pc = "down", NEW Q \in Readable, NEW k \in Keys, NEW entry,
           \/ Rebuilt(Q)[k] = None /\ entry = None
           \/ /\ Rebuilt(Q)[k] # None
              /\ entry = [val |-> read_at(Rebuilt(Q)[k].off), exp |-> Rebuilt(Q)[k].exp]
    PROVE  entry \in KV!Recoverable(k)
<1>0. /\ DiskTypeOK /\ Len(backup) \in Nat /\ backupFile = Len(backup) /\ now \in Nat
      /\ \A i \in 1..Len(backup) : backup[i] \in Record /\ backup[i].op # "torn"
  BY RefFacts, DiskBounds DEF RefInv, FileInv
<1>1. Q = 1..Len(backup)
  <2>1. Whole = 1..Len(backup)
    BY <1>0 DEF Whole
  <2>2. BeforeTear = 1..Len(backup)
    BY <1>0, <2>1 DEF BeforeTear
  <2> QED
    BY <2>1, <2>2 DEF Readable
<1>2. PICK n \in Nat : n = Len(backup) /\ n = backupFile
  BY <1>0
<1>3. PICK c : c = HeldAfter(backupFile)[k] /\ c = HeldAfter(n)[k]
  BY <1>2
<1>4. KV!Recoverable(k) =
          IF c = None \/ ~KV!Expired(c) THEN {c}
          ELSE {None} \cup {x \in {[val |-> w[2], exp |-> w[3]] : w \in {y \in written : y[1] = k}} :
                              ~KV!Expired(x)}
  BY <1>3 DEF KV!Recoverable
<1>5. CASE c = None /\ \A i \in 1..n : backup[i].key # k
  <2>1. Applied(Q, k) = {}
    BY <1>1, <1>2, <1>5 DEF Applied
  <2> QED
    BY <1>4, <1>5, <2>1 DEF Rebuilt
<1>6. ASSUME NEW i \in 1..n, LastOf(n, k, i), c = HeldBy(backup[i])
      PROVE  entry \in KV!Recoverable(k)
  <2>1. backup[i] \in Record /\ backup[i].key = k /\ i \in Q
    BY <1>0, <1>1, <1>2, <1>6 DEF LastOf
  <2>2. ASSUME backup[i].op = "set" => ~Expired(backup[i].exp)
        PROVE  Rebuilt(Q)[k] = LocOf(backup[i])
    <3>1. i \in Applied(Q, k) /\ Applied(Q, k) \in SUBSET (1..n)
      BY <1>1, <1>2, <2>1, <2>2 DEF Applied
    <3>2. Max(Applied(Q, k)) \in Applied(Q, k) /\ \A x \in Applied(Q, k) : x <= Max(Applied(Q, k))
      BY <3>1, MaxIn
    <3>3. PICK m \in 1..n : m = Max(Applied(Q, k)) /\ i <= m /\ backup[m].key = k
      BY <3>1, <3>2 DEF Applied
    <3>4. m = i
      BY <1>6, <3>3 DEF LastOf
    <3> QED
      BY <3>1, <3>3, <3>4 DEF Rebuilt
  <2>3. CASE backup[i].op # "set"
    BY <1>4, <1>6, <2>2, <2>3 DEF HeldBy, LocOf
  <2>4. CASE backup[i].op = "set"
    <3>1. c = [val |-> read_at(backup[i].off), exp |-> backup[i].exp]
      BY <1>6, <2>4 DEF HeldBy
    <3>2. KV!Expired(c) <=> Expired(backup[i].exp)
      BY <3>1 DEF KV!Expired, Expired
    <3>3. CASE ~Expired(backup[i].exp)
      <4>1. Rebuilt(Q)[k] = [off |-> backup[i].off, exp |-> backup[i].exp] /\ Rebuilt(Q)[k] # None
        <5>1. [off |-> backup[i].off, exp |-> backup[i].exp] \in Loc
          BY <2>1 DEF Record, Loc
        <5> QED
          BY <2>2, <2>4, <3>3, <5>1, WorkerAssumption DEF LocOf
      <4>2. entry = c
        BY <3>1, <4>1
      <4> QED
        BY <1>4, <3>2, <3>3, <4>2
    <3>4. CASE Expired(backup[i].exp)
      <4>1. c # None
        <5>1. c \in Entry
          BY <1>0, <2>1, <3>1, ReadAtType DEF Entry, Record
        <5> QED
          BY <5>1, ShardAssumption
      <4>2. CASE Rebuilt(Q)[k] = None
        BY <1>4, <3>2, <3>4, <4>1, <4>2
      <4>3. CASE Rebuilt(Q)[k] # None
        <5>1. PICK j \in 1..Len(backup) :
                 /\ backup[j].op = "set" /\ backup[j].key = k /\ ~Expired(backup[j].exp)
                 /\ Rebuilt(Q)[k] = [off |-> backup[j].off, exp |-> backup[j].exp]
          BY <1>0, <4>3, RebuiltFrom
        <5>2. PICK off, e : off = backup[j].off /\ e = backup[j].exp
          OBVIOUS
        <5>3. entry = [val |-> read_at(off), exp |-> e]
          BY <4>3, <5>1, <5>2
        <5>4. Backed(k, off, e)
          BY <5>1, <5>2 DEF RefInv, KillInv, JournalBacked
        <5>5. PICK w : w = <<k, read_at(off), e>> /\ w \in written
          BY <5>4, BackedReads DEF RefInv
        <5>6. ~KV!Expired(entry)
          BY <5>1, <5>2, <5>3 DEF KV!Expired, Expired
        <5>7. entry = [val |-> w[2], exp |-> w[3]] /\ w[1] = k
          BY <5>3, <5>5
        <5> QED
          BY <1>4, <3>2, <3>4, <4>1, <5>5, <5>6, <5>7
      <4> QED
        BY <4>2, <4>3
    <3> QED
      BY <3>3, <3>4
  <2> QED
    BY <2>3, <2>4
<1> QED
  BY <1>3, <1>5, <1>6, HeldAfterLast

LEMMA StartRefines ==
    ASSUME RefInv, Start
    PROVE  KV!Recover
<1>1. /\ pc = "down" /\ pc' # "down" /\ cool' = cool /\ backup' = backup /\ backupFile' = backupFile
      /\ written' = written /\ now' = now /\ reply' = NoReply
  BY DEF Start, start, open, historyVars, Silent
<1>2. PICK Q \in Readable : index' = Rebuilt(Q)
  BY RefFacts, StartWhole DEF Start, RefInv, FileInv
<1>3. /\ HeldAfter(Len(backup))' = HeldAfter(Len(backup))
      /\ HeldAfter(backupFile)' = HeldAfter(backupFile)
  BY <1>1, JournalSame
<1>4. ASSUME NEW k \in Keys PROVE StoreOf'[k] \in KV!Recoverable(k)
  <2>1. PICK entry : entry = StoreOf'[k]
    OBVIOUS
  <2>2. \/ Rebuilt(Q)[k] = None /\ entry = None
        \/ /\ Rebuilt(Q)[k] # None
           /\ entry = [val |-> read_at(Rebuilt(Q)[k].off), exp |-> Rebuilt(Q)[k].exp]
    BY <1>1, <1>2, <2>1 DEF StoreOf, Stored, read_at
  <2>3. entry \in KV!Recoverable(k)
    BY <1>1, <2>2, RebuiltRecoverable
  <2> QED
    BY <2>1, <2>3
<1>5. StoreOf' \in [Keys -> UNION {KV!Recoverable(k) : k \in Keys}]
  BY <1>4 DEF StoreOf
<1> QED
  BY <1>1, <1>3, <1>4, <1>5 DEF KV!Recover, KV!NoReply, NoReply, StoreOf

LEMMA InitRefines == Init => KV!Init
<1> SUFFICES ASSUME Init PROVE KV!Init
  OBVIOUS
<1>1. /\ pc = "down" /\ backup = <<>> /\ backupFile = 0 /\ Len(backup) = 0
      /\ index = [k \in Keys |-> None] /\ written = {} /\ now = 1 /\ reply = NoReply
  BY DEF Init, DiskInit
<1>2. HeldAfter(0) = [k \in Keys |-> None]
  BY DEF HeldAfter, RecordsOf
<1>3. StoreOf = [k \in Keys |-> None]
  BY <1>1 DEF StoreOf, Stored
<1> QED
  BY <1>1, <1>2, <1>3 DEF KV!Init, KV!NoReply, NoReply, StoreOf

\* Every step of the event loop is a step of KVStore, or one it does not see.
LEMMA StepRefines ==
    ASSUME Faults = {}
    PROVE  RefInv /\ TypeOK' /\ [Next]_vars => [KV!Next]_(KV!kvVars)
<1> SUFFICES ASSUME RefInv, TypeOK', [Next]_vars PROVE KV!Next \/ UNCHANGED KV!kvVars
  OBVIOUS
<1>1. ASSUME NEW k \in Keys, NEW v \in Values, Set(k, v) PROVE KV!Next
  <2>1. write("set", k, v, 0) /\ InBatch /\ written' = written \cup {<<k, v, 0>>} /\ now' = now
    BY <1>1 DEF Set, set
  <2>2. KV!Put("set", k, v, 0)
    BY <2>1, PutRefines
  <2> QED
    BY <2>2 DEF KV!Next
<1>2. ASSUME NEW k \in Keys, NEW v \in Values, NEW ttl \in TTLs, SetEx(k, v, ttl) PROVE KV!Next
  <2>1. /\ write("setex", k, v, now + ttl) /\ InBatch /\ now' = now
        /\ written' = written \cup {<<k, v, now + ttl>>}
    BY <1>2 DEF SetEx, set_ex
  <2>2. now + ttl \in Nat
    BY RefFacts, ShardAssumption
  <2>3. KV!Put("setex", k, v, now + ttl)
    BY <2>1, <2>2, PutRefines
  <2> QED
    BY <2>3 DEF KV!Next
<1>3. ASSUME NEW k \in Keys, Del(k) PROVE KV!Next
  BY <1>3, DelRefines DEF KV!Next
<1>4. ASSUME NEW k \in Keys, Get(k) PROVE KV!Next
  BY <1>4, GetRefines DEF KV!Next
<1>5. CASE FlushBackup \/ TickBackup
  BY <1>5, CommitRefines DEF KV!Next
<1>6. CASE FlushCool \/ TickCool \/ Advance \/ UNCHANGED vars
  BY <1>6, QuietRefines DEF KV!Next
<1>7. ASSUME NEW kind \in CrashKinds, Crash(kind) PROVE KV!Next
  BY <1>7, CrashRefines DEF KV!Next
<1>8. CASE Start
  BY <1>8, StartRefines DEF KV!Next
<1>9. ~FlushFails /\ ~TickFails
  BY DEF FlushFails, TickFails, flush_cool_fails, flush_backup_fails
<1> QED
  BY <1>1, <1>2, <1>3, <1>4, <1>5, <1>6, <1>7, <1>8, <1>9 DEF Next

\* A shard that nothing worse happens to than being killed implements KVStore,
\* for any keys, values, cache budget and sweep budget: eviction, flushing and
\* sweeping cannot be seen, a flushed write survives every kill, and an
\* unflushed one is gone altogether (state.rs, start_worker).
THEOREM ShardImplementsKVStore ==
    ASSUME Faults = {}
    PROVE  Spec => ImplementsKVStore
<1>1. Spec => []RefInv
  BY KillInvariant, HeapAlwaysExpires, FilesWhole, PTL DEF RefInv
<1>2. RefInv /\ [Next]_vars => TypeOK'
  BY NextType DEF RefInv
<1>3. RefInv /\ [Next]_vars => [KV!Next]_(KV!kvVars)
  BY <1>2, StepRefines
<1> QED
  BY <1>1, <1>3, InitRefines, PTL DEF Spec, ImplementsKVStore, KV!Spec
=============================================================================
