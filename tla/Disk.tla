-------------------------------- MODULE Disk --------------------------------
(***************************************************************************)
(* The per-shard disk layer (src/src/shards/disk.rs): two append-only      *)
(* files, cool.log for the values and backup.log for the index journal,    *)
(* each written through a BufWriter.                                       *)
(*                                                                         *)
(* A file is one sequence holding what was handed to its BufWriter; a      *)
(* prefix of it (coolFile, backupFile) has reached the operating system,   *)
(* and a prefix of that (coolSync, backupSync) has been fsynced.           *)
(*                                                                         *)
(* cool.log is a sequence of cells.  A SET is two cells, the header with   *)
(* the key and then the value; a DEL is one cell.  Nothing in the program  *)
(* parses cool.log, so header cells carry no content: they are Junk, and   *)
(* so is a value that was cut short.  Offsets are 1-based cell positions,  *)
(* and an offset stands for the bytes val_off .. val_off + vlen.  Values   *)
(* are not empty: an empty one needs nothing from the file.                *)
(*                                                                         *)
(* backup.log is a sequence of records.  A record of which only the first  *)
(* fields were written has op "torn".                                      *)
(***************************************************************************)
EXTENDS Integers, Sequences, FiniteSetsExt

CONSTANTS
    Keys,       \* the keys clients use
    Values,     \* the values clients store
    None,       \* no value, no location
    Junk,       \* bytes of cool.log that are not a whole value
    Faults      \* which failures may happen, a subset of FaultKinds

\* spill: a batch outgrows a BufWriter, which then writes out part of itself
\* power: a crash takes the operating system's unsynced pages with it
\* io:    a write, flush or read returns an error
FaultKinds == {"spill", "power", "io"}

ASSUME DiskAssumption ==
    /\ None \notin Values
    /\ Junk \notin Values
    /\ Faults \subseteq FaultKinds

VARIABLES
    cool,       \* cells handed to the cool.log writer
    coolFile,   \* how many of them are in the file
    coolSync,   \* how many of them are durable
    cool_len,   \* Disk.cool_len: where the next append is believed to land
    backup,     \* records handed to the backup.log writer
    backupFile,
    backupSync

diskVars == <<cool, coolFile, coolSync, cool_len, backup, backupFile, backupSync>>

Cell == Values \cup {Junk}

Record == [op: {"set", "del", "torn"}, key: Keys, off: Nat, exp: Nat]

DiskTypeOK ==
    /\ cool \in Seq(Cell)
    /\ backup \in Seq(Record)
    /\ cool_len \in Nat
    /\ coolFile \in 0..Len(cool) /\ coolSync \in 0..coolFile
    /\ backupFile \in 0..Len(backup) /\ backupSync \in 0..backupFile

DiskInit ==
    /\ cool = <<>> /\ coolFile = 0 /\ coolSync = 0 /\ cool_len = 0
    /\ backup = <<>> /\ backupFile = 0 /\ backupSync = 0

-----------------------------------------------------------------------------
(***************************************************************************)
(* BufWriter.  A write_all that does not fit first empties the whole       *)
(* buffer into the file, and a slice as large as the buffer goes straight  *)
(* through, so the file may grow to any point of the record being written. *)
(***************************************************************************)
Spill(file, before, after) ==
    {file} \cup (IF "spill" \in Faults THEN before..after ELSE {})

SpillBoth ==
    /\ coolFile' \in Spill(coolFile, Len(cool), Len(cool'))
    /\ backupFile' \in Spill(backupFile, Len(backup), Len(backup'))
    /\ UNCHANGED <<coolSync, backupSync>>

SetRecord(k, off, e) == [op |-> "set", key |-> k, off |-> off, exp |-> e]

DelRecord(k) == [op |-> "del", key |-> k, off |-> 0, exp |-> 0]

Tear(r) == [r EXCEPT !.op = "torn"]

\* The offset append_set returns for the value: past the header and the key.
ValOff == cool_len + 2

append_set(k, v, e) ==
    /\ cool' = cool \o <<Junk, v>>
    /\ cool_len' = cool_len + 2
    /\ backup' = Append(backup, SetRecord(k, ValOff, e))
    /\ SpillBoth

append_del(k) ==
    /\ cool' = Append(cool, Junk)
    /\ cool_len' = cool_len + 1
    /\ backup' = Append(backup, DelRecord(k))
    /\ SpillBoth

\* The early returns of the `?` operators.  A write to a file that fails has
\* still written some prefix of the buffer, and the rest stays buffered: a
\* piece of a cool.log record that cool_len does not count, or a torn
\* backup.log record.
append_fails(cells, record) ==
    /\ "io" \in Faults
    /\ \/ /\ cool' \in {cool, Append(cool, Junk)}
          /\ coolFile' \in coolFile..Len(cool')
          /\ UNCHANGED <<cool_len, backup, backupFile>>
       \/ /\ cool' = cool \o cells
          /\ coolFile' \in Spill(coolFile, Len(cool), Len(cool'))
          /\ cool_len' = cool_len + Len(cells)
          /\ backup' \in {backup, Append(backup, Tear(record))}
          /\ backupFile' \in backupFile..Len(backup')
    /\ UNCHANGED <<coolSync, backupSync>>

append_set_fails(k, v, e) == append_fails(<<Junk, v>>, SetRecord(k, ValOff, e))

append_del_fails(k) == append_fails(<<Junk>>, DelRecord(k))

\* read_at flushes cool.log (and only cool.log) before the pread.
flush_cool ==
    /\ coolFile' = Len(cool)
    /\ UNCHANGED <<cool, coolSync, cool_len, backup, backupFile, backupSync>>

\* Mutant: one record too many is counted as flushed.
flush_backup_too_far ==
    /\ backupFile' = Len(backup) + 1
    /\ UNCHANGED <<cool, coolFile, coolSync, cool_len, backup, backupSync>>

flush_backup ==
    /\ backupFile' = Len(backup)
    /\ UNCHANGED <<cool, coolFile, coolSync, cool_len, backup, backupSync>>

sync_cool ==
    /\ coolFile' = Len(cool) /\ coolSync' = Len(cool)
    /\ UNCHANGED <<cool, cool_len, backup, backupFile, backupSync>>

\* Mutant: the journal is flushed and not synced.
sync_backup_only_flushes ==
    /\ backupFile' = Len(backup)
    /\ UNCHANGED <<cool, coolFile, coolSync, cool_len, backup, backupSync>>

sync_backup ==
    /\ backupFile' = Len(backup) /\ backupSync' = Len(backup)
    /\ UNCHANGED <<cool, coolFile, coolSync, cool_len, backup>>

\* The early returns of flush and fsync.
flush_cool_fails ==
    /\ "io" \in Faults
    /\ coolFile' \in coolFile..Len(cool)
    /\ UNCHANGED <<cool, coolSync, cool_len, backup, backupFile, backupSync>>

flush_backup_fails ==
    /\ "io" \in Faults
    /\ backupFile' \in backupFile..Len(backup)
    /\ UNCHANGED <<cool, coolFile, coolSync, cool_len, backup, backupSync>>

\* pread of the value at off, None when it ends past the end of the file; so
\* it does when a piece of a record is the last thing in the file.
read_at(off) ==
    IF off \in 1..Len(cool) /\ (off = Len(cool) => cool[off] # Junk) THEN cool[off] ELSE None

-----------------------------------------------------------------------------
(***************************************************************************)
(* What a crash leaves of the two files.  Killing the process loses the    *)
(* BufWriters; losing power also loses any suffix of the unsynced pages of *)
(* each file, independently.  A record cut in two by the buffer or by the  *)
(* end of the surviving pages leaves its first part behind.                *)
(***************************************************************************)
Survivors(kind, sync, file) == IF kind = "power" THEN sync..file ELSE {file}

CanTear(n, file, len) == n < file \/ (Faults \cap {"spill", "io"} # {} /\ n < len)

lose_unwritten(kind) ==
    /\ \E n \in Survivors(kind, coolSync, coolFile) :
          \/ cool' = SubSeq(cool, 1, n)
          \/ /\ CanTear(n, coolFile, Len(cool))
             /\ cool' = Append(SubSeq(cool, 1, n), Junk)
    /\ \E n \in Survivors(kind, backupSync, backupFile) :
          \/ backup' = SubSeq(backup, 1, n)
          \/ /\ CanTear(n, backupFile, Len(backup))
             /\ backup' = Append(SubSeq(backup, 1, n), Tear(backup[n + 1]))
    /\ coolFile' = Len(cool') /\ backupFile' = Len(backup')
    /\ coolSync' = IF kind = "power" THEN Len(cool') ELSE coolSync
    /\ backupSync' = IF kind = "power" THEN Len(backup') ELSE backupSync
    /\ UNCHANGED cool_len

(***************************************************************************)
(* Disk::open and replay_backup.  The journal is parsed up to its end or   *)
(* its first torn record.  The file is reopened for append and not         *)
(* truncated, so once records follow a torn one the parser reads on from   *)
(* the middle of a record: which of the later records it then recognises   *)
(* depends on their bytes, here any of them (and Worker's start adds       *)
(* records that nobody wrote).                                             *)
(***************************************************************************)
Whole == {i \in 1..Len(backup) : backup[i].op # "torn"}

BeforeTear == {i \in Whole : \A j \in 1..i : j \in Whole}

Readable == {R \in SUBSET Whole : BeforeTear \subseteq R}

\* Mutant: cool_len is not initialised from the size of the file.
open_from_zero ==
    /\ cool_len' = 0
    /\ UNCHANGED <<cool, coolFile, coolSync, backup, backupFile, backupSync>>

open ==
    /\ cool_len' = Len(cool)
    /\ UNCHANGED <<cool, coolFile, coolSync, backup, backupFile, backupSync>>
=============================================================================
