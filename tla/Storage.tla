------------------------------ MODULE Storage ------------------------------
(***************************************************************************)
(* What the gateway keeps of a file, as the FUSE handlers and the          *)
(* write-back daemon see it: the row of the metadata database, the object  *)
(* in the bucket, and the local staging file.                              *)
(*                                                                         *)
(* The staging path is a fixed hash of the file's path, so a row's         *)
(* LocalStagingPath is one of two values and is the flag "staged" here.    *)
(* The mod_time column is compared with one thing only, the write-back     *)
(* idle time: it is the flag "idle".  Extended attributes, etag and is_dir *)
(* do not take part.  A file is a few blocks; every write puts a new       *)
(* version number in one block, so that versions tell old data from new.   *)
(***************************************************************************)
EXTENDS Naturals, FiniteSets

CONSTANTS
  Paths,      \* the files of the mount
  Inodes,     \* inodes of the staging directory's file system
  NumBlocks,  \* blocks of a file
  MaxWrites,  \* bound on the version counter
  DBFaults,   \* can a call of the database fail?
  None        \* no row, no object, no file

Blocks   == 0 .. NumBlocks - 1
Sizes    == 0 .. NumBlocks
Versions == 0 .. MaxWrites

Row     == [size : Sizes, idle : BOOLEAN, dirty : BOOLEAN,
            staged : BOOLEAN, verified : BOOLEAN]
Content == [len : Sizes, blk : [Blocks -> Versions]]

ASSUME StorageAssumption ==
  /\ NumBlocks \in Nat \ {0}
  /\ MaxWrites \in Nat \ {0}
  /\ DBFaults \in BOOLEAN
  /\ None \notin Inodes
  /\ None \notin Row
  /\ None \notin Content
  /\ None \notin Sizes

VARIABLES
  row,   \* file_entries: the row of each path, or None
  obj,   \* the bucket: the object of each path, or None
  link,  \* the staging directory: the inode linked at each path's name
  data,  \* the content of each inode, linked or only held open
  wid    \* the last version number handed to a write

storageVars == <<row, obj, link, data, wid>>

-----------------------------------------------------------------------------
(* Contents.                                                               *)

Empty == [len |-> 0, blk |-> [b \in Blocks |-> 0]]

\* WriteAt of version v at block b: the file grows, a gap reads as zero.
WriteBlock(c, b, v) ==
  [len |-> IF c.len > b THEN c.len ELSE b + 1,
   blk |-> [c.blk EXCEPT ![b] = v]]

\* The first k blocks of f copied over c from offset zero.
Overlay(c, f, k) ==
  [len |-> IF c.len > k THEN c.len ELSE k,
   blk |-> [b \in Blocks |-> IF b < k THEN f.blk[b] ELSE c.blk[b]]]

\* c holds everything that f holds, or later versions of it.
Covers(c, f) ==
  /\ c.len >= f.len
  /\ \A b \in Blocks : b < f.len => c.blk[b] >= f.blk[b]

-----------------------------------------------------------------------------
(* The repository.  Every call runs under the repository's mutex.          *)

\* The row UpdateEntry leaves for entry e where row r was: a missing row is
\* inserted; an existing one is assigned the fields of e that are not zero.
UpdateEntry(r, e) ==
  IF r = None THEN e
  ELSE [size     |-> IF e.size = 0 THEN r.size ELSE e.size,
        idle     |-> e.idle,
        dirty    |-> r.dirty \/ e.dirty,
        staged   |-> r.staged \/ e.staged,
        verified |-> r.verified \/ e.verified]

\* A write of row r at p whose error, if the database fails, is ignored.
Store(p, r) ==
  \/ row' = [row EXCEPT ![p] = r]
  \/ DBFaults /\ UNCHANGED row

\* UpdateEntryFields of p with a result the caller ignores: r is the row with
\* the columns updated; without a row nothing is written.
StoreFields(p, r) ==
  IF row[p] = None THEN UNCHANGED row ELSE Store(p, r)

-----------------------------------------------------------------------------
StorageTypeOK ==
  /\ row  \in [Paths -> Row \cup {None}]
  /\ obj  \in [Paths -> Content \cup {None}]
  /\ link \in [Paths -> Inodes \cup {None}]
  /\ data \in [Inodes -> Content]
  /\ wid  \in Versions

\* A file that an earlier synchronisation found in the bucket.
SyncedRow     == [size |-> NumBlocks, idle |-> TRUE, dirty |-> FALSE,
                  staged |-> FALSE, verified |-> TRUE]
SyncedContent == [len |-> NumBlocks, blk |-> [b \in Blocks |-> 1]]

\* Some files are in the bucket and in the database; nothing is staged yet.
StorageInit(synced) ==
  /\ row  = [p \in Paths |-> IF p \in synced THEN SyncedRow ELSE None]
  /\ obj  = [p \in Paths |-> IF p \in synced THEN SyncedContent ELSE None]
  /\ link = [p \in Paths |-> None]
  /\ data = [i \in Inodes |-> Empty]
  /\ wid  = 1
=============================================================================
