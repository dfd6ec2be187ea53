------------------------------- MODULE S3Sync -------------------------------
(***************************************************************************)
(* The synchronisation of the metadata database from the bucket: a run     *)
(* lists the bucket page by page, brings the row of each object it meets   *)
(* up to date, and at the end removes the rows of files it did not meet.   *)
(* The bucket, and the rest of the gateway, go on meanwhile.               *)
(*                                                                         *)
(* Left out: rows of directories, extended attributes, the etag, and a     *)
(* HeadObject that fails when the size in the listing needs verification.  *)
(***************************************************************************)
EXTENDS Storage

CONSTANT ObjectSizes   \* sizes of the objects that others put in the bucket

Item == [path : Paths, size : Sizes]

ASSUME SyncAssumption == ObjectSizes \subseteq Sizes /\ None \notin Item

VARIABLES
  syncPc,    \* where the goroutine is
  unlisted,  \* what the pages still to come may name
  page,      \* objects of the current page still to process
  item,      \* the object being processed
  existing,  \* its row as it was read, while its staging file is removed
  keys,      \* s3Keys: the paths this run has met
  doomed,    \* rows still to remove
  gone       \* history: paths that had no object at some time of this run

syncVars == <<syncPc, unlisted, page, item, existing, keys, doomed>>
allVars  == <<storageVars, syncVars, gone>>

SyncPcs == {"idle", "list", "entry", "drop", "upsert", "reconcile", "delete"}

SyncInit ==
  /\ syncPc = "idle" /\ unlisted = {} /\ page = {} /\ item = None
  /\ existing = None /\ keys = {} /\ doomed = {}

\* Faulty: the keys of one run are still there in the next.
RunOverKept ==
  /\ syncPc' = "idle" /\ unlisted' = {} /\ page' = {} /\ item' = None
  /\ existing' = None /\ doomed' = {}
  /\ UNCHANGED keys

\* The run is over, whether it succeeded or not.
RunOver ==
  /\ syncPc' = "idle" /\ unlisted' = {} /\ page' = {} /\ item' = None
  /\ existing' = None /\ keys' = {} /\ doomed' = {}

-----------------------------------------------------------------------------
(* SyncFromS3                                                              *)

SyncStart ==
  /\ syncPc = "idle"
  /\ syncPc' = "list" /\ unlisted' = Paths
  /\ UNCHANGED <<storageVars, page, item, existing, keys, doomed>>

\* ListObjectsV2 returns a page: what is there of some of the names.  A size
\* that looks wrong is verified with HeadObject.
ListPage(P) ==
  /\ syncPc = "list" /\ P # {} /\ P \subseteq unlisted
  /\ page' = {[path |-> p, size |-> obj[p].len] : p \in {q \in P : obj[q] # None}}
  /\ unlisted' = unlisted \ P
  /\ syncPc' = "entry"
  /\ UNCHANGED <<storageVars, item, existing, keys, doomed>>

\* A request fails: the run is over and nothing is reconciled.
ListFails ==
  /\ syncPc = "list"
  /\ RunOver
  /\ UNCHANGED storageVars

\* Faulty: the pending edits of a row are not looked at.
LeftAloneByAge(p, newer) == row[p] # None /\ newer

\* The row of p is left alone: it has edits, or is newer than the object.
LeftAlone(p, newer) == row[p] # None /\ (row[p].dirty \/ newer)

\* The next object's key is recorded and its row is read.  If the row names a
\* staging file, that is stale.  An error of the database counts as no row.
Examine(e, newer) ==
  /\ syncPc = "entry" /\ e \in page
  /\ page' = page \ {e}
  /\ keys' = keys \cup {e.path}
  /\ \/ LeftAlone(e.path, newer) /\ UNCHANGED <<syncPc, item, existing>>
     \/ /\ ~LeftAlone(e.path, newer)
        /\ IF row[e.path] # None /\ row[e.path].staged
             THEN syncPc' = "drop" /\ existing' = row[e.path]
             ELSE syncPc' = "upsert" /\ UNCHANGED existing
        /\ item' = e
     \/ DBFaults /\ syncPc' = "upsert" /\ item' = e /\ UNCHANGED existing
  /\ UNCHANGED <<storageVars, unlisted, doomed>>

\* The staging file that the row named goes, whatever the row says by now.
DropStaging ==
  /\ syncPc = "drop"
  /\ link' = [link EXCEPT ![item.path] = None]
  /\ syncPc' = "upsert" /\ existing' = None
  /\ UNCHANGED <<row, obj, data, wid, unlisted, page, item, keys, doomed>>

SyncEntry(s, old) ==
  [size |-> s, idle |-> old, dirty |-> FALSE, staged |-> FALSE, verified |-> TRUE]

\* The row is stored; if the database refuses, the run is over.
Upsert(old) ==
  /\ syncPc = "upsert"
  /\ \/ /\ row' = [row EXCEPT ![item.path] = UpdateEntry(row[item.path], SyncEntry(item.size, old))]
        /\ syncPc' = "entry" /\ item' = None
        /\ UNCHANGED <<unlisted, page, existing, keys, doomed>>
     \/ DBFaults /\ RunOver /\ UNCHANGED row
  /\ UNCHANGED <<obj, link, data, wid>>

\* Faulty: that the listing goes on is not looked at.
PageDoneUntruncated ==
  /\ syncPc = "entry" /\ page = {}
  /\ syncPc' = "reconcile"
  /\ UNCHANGED <<storageVars, unlisted, page, item, existing, keys, doomed>>

PageDone ==
  /\ syncPc = "entry" /\ page = {}
  /\ syncPc' = IF unlisted = {} THEN "reconcile" ELSE "list"
  /\ UNCHANGED <<storageVars, unlisted, page, item, existing, keys, doomed>>

-----------------------------------------------------------------------------
(* reconcileDeletedEntries                                                 *)

\* All rows are read, dirty or not.
Reconcile ==
  /\ syncPc = "reconcile"
  /\ \/ /\ doomed' = {p \in Paths : row[p] # None} \ keys
        /\ syncPc' = "delete"
        /\ UNCHANGED <<unlisted, page, item, existing, keys>>
     \/ DBFaults /\ RunOver
  /\ UNCHANGED storageVars

DeleteRow(p) ==
  /\ syncPc = "delete" /\ p \in doomed
  /\ Store(p, None)
  /\ doomed' = doomed \ {p}
  /\ UNCHANGED <<obj, link, data, wid, syncPc, unlisted, page, item, existing, keys>>

SyncDone ==
  /\ syncPc = "delete" /\ doomed = {}
  /\ RunOver
  /\ UNCHANGED storageVars

\* A step of the goroutine that ticks; newer: the row met is newer than the object.
SyncStep(newer) ==
  \/ SyncStart \/ ListFails \/ DropStaging \/ PageDone \/ Reconcile \/ SyncDone
  \/ \E P \in SUBSET unlisted : ListPage(P)
  \/ \E e \in page : Examine(e, newer)
  \/ \E old \in BOOLEAN : Upsert(old)
  \/ \E p \in doomed : DeleteRow(p)

-----------------------------------------------------------------------------
(* Runs that end anywhere, and a bucket that others write, under a database *)
(* that nobody else writes: no row is dirty, or newer than the object.     *)

\* The run ends where it is: its context is cancelled, or the gateway dies.
Stopped ==
  /\ syncPc # "idle"
  /\ RunOver
  /\ UNCHANGED storageVars

ForeignPut(p, s) ==
  /\ wid < MaxWrites
  /\ wid' = wid + 1
  /\ obj' = [obj EXCEPT ![p] = [len |-> s, blk |-> [b \in Blocks |-> IF b < s THEN wid' ELSE 0]]]
  /\ UNCHANGED <<row, link, data, syncVars>>

ForeignDelete(p) ==
  /\ obj[p] # None
  /\ obj' = [obj EXCEPT ![p] = None]
  /\ UNCHANGED <<row, link, data, wid, syncVars>>

NoteGone ==
  gone' = {p \in Paths : obj'[p] = None} \cup (IF syncPc' = "idle" THEN {} ELSE gone)

Init ==
  /\ \E synced \in SUBSET Paths : StorageInit(synced)
  /\ SyncInit
  /\ gone = {p \in Paths : obj[p] = None}

Next ==
  /\ \/ SyncStep(FALSE) \/ Stopped
     \/ \E p \in Paths : ForeignDelete(p) \/ \E s \in ObjectSizes : ForeignPut(p, s)
  /\ NoteGone

Spec == Init /\ [][Next]_allVars

-----------------------------------------------------------------------------
SyncTypeOK ==
  /\ syncPc \in SyncPcs /\ unlisted \subseteq Paths /\ page \subseteq Item
  /\ item \in Item \cup {None} /\ existing \in Row \cup {None} /\ keys \subseteq Paths /\ doomed \subseteq Paths

\* An object is at hand where one is used, and its row where that is used.
Shape ==
  /\ (item # None) <=> (syncPc \in {"drop", "upsert"})
  /\ (existing # None) <=> (syncPc = "drop")

\* Every variable has its type, and the locals of a run their shape.
TypeOK == StorageTypeOK /\ SyncTypeOK /\ gone \subseteq Paths /\ Shape

\* A row is removed only if its object was missing at some time of the run, in
\* spite of objects that come and go between the pages, of runs that end early
\* and of rows the run has made itself ("any entry in the local DB that no
\* longer has a corresponding object in S3 will be removed").
PurgesOnlyGone ==
  [][\A p \in Paths : row[p] # None /\ row'[p] = None => p \in gone]_allVars

\* When others stop changing the bucket, the rows come to say what is in it and
\* go on saying so (SyncFromS3 populates the repository from the bucket).  It
\* is said of objects that are not empty, as ObjectSizes has no 0: an object
\* replaced by an empty one keeps its old size in the row, because an update by
\* struct leaves out zero fields (UpdateEntry).
Agrees(p) ==
  IF obj[p] = None THEN row[p] = None ELSE row[p] # None /\ row[p].size = obj[p].len

Converges == <>[](\A p \in Paths : Agrees(p))
=============================================================================
