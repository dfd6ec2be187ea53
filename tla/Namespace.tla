----------------------------- MODULE Namespace -----------------------------
(***************************************************************************)
(* The tree of names: the rows of files and directories, the objects and   *)
(* directory markers in the bucket, and who changes them: Mkdir, Create,   *)
(* Remove and Rename of a directory, the daemon, the synchronisation, and  *)
(* others who write to the bucket.                                         *)
(*                                                                         *)
(* A name is a file or a directory for good.  The kernel locks the         *)
(* directories that a request is about, so requests that could meet run    *)
(* one after another, here one at a time; the synchronisation interleaves  *)
(* with them call by call.  Contents, sizes and dirty rows are elsewhere:  *)
(* a file without an object is one that waits for the daemon.              *)
(***************************************************************************)
EXTENDS Naturals

CONSTANTS
  Files, Dirs,  \* paths; the root is not among them
  Above,        \* the directories on the way from the root to each path
  Rank,         \* the order in which the bucket lists the keys, from 1
  Like,         \* the directories whose children LIKE takes for those of each directory
  MaxChanges,   \* bound on requests, foreign changes and failures of a listing
  None

Paths == Files \cup Dirs

Below(d) == {p \in Paths : d \in Above[p]}

\* The directories directly above: children have all of d's and d itself.
Children(d) == {p \in Below(d) : Above[p] = Above[d] \cup {d}}

Steps    == {"marker", "rollback", "object", "unrow", "replace", "insert", "unlink", "copy", "delete"}
Op       == [at : Steps, path : Paths, to : Paths]
SyncPcs  == {"idle", "list", "entry", "parents", "row", "reconcile", "delete"}

ASSUME NamespaceAssumption ==
  /\ Files \cap Dirs = {}
  /\ Above \in [Paths -> SUBSET Dirs]
  /\ \A p \in Paths : p \notin Above[p] /\ \A d \in Above[p] : Above[d] \subseteq Above[p]
  /\ Rank \in [Paths -> Nat \ {0}] /\ \A p, q \in Paths : Rank[p] = Rank[q] => p = q
  /\ \A d \in Dirs : \A p \in Below(d) : \E q \in Children(d) : p = q \/ q \in Above[p]
  /\ Like \in [Dirs -> SUBSET Dirs] /\ \A d \in Dirs : d \in Like[d]
  /\ MaxChanges \in Nat
  /\ None \notin Op /\ None \notin Paths

VARIABLES
  rows,     \* the paths that have a row
  objs,     \* the bucket: files with an object, directories with a marker "dir/"
  op,       \* the handler on names that is running, or None
  syncPc,   \* where the synchronisation is
  last,     \* the rank of the last key listed
  page,     \* objects of the current page still to process
  item,     \* the object being processed
  keys,     \* s3Keys: the paths this run has met
  seen,     \* seenDirs: the directories this run has found or made
  doomed,   \* rows still to remove
  changes,
  raced     \* history: rows that a race has left, or may leave, without their directory

bucketVars == <<objs, changes>>
syncVars   == <<syncPc, last, page, item, keys, seen, doomed>>
vars       == <<rows, objs, op, syncVars, changes, raced>>

Idle == syncPc = "idle"

SyncInit ==
  /\ syncPc = "idle" /\ last = 0 /\ page = {} /\ item = None
  /\ keys = {} /\ seen = {} /\ doomed = {}

\* A bucket that was synchronised before, with or without markers.
Init ==
  /\ rows \in {R \in SUBSET Paths : \A p \in R : Above[p] \subseteq R}
  /\ objs \in SUBSET rows /\ Files \cap rows \subseteq objs
  /\ op = None /\ SyncInit /\ changes = 0 /\ raced = {}

-----------------------------------------------------------------------------
(* Handlers on names.                                                      *)

Change == changes < MaxChanges /\ changes' = changes + 1

\* The kernel finds the name through its directories.
Found(p) == Above[p] \subseteq rows

Start(step, p, q) == op = None /\ op' = [at |-> step, path |-> p, to |-> q]
At(step)   == op # None /\ op.at = step
GoTo(step) == op' = [op EXCEPT !.at = step]
Return     == op' = None

\* Rows that go are forgotten; nothing else is noted.
Remove(P) == rows' = rows \ P /\ raced' = raced \ P
Insert(p) == rows' = rows \cup {p} /\ UNCHANGED raced
SameRows  == UNCHANGED <<rows, raced>>

\* The row comes first, then the marker.
Mkdir(d) ==
  /\ d \in Dirs \ rows /\ Found(d) /\ Change
  /\ Start("marker", d, d)
  /\ Insert(d)
  /\ UNCHANGED <<objs, syncVars>>

\* CreateDirectory puts the marker.
MkdirMarker ==
  /\ At("marker")
  /\ Return
  /\ objs' = objs \cup {op.path}
  /\ SameRows /\ UNCHANGED <<changes, syncVars>>

\* It fails, or its reply is lost: the row is rolled back.
MkdirFails ==
  /\ At("marker")
  /\ GoTo("rollback")
  /\ objs' \in {objs, objs \cup {op.path}}
  /\ SameRows /\ UNCHANGED <<changes, syncVars>>

\* An error of the database is ignored.
MkdirRollback ==
  /\ At("rollback")
  /\ Return
  /\ Remove({op.path}) \/ SameRows
  /\ UNCHANGED <<bucketVars, syncVars>>

Create(f) ==
  /\ f \in Files \ rows /\ Found(f) /\ Change
  /\ op = None /\ UNCHANGED op
  /\ Insert(f)
  /\ UNCHANGED <<objs, syncVars>>

\* The daemon puts the object of a file.  A put that ends when the file has been
\* removed is a ForeignPut here.
Upload(f) ==
  /\ f \in Files \cap (rows \ objs)
  /\ objs' = objs \cup {f}
  /\ SameRows /\ UNCHANGED <<op, changes, syncVars>>

\* Faulty: Remove of a directory does not look at its children.
RemoveStartUnchecked(p) ==
  /\ p \in rows /\ Found(p) /\ Change
  /\ Start("object", p, p)
  /\ SameRows /\ UNCHANGED <<objs, syncVars>>

\* A directory must be empty, and so must those that LIKE takes for it.
RemoveStart(p) ==
  /\ p \in rows /\ Found(p) /\ Change
  /\ p \in Dirs => \A d \in Like[p] : Children(d) \cap rows = {}
  /\ Start("object", p, p)
  /\ SameRows /\ UNCHANGED <<objs, syncVars>>

\* DeleteObject of the path.  A marker has another key, "dir/", and stays.
RemoveObject ==
  /\ At("object")
  /\ objs' = objs \ (Files \cap {op.path})
  /\ GoTo("unrow")
  /\ SameRows /\ UNCHANGED <<changes, syncVars>>

\* It fails, or its reply is lost: the row stays.
RemoveFails ==
  /\ At("object")
  /\ objs' \in {objs, objs \ (Files \cap {op.path})}
  /\ Return
  /\ SameRows /\ UNCHANGED <<changes, syncVars>>

RemoveRow ==
  /\ At("unrow")
  /\ Return
  /\ Remove({op.path}) \/ SameRows
  /\ UNCHANGED <<bucketVars, syncVars>>

-----------------------------------------------------------------------------
(* Rename.  Of a directory only the row moves.  The kernel asks for two    *)
(* files or two directories, neither of them in the other.                 *)

RenameStart(p, q) ==
  /\ p # q /\ (p \in Dirs <=> q \in Dirs) /\ p \notin Above[q] /\ q \notin Above[p]
  /\ p \in rows /\ Found(p) /\ Found(q) /\ Change
  /\ Start("replace", p, q)
  /\ SameRows /\ UNCHANGED <<objs, syncVars>>

\* A row that goes or moves in spite of those below it leaves them behind.
Leave(p) == rows' = rows \ {p} /\ raced' = (raced \ {p}) \cup (Below(p) \cap rows)

\* The row at the new path goes, unless its lookup fails.  A directory there
\* is not asked to be empty.
RenameReplace ==
  /\ At("replace")
  /\ Leave(op.to) \/ SameRows
  /\ GoTo("insert")
  /\ UNCHANGED <<bucketVars, syncVars>>

RenameInsert ==
  /\ At("insert")
  /\ Insert(op.to)
  /\ GoTo("unlink")
  /\ UNCHANGED <<bucketVars, syncVars>>

RenameUnlink ==
  /\ At("unlink")
  /\ Leave(op.path)
  /\ GoTo("copy")
  /\ UNCHANGED <<bucketVars, syncVars>>

\* The object is copied.  Without one, which a directory never has under its
\* path, the staging file is uploaded, if there is one.
RenameCopy ==
  /\ At("copy")
  /\ IF op.path \in Files /\ op.path \in objs
       THEN objs' = objs \cup {op.to} /\ GoTo("delete")
       ELSE objs' \in {objs, objs \cup (Files \cap {op.to})} /\ Return
  /\ SameRows /\ UNCHANGED <<changes, syncVars>>

\* A failure of the copy or of the deletion is logged.
RenameDelete ==
  /\ At("delete")
  /\ objs' \in {objs, objs \ {op.path}}
  /\ Return
  /\ SameRows /\ UNCHANGED <<changes, syncVars>>

\* The database refuses a call, or the copy fails.
RenameFails ==
  /\ \E step \in {"replace", "insert", "unlink", "copy"} : At(step)
  /\ Return
  /\ SameRows /\ UNCHANGED <<bucketVars, syncVars>>

-----------------------------------------------------------------------------
(* The synchronisation.                                                    *)

\* Faulty: the directories of one run are taken for seen in the next.
RunOverSeen ==
  /\ syncPc' = "idle" /\ last' = 0 /\ page' = {} /\ item' = None
  /\ keys' = {} /\ UNCHANGED seen /\ doomed' = {}

\* The maps and sets of a run are its locals.
RunOver ==
  /\ syncPc' = "idle" /\ last' = 0 /\ page' = {} /\ item' = None
  /\ keys' = {} /\ seen' = {} /\ doomed' = {}

SyncStart ==
  /\ Idle
  /\ syncPc' = "list"
  /\ SameRows /\ UNCHANGED <<op, bucketVars, last, page, item, keys, seen, doomed>>

\* The next page: the objects up to the key of rank n.
ListPage(n) ==
  /\ syncPc = "list" /\ last < n
  /\ page' = {p \in objs : last < Rank[p] /\ Rank[p] <= n}
  /\ last' = n
  /\ syncPc' = "entry"
  /\ SameRows /\ UNCHANGED <<op, bucketVars, item, keys, seen, doomed>>

\* A request or the database fails, or the run is told to stop.
SyncFails ==
  /\ ~Idle /\ Change
  /\ RunOver
  /\ SameRows /\ UNCHANGED <<op, objs>>

\* The key of the next object is recorded.
Examine(p) ==
  /\ syncPc = "entry" /\ p \in page /\ \A q \in page : Rank[p] <= Rank[q]
  /\ page' = page \ {p}
  /\ keys' = keys \cup {p}
  /\ item' = p
  /\ syncPc' = "parents"
  /\ SameRows /\ UNCHANGED <<op, bucketVars, last, seen, doomed>>

\* The synchronisation does not know that a directory which it has seen has
\* gone, or that a handler is about to remove its row.
Going(d) == d \notin rows \/ (op # None /\ op.path = d /\ op.at \in {"marker", "rollback", "object", "unrow"})

InsertBySync(p) ==
  /\ rows' = rows \cup {p}
  /\ raced' = IF \E d \in Above[p] \cap seen : Going(d) THEN raced \cup {p} ELSE raced

\* ensureParentDirs: the topmost directory that this run has not seen gets a
\* row, unless it has one.
EnsureParent(d) ==
  /\ syncPc = "parents" /\ d \in Above[item] \ seen
  /\ Above[d] \subseteq seen
  /\ InsertBySync(d)
  /\ seen' = seen \cup {d}
  /\ UNCHANGED <<op, bucketVars, syncPc, last, page, item, keys, doomed>>

\* Faulty: an object whose row is left alone is not put aside.
ReadRowKept ==
  /\ syncPc = "parents" /\ Above[item] \subseteq seen
  /\ IF item \in rows THEN syncPc' \in {"entry", "row"} ELSE syncPc' = "row"
  /\ SameRows /\ UNCHANGED <<op, bucketVars, last, page, item, keys, seen, doomed>>

\* The row of the object is read: it is left alone, or will be stored.
ReadRow ==
  /\ syncPc = "parents" /\ Above[item] \subseteq seen
  /\ \/ item \in rows /\ syncPc' = "entry" /\ item' = None
     \/ syncPc' = "row" /\ UNCHANGED item
  /\ SameRows /\ UNCHANGED <<op, bucketVars, last, page, keys, seen, doomed>>

StoreRow ==
  /\ syncPc = "row"
  /\ InsertBySync(item)
  /\ syncPc' = "entry" /\ item' = None
  /\ UNCHANGED <<op, bucketVars, last, page, keys, seen, doomed>>

PageDone ==
  /\ syncPc = "entry" /\ page = {}
  /\ syncPc' = IF \E p \in Paths : Rank[p] > last THEN "list" ELSE "reconcile"
  /\ SameRows /\ UNCHANGED <<op, bucketVars, last, page, item, keys, seen, doomed>>

\* Only files are removed, never directories.
Reconcile ==
  /\ syncPc = "reconcile"
  /\ doomed' = (Files \cap rows) \ keys
  /\ syncPc' = "delete"
  /\ SameRows /\ UNCHANGED <<op, bucketVars, last, page, item, keys, seen>>

\* An error of the database is ignored.
DeleteRow(p) ==
  /\ syncPc = "delete" /\ p \in doomed
  /\ Remove({p}) \/ SameRows
  /\ doomed' = doomed \ {p}
  /\ UNCHANGED <<op, bucketVars, syncPc, last, page, item, keys, seen>>

SyncDone ==
  /\ syncPc = "delete" /\ doomed = {}
  /\ RunOver
  /\ SameRows /\ UNCHANGED <<op, bucketVars>>

SyncStep ==
  \/ SyncStart \/ ReadRow \/ StoreRow \/ PageDone \/ Reconcile \/ SyncDone
  \/ \E p \in Paths : ListPage(Rank[p])
  \/ \E p \in page : Examine(p)
  \/ \E d \in Dirs : EnsureParent(d)
  \/ \E p \in doomed : DeleteRow(p)

-----------------------------------------------------------------------------
ForeignPut(p) ==
  /\ p \notin objs /\ Change
  /\ objs' = objs \cup {p}
  /\ SameRows /\ UNCHANGED <<op, syncVars>>

ForeignDelete(p) ==
  /\ p \in objs /\ Change
  /\ objs' = objs \ {p}
  /\ SameRows /\ UNCHANGED <<op, syncVars>>

Handler ==
  \/ \E d \in Dirs : Mkdir(d)
  \/ \E f \in Files : Create(f) \/ Upload(f)
  \/ \E p \in Paths : RemoveStart(p) \/ \E q \in Paths : RenameStart(p, q)
  \/ MkdirMarker \/ MkdirFails \/ MkdirRollback
  \/ RemoveObject \/ RemoveFails \/ RemoveRow
  \/ RenameReplace \/ RenameInsert \/ RenameUnlink \/ RenameCopy \/ RenameDelete \/ RenameFails

Next ==
  \/ Handler \/ SyncStep \/ SyncFails
  \/ \E p \in Paths : ForeignPut(p) \/ ForeignDelete(p)

Spec == Init /\ [][Next]_vars

\* The ticker keeps ticking, and once a run is not made to fail it goes on.
FairSpec == Spec /\ WF_vars(SyncStep)

-----------------------------------------------------------------------------
\* Every variable has its type.
TypeOK ==
  /\ rows \subseteq Paths /\ objs \subseteq Paths
  /\ op \in Op \cup {None}
  /\ syncPc \in SyncPcs /\ last \in Nat /\ page \subseteq Paths
  /\ item \in Paths \cup {None} /\ (item # None <=> syncPc \in {"parents", "row"})
  /\ keys \subseteq Paths /\ seen \subseteq Dirs /\ doomed \subseteq Files
  /\ changes \in 0 .. MaxChanges
  /\ raced \subseteq rows

\* A row can be reached: every directory on the way to it has a row, although
\* Remove, Mkdir's roll-back and the synchronisation act on what they have looked
\* at before.  The exceptions are rows that a Rename of a directory has left
\* behind, and rows that the synchronisation has put into a directory that it
\* had seen but which was being removed.
Rooted == \A p \in rows \ raced : Above[p] \subseteq rows

\* Whatever was done to names and bucket, and left half done, once it is over
\* everything in the bucket comes to be seen on the share, with the
\* directories on the way to it, and stays so.
Shown(p) == p \in rows /\ Above[p] \subseteq rows

EverythingShown == <>[](\A p \in objs : Shown(p))
=============================================================================
