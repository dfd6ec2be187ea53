------------------------------ MODULE Rename ------------------------------
(***************************************************************************)
(* Dir.Rename of a file, beside the requests on nodes and handles and the  *)
(* daemon.  The row is moved first, in three calls of the repository; then *)
(* the bucket copies the object; if there is none, the staging file of the *)
(* old path is uploaded under the new one.  The new row is clean from the  *)
(* start and names no staging file, and every failure after the row has    *)
(* moved is only logged.                                                   *)
(*                                                                         *)
(* The kernel holds the directory while the handler runs: no other request *)
(* on names gets in between.  Requests on open files and nodes do.  A File *)
(* keeps the path it was made with: after the rename it works on a name    *)
(* that is gone, or that means another file.                               *)
(***************************************************************************)
EXTENDS WriteBack

CONSTANTS
  MaxRenames,
  RenameFaults   \* can the database refuse a call of the rename?


VARIABLES
  mv,       \* the Rename that is running, or None
  renames,
  misnamed  \* history: nodes whose path is no longer the name they are known by

renameVars == <<vars, mv, renames, misnamed>>

Steps == {"replace", "row", "unrow", "copy", "delete", "open", "put", "size"}

\* entry is the row of the old path as it was read, then newEntry; ino and size
\* are the staging file that was opened and what Stat said of it; pending is
\* history: the old path had edits that wait for the daemon.
Move == [at : Steps, from : Paths, to : Paths, entry : Row,
         ino : Inodes \cup {None}, size : Sizes, pending : BOOLEAN]

\* There is a version for what is in the bucket and one for the edits that wait.
ASSUME RenameAssumption ==
  /\ MaxRenames \in Nat /\ RenameFaults \in BOOLEAN
  /\ MaxWrites \in Nat \ {0, 1}
  /\ None \notin Move

\* Some files are in the bucket, and edits of some files, with or without an
\* older object, wait for the daemon in the staging files staged.
Waits   == [size |-> NumBlocks, idle |-> TRUE, dirty |-> TRUE, staged |-> TRUE, verified |-> TRUE]
Version(v) == [len |-> NumBlocks, blk |-> [b \in Blocks |-> v]]

InitWaiting(synced, staged) ==
  /\ row  = [p \in Paths |-> IF staged[p] # None THEN Waits ELSE IF p \in synced THEN SyncedRow ELSE None]
  /\ obj  = [p \in Paths |-> IF p \in synced THEN Version(1) ELSE None]
  /\ link = staged
  /\ data = [i \in Inodes |-> IF \E p \in Paths : staged[p] = i THEN Version(2) ELSE Empty]
  /\ wid  = 2
  /\ node = [n \in Nodes |-> None] /\ head = [n \in Nodes |-> None]
  /\ hnd  = [h \in Handles |-> Closed] /\ pend = {} /\ rm = {}
  /\ acked = [p \in Paths |-> IF staged[p] # None THEN Version(2) ELSE obj[p]]
  /\ phase = [p \in Paths |-> IF row[p] = None THEN "new" ELSE "flushed"]
  /\ DaemonInit /\ raced = {} /\ crashes = 0

RenameInit ==
  /\ \E synced \in SUBSET Paths, staged \in [Paths -> Inodes \cup {None}] :
       /\ \A p, q \in Paths : p # q /\ staged[p] = staged[q] => staged[p] = None
       /\ InitWaiting(synced, staged)
  /\ mv = None /\ renames = 0 /\ misnamed = {}

At(step)   == mv # None /\ mv.at = step
GoTo(step) == mv' = [mv EXCEPT !.at = step]

\* The nodes of a path that a name is taken from, or put over.
NodesOf(P) == {n \in Nodes : node[n] # None /\ node[n].path \in P}

-----------------------------------------------------------------------------
(* The row moves.                                                          *)

RenameStart(p, q) ==
  /\ mv = None /\ renames < MaxRenames
  /\ p # q /\ row[p] # None /\ rm = {}
  /\ mv' = [at |-> "replace", from |-> p, to |-> q, entry |-> row[p],
            ino |-> None, size |-> 0, pending |-> row[p].dirty]
  /\ renames' = renames + 1
  /\ UNCHANGED <<storageVars, acked, misnamed>>

\* The row at the new path goes, with its pending edits; its object and its
\* staging file stay.
RenameReplace ==
  /\ At("replace")
  /\ row' = [row EXCEPT ![mv.to] = None]
  /\ GoTo("row")
  /\ UNCHANGED <<obj, link, data, wid, acked, renames, misnamed>>

\* What newEntry takes over of the old row.
NewRow(e) == [size |-> e.size, idle |-> FALSE, dirty |-> FALSE, staged |-> FALSE,
              verified |-> FALSE]

RenameRow ==
  /\ At("row")
  /\ LET r == UpdateEntry(row[mv.to], NewRow(mv.entry))
     IN  /\ row' = [row EXCEPT ![mv.to] = r]
         /\ mv' = [mv EXCEPT !.at = "unrow", !.entry = r]
  /\ UNCHANGED <<obj, link, data, wid, acked, renames, misnamed>>

RenameUnrow ==
  /\ At("unrow")
  /\ row' = [row EXCEPT ![mv.from] = None]
  /\ GoTo("copy")
  /\ UNCHANGED <<obj, link, data, wid, acked, renames, misnamed>>

\* The database refuses one of these calls: the error is returned, half done.
\* If it is the lookup of the new path, that counts as not found.
RenameRefused ==
  /\ RenameFaults
  /\ \/ At("replace") /\ GoTo("row")
     \/ (At("replace") \/ At("row") \/ At("unrow")) /\ mv' = None
  /\ UNCHANGED <<storageVars, acked, renames, misnamed>>

-----------------------------------------------------------------------------
(* The content moves.                                                      *)

\* From now on the new name means the file that was renamed.
HandOver == acked' = [acked EXCEPT ![mv.to] = acked[mv.from], ![mv.from] = None]

\* The handler returns, after the row has moved always without an error.
Return ==
  /\ mv' = None
  /\ misnamed' = misnamed \cup NodesOf({mv.from, mv.to})

\* The handler gives up: the new name means the file, whatever has become of it.
GiveUp == Return /\ HandOver

Copy ==
  /\ At("copy") /\ obj[mv.from] # None
  /\ obj' = [obj EXCEPT ![mv.to] = obj[mv.from]]
  /\ HandOver
  /\ GoTo("delete")
  /\ UNCHANGED <<row, link, data, wid, renames, misnamed>>

\* The copy is refused, or its reply is lost.
CopyFails ==
  /\ At("copy")
  /\ GiveUp
  /\ \/ UNCHANGED obj
     \/ obj[mv.from] # None /\ obj' = [obj EXCEPT ![mv.to] = obj[mv.from]]
  /\ UNCHANGED <<row, link, data, wid, renames>>

\* Faulty: the old object goes whether or not there is a new one.
CopyMissingDeletes ==
  /\ At("copy")
  /\ GoTo("delete")
  /\ UNCHANGED <<storageVars, acked, renames, misnamed>>

\* NoSuchKey: the staging file of the old path will do.
CopyMissing ==
  /\ At("copy") /\ obj[mv.from] = None
  /\ GoTo("open")
  /\ UNCHANGED <<storageVars, acked, renames, misnamed>>

\* The object of the old path is deleted; an error is logged.
DeleteOld ==
  /\ At("delete")
  /\ Return
  /\ obj' \in {obj, [obj EXCEPT ![mv.from] = None]}
  /\ UNCHANGED <<row, link, data, wid, acked, renames>>

\* Without a staging file, or with an empty one, the rename is over.
OpenOld ==
  /\ At("open")
  /\ LET i == link[mv.from]
     IN IF i # None /\ data[i].len > 0
          THEN mv' = [mv EXCEPT !.at = "put", !.ino = i, !.size = data[i].len] /\ UNCHANGED <<acked, misnamed>>
          ELSE GiveUp
  /\ UNCHANGED <<storageVars, renames>>

PutOld ==
  /\ At("put") /\ data[mv.ino].len = mv.size
  /\ obj' = [obj EXCEPT ![mv.to] = data[mv.ino]]
  /\ HandOver
  /\ GoTo("size")
  /\ UNCHANGED <<row, link, data, wid, renames, misnamed>>

\* The upload is refused, or its reply is lost.
PutOldFails ==
  /\ At("put")
  /\ GiveUp
  /\ \/ UNCHANGED obj
     \/ data[mv.ino].len = mv.size /\ obj' = [obj EXCEPT ![mv.to] = data[mv.ino]]
  /\ UNCHANGED <<row, link, data, wid, renames>>

\* newEntry with the size that was uploaded; an error is ignored.
SizeOld ==
  /\ At("size")
  /\ Return
  /\ Store(mv.to, UpdateEntry(row[mv.to], [mv.entry EXCEPT !.size = mv.size]))
  /\ UNCHANGED <<obj, link, data, wid, acked, renames>>

RenameStep ==
  \/ \E p, q \in Paths : RenameStart(p, q)
  \/ RenameReplace \/ RenameRow \/ RenameUnrow \/ RenameRefused
  \/ Copy \/ CopyFails \/ CopyMissing \/ DeleteOld
  \/ OpenOld \/ PutOld \/ PutOldFails \/ SizeOld

-----------------------------------------------------------------------------
(* Races of a rename with others, and of its own failures.  They are noted *)
(* on the name that they hurt, never prevented.                            *)

\* The row at the new path is replaced while it waits for the daemon, before
\* anything is there in its place.
ReplaceRace(p) == At("replace") /\ mv.to = p /\ Dirty(p) /\ row'[p] = None

\* The row at the new path could not be looked up: it stays, waits on for the
\* daemon, and means another file from now on.
KeptRow(p) == At("row") /\ Dirty(mv.to) /\ p \in {mv.from, mv.to}

\* The object that is copied is older than the edits that wait.
StaleCopy(p) ==
  /\ At("copy") /\ mv.to = p /\ mv.pending /\ obj[mv.from] # None
  /\ link[mv.from] = None \/ data[link[mv.from]] # obj[mv.from]

\* A copy or an upload failed, and the rename succeeds.
FailedMove(p) ==
  /\ mv' = None /\ mv.to = p
  /\ At("copy") \/ At("put")

\* The process dies when the edits that wait are in no row.
DiedMoving(p) ==
  /\ At("copy") \/ At("open") \/ At("put")
  /\ mv.pending /\ p \in {mv.from, mv.to}

\* Somebody else removes the staging file that the rename will need, or copies
\* an object over it.
TakenAway(p) ==
  /\ mv # None /\ mv.from = p /\ mv.pending /\ link[p] # None
  /\ \/ link'[p] = None
     \/ data'[link[p]] # data[link[p]] /\ \E h \in Handles : hnd[h].pc = "fetch" /\ hnd'[h].pc = "fetched"

\* The daemon uploads a file that does not wait any more: another one has its name.
LateUpload(p) == obj'[p] # obj[p] /\ ~Dirty(p)

\* A close through a node whose path is not its name, or will not be.
StaleFlush(p) ==
  \E h \in Handles :
    /\ hnd[h].pc = "flush" /\ hnd'[h].pc = "open"
    /\ IF mv # None /\ Path(h) \in {mv.from, mv.to} THEN p \in {mv.from, mv.to}
       ELSE hnd[h].node \in misnamed /\ Path(h) = p

\* What was noted of the old name goes with the promise to the new one.
Carried ==
  IF (At("copy") \/ At("open") \/ At("put")) /\ (mv' = None \/ mv'.at \in {"delete", "size"})
    THEN IF mv.from \in raced THEN raced \cup {mv.to} ELSE raced \ {mv.to}
    ELSE raced

-----------------------------------------------------------------------------
\* The kernel does not let these happen while a rename runs.
DirectoryOp ==
  \/ \E p \in Paths, n \in Nodes : Lookup(p, n) \/ \E h \in Handles, i \in Inodes : Create(p, n, h, i)
  \/ \E p \in Paths, ok \in BOOLEAN : RemoveObject(p, ok)

\* A node that was made for another name since.
Rebound(n) ==
  \E p \in Paths : Lookup(p, n) \/ \E h \in Handles, i \in Inodes : Create(p, n, h, i)

\* A new file takes the inode of the one that the rename has open.
Reused == mv # None /\ mv.ino # None /\ \E p \in Paths : link'[p] = mv.ino /\ link[p] # mv.ino

Others ==
  /\ Requests \/ WriteBackStep \/ Clock
  /\ mv = None \/ ~DirectoryOp
  /\ ~Reused
  /\ misnamed' = {n \in misnamed : ~Rebound(n)}
  /\ raced' = raced \cup {p \in Paths : Race(p) \/ TakenAway(p) \/ LateUpload(p) \/ StaleFlush(p)}
  /\ UNCHANGED <<mv, renames>>

MoveStep ==
  /\ RenameStep
  /\ raced' = Carried \cup {p \in Paths : ReplaceRace(p) \/ KeptRow(p) \/ StaleCopy(p) \/ FailedMove(p)}
  /\ UNCHANGED <<node, head, hnd, pend, rm, daemonVars, phase, crashes>>

RestartMoving ==
  /\ Crash
  /\ mv' = None /\ misnamed' = {}
  /\ raced' = raced \cup {p \in Paths : DiedMoving(p)}
  /\ UNCHANGED renames

RenameNext == Others \/ MoveStep \/ RestartMoving

RenameSpec == RenameInit /\ [][RenameNext]_renameVars

-----------------------------------------------------------------------------
\* The handler of the rename has the content of p, which no row names.
InHand(p) ==
  /\ mv # None /\ mv.from = p
  /\ \/ mv.at \in {"copy", "open"} /\ link[p] # None /\ Covers(data[link[p]], acked[p])
     \/ mv.at = "put" /\ Covers(data[mv.ino], acked[p])

\* What a close promised of a file follows the file to its new name: at every
\* step of the rename it is in the bucket under the old or the new name, or
\* waits, or is in the hands of the handler, and when the rename returns it is
\* under the new name.  It is lost only by one of the races above.
RenameHonoured ==
  \A p \in Paths \ raced : acked[p] # None => Uploaded(p) \/ Waiting(p) \/ InHand(p)
=============================================================================
