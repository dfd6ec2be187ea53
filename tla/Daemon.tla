------------------------------- MODULE Daemon -------------------------------
(***************************************************************************)
(* The write-back daemon: one goroutine that at every tick first uploads   *)
(* the dirty files that have been idle for long enough and then sweeps the *)
(* staging directory for clean files nobody read for the retention time.   *)
(* Both passes work down a list read once, at the start of the pass.       *)
(*                                                                         *)
(* Atomic here: the SDK hashes the body before it sends it and the bucket  *)
(* refuses a body with another hash or length, so that what it accepts is  *)
(* the content the file had between the two readings (UploadRead).         *)
(***************************************************************************)
EXTENDS Storage

VARIABLES
  pc,    \* where the goroutine is
  todo,  \* the entries of the current pass still to visit
  cur,   \* the entry being visited, as it was listed
  ino,   \* the staging file opened for upload
  buf    \* what the upload has read of it

daemonVars == <<pc, todo, cur, ino, buf>>

DaemonPcs == {"sleep", "upload", "read", "put", "mark", "unmark",
              "evict", "remove", "clear"}

Entry == [path : Paths, size : Sizes, staged : BOOLEAN]

ASSUME DaemonAssumption == None \notin Entry

DaemonTypeOK ==
  /\ pc   \in DaemonPcs
  /\ todo \subseteq Entry
  /\ cur  \in Entry \cup {None}
  /\ ino  \in Inodes \cup {None}
  /\ buf  \in Content \cup {None}

DaemonInit ==
  /\ pc = "sleep" /\ todo = {} /\ cur = None /\ ino = None /\ buf = None

Listed(p) == [path |-> p, size |-> row[p].size, staged |-> row[p].staged]

\* Leave the current entry and go on with the pass.
Proceed(pass) ==
  /\ pc' = pass /\ cur' = None /\ ino' = None /\ buf' = None
  /\ UNCHANGED todo

-----------------------------------------------------------------------------
(* processWriteback                                                        *)

\* Faulty: the idle time is compared the wrong way round.
ListDirtyYoung ==
  /\ pc = "sleep"
  /\ \/ todo' = {Listed(p) : p \in {q \in Paths : row[q] # None /\ row[q].dirty /\ ~row[q].idle}}
     \/ DBFaults /\ todo' = {}
  /\ pc' = "upload"
  /\ UNCHANGED <<storageVars, cur, ino, buf>>

\* The tick: all dirty rows are read; the ones touched too recently will be
\* skipped, and their age is that of the time of the listing.
ListDirty ==
  /\ pc = "sleep"
  /\ \/ todo' = {Listed(p) : p \in {q \in Paths : row[q] # None /\ row[q].dirty /\ row[q].idle}}
     \/ DBFaults /\ todo' = {}
  /\ pc' = "upload"
  /\ UNCHANGED <<storageVars, cur, ino, buf>>

\* The staging file of the next entry is opened; an entry without a path, or
\* whose file is missing, will only be marked clean.
OpenStaging(e) ==
  /\ pc = "upload" /\ e \in todo
  /\ todo' = todo \ {e}
  /\ cur' = e
  /\ IF e.staged /\ link[e.path] # None
       THEN pc' = "read"   /\ ino' = link[e.path]
       ELSE pc' = "unmark" /\ ino' = None
  /\ UNCHANGED <<storageVars, buf>>

UploadRead ==
  /\ pc = "read"
  /\ buf' = data[ino]
  /\ pc' = "put" /\ ino' = None
  /\ UNCHANGED <<storageVars, todo, cur>>

\* The bucket takes the object: the length is the one the row had when it was
\* listed, which must be that of the file.
PutOk ==
  /\ pc = "put" /\ buf.len = cur.size
  /\ obj' = [obj EXCEPT ![cur.path] = buf]
  /\ pc' = "mark"
  /\ UNCHANGED <<row, link, data, wid, todo, cur, ino, buf>>

\* Faulty: after an error the entry is marked clean like any other.
PutFailMarked ==
  /\ pc = "put"
  /\ pc' = "mark"
  /\ UNCHANGED <<storageVars, todo, cur, ino, buf>>

\* Faulty: the bucket takes the part that was sent before the connection broke.
PutFailPart ==
  /\ pc = "put"
  /\ \E k \in 0 .. buf.len : obj' = [obj EXCEPT ![cur.path] = [buf EXCEPT !.len = k]]
  /\ Proceed("upload")
  /\ UNCHANGED <<row, link, data, wid>>

\* The upload is refused, times out, or its reply is lost after the bucket took
\* the object: the entry stays dirty until the next tick.
PutFail ==
  /\ pc = "put"
  /\ \/ UNCHANGED obj
     \/ buf.len = cur.size /\ obj' = [obj EXCEPT ![cur.path] = buf]
  /\ Proceed("upload")
  /\ UNCHANGED <<row, link, data, wid>>

\* The row is marked clean and verified, whatever happened to it meanwhile.
Mark ==
  /\ pc = "mark"
  /\ StoreFields(cur.path, [row[cur.path] EXCEPT !.dirty = FALSE, !.verified = TRUE])
  /\ Proceed("upload")
  /\ UNCHANGED <<obj, link, data, wid>>

Unmark ==
  /\ pc = "unmark"
  /\ StoreFields(cur.path, [row[cur.path] EXCEPT !.dirty = FALSE])
  /\ Proceed("upload")
  /\ UNCHANGED <<obj, link, data, wid>>

-----------------------------------------------------------------------------
(* processCacheEviction                                                    *)

\* The rows that are clean and have a staging path.
ListClean ==
  /\ pc = "upload" /\ todo = {}
  /\ \/ todo' = {Listed(p) : p \in {q \in Paths : row[q] # None /\ ~row[q].dirty /\ row[q].staged}}
     \/ DBFaults /\ todo' = {}
  /\ pc' = "evict"
  /\ UNCHANGED <<storageVars, cur, ino, buf>>

\* Faulty: an entry whose file is gone is passed over.
InspectPresent(e) ==
  /\ pc = "evict" /\ e \in todo
  /\ todo' = todo \ {e}
  /\ \/ link[e.path] # None /\ pc' = "remove" /\ cur' = e
     \/ UNCHANGED <<pc, cur>>
  /\ UNCHANGED <<storageVars, ino, buf>>

\* The next entry's file is looked at: gone, expired, or read recently enough.
Inspect(e) ==
  /\ pc = "evict" /\ e \in todo
  /\ todo' = todo \ {e}
  /\ \/ link[e.path] = None /\ pc' = "clear"  /\ cur' = e
     \/ link[e.path] # None /\ pc' = "remove" /\ cur' = e
     \/ link[e.path] # None /\ UNCHANGED <<pc, cur>>
  /\ UNCHANGED <<storageVars, ino, buf>>

RemoveStaging ==
  /\ pc = "remove"
  /\ link' = [link EXCEPT ![cur.path] = None]
  /\ pc' = "clear"
  /\ UNCHANGED <<row, obj, data, wid, todo, cur, ino, buf>>

\* The staging path is cleared, whatever the row says by now.
ClearStaging ==
  /\ pc = "clear"
  /\ StoreFields(cur.path, [row[cur.path] EXCEPT !.staged = FALSE])
  /\ Proceed("evict")
  /\ UNCHANGED <<obj, link, data, wid>>

SweepDone ==
  /\ pc = "evict" /\ todo = {}
  /\ pc' = "sleep"
  /\ UNCHANGED <<storageVars, todo, cur, ino, buf>>

-----------------------------------------------------------------------------
DaemonNext ==
  \/ ListDirty \/ UploadRead \/ PutOk \/ PutFail \/ Mark \/ Unmark
  \/ ListClean \/ RemoveStaging \/ ClearStaging \/ SweepDone
  \/ \E e \in todo : OpenStaging(e) \/ Inspect(e)
=============================================================================
