----------------------------- MODULE WriteBack -----------------------------
(***************************************************************************)
(* The write-back cache as a whole: the kernel's calls on file nodes and   *)
(* handles, the daemon, the clock, and crashes of the gateway, over the    *)
(* same rows, objects and staging files.                                   *)
(*                                                                         *)
(* Create, reading and writing are in every workload; Ops says what else   *)
(* the applications do.  Without "rewrite" and "resize" a file is created, *)
(* written and closed by one handle, and after its first Flush it is only  *)
(* read, touched and removed: files are copied onto the share.             *)
(***************************************************************************)
EXTENDS FileHandles, Daemon

CONSTANTS
  Ops,         \* the workload
  MaxCrashes   \* bound on the crashes

ASSUME WriteBackAssumption ==
  /\ Ops \subseteq {"stat", "rewrite", "resize", "mtime", "remove"}
  /\ MaxCrashes \in Nat

VARIABLES
  phase,   \* history: a path is new, has been created, or has been flushed
  raced,   \* history: the paths on which a Race has happened
  crashes

vars == <<storageVars, handleVars, daemonVars, phase, raced, crashes>>

Init ==
  /\ \E synced \in SUBSET Paths :
       /\ StorageInit(synced)
       /\ HandlesInit(synced)
       /\ phase = [p \in Paths |-> IF p \in synced THEN "flushed" ELSE "new"]
  /\ DaemonInit
  /\ raced = {}
  /\ crashes = 0

-----------------------------------------------------------------------------
(* The kernel's requests.                                                  *)

\* An inode the daemon has open is not free: it is used for p only if it is p's.
MayUse(p, i) == i = ino => i = link[p]

\* Requests that bring a file into being, write, flush or resize it.
Writer ==
  \/ \E p \in Paths, n \in Nodes, h \in Handles, i \in Inodes :
       /\ Create(p, n, h, i) /\ MayUse(p, i)
       /\ phase[p] = "new" \/ "rewrite" \in Ops
       /\ phase' = [phase EXCEPT ![p] = "created"]
  \/ \E n \in Nodes, h \in Handles, i \in Inodes :
       "rewrite" \in Ops /\ OpenWrite(n, h, i) /\ MayUse(node[n].path, i) /\ UNCHANGED phase
  \/ \E n \in Nodes, s \in Sizes :
       "resize" \in Ops /\ SetattrSize(n, s) /\ UNCHANGED phase
  \/ \E h \in Handles :
       "rewrite" \in Ops /\ FetchStart(h) /\ UNCHANGED phase
  \/ \E h \in Handles, k \in Sizes : FetchCopy(h, k) /\ UNCHANGED phase
  \/ \E h \in Handles, b \in Blocks :
       /\ Write(h, b)
       /\ phase[Path(h)] # "flushed" \/ "rewrite" \in Ops
       /\ UNCHANGED phase
  \/ \E h \in Handles :
       FlushCommit(h) /\ phase' = [phase EXCEPT ![Path(h)] = "flushed"]

\* All other requests.
Client ==
  \/ \E p \in Paths, n \in Nodes : Lookup(p, n)
  \/ \E n \in Nodes : "stat" \in Ops /\ AttrRead(n)
  \/ \E n \in Nodes : AttrHead(n) \/ AttrPersist(n) \/ AttrStore(n)
  \/ \E n \in Nodes, old \in BOOLEAN : "mtime" \in Ops /\ SetattrMtime(n, old)
  \/ \E n \in Nodes, h \in Handles : OpenRemote(n, h) \/ OpenStaged(n, h)
  \/ \E h \in Handles :
       FlushBegin(h) \/ ReleaseCheck(h) \/ ReleaseRemove(h)
  \/ \E u \in pend : PersistSize(u)
  \/ \E p \in Paths, ok \in BOOLEAN : "remove" \in Ops /\ RemoveObject(p, ok)
  \/ \E p \in Paths : RemoveRow(p)

\* The clock: the row of p was last modified longer ago than the idle time.
Age(p) ==
  /\ row[p] # None /\ ~row[p].idle
  /\ row' = [row EXCEPT ![p].idle = TRUE]
  /\ UNCHANGED <<obj, link, data, wid, handleVars, daemonVars>>

\* The gateway dies and starts again: rows, objects and staging files stay.
Crash ==
  /\ crashes < MaxCrashes
  /\ crashes' = crashes + 1
  /\ node' = [n \in Nodes |-> None]
  /\ head' = [n \in Nodes |-> None]
  /\ hnd'  = [h \in Handles |-> Closed]
  /\ pend' = {} /\ rm' = {}
  /\ pc' = "sleep" /\ todo' = {} /\ cur' = None /\ ino' = None /\ buf' = None
  /\ UNCHANGED <<storageVars, acked, phase>>

WriteBackStep == DaemonNext /\ UNCHANGED <<handleVars, phase, crashes>>
Requests   == \/ Writer /\ UNCHANGED <<daemonVars, crashes>>
              \/ Client /\ UNCHANGED <<daemonVars, phase, crashes>>
Clock      == \E p \in Paths : Age(p) /\ UNCHANGED <<phase, crashes>>

-----------------------------------------------------------------------------
(* Races: steps that act on p on the strength of something read before,    *)
(* which no longer holds.  They are noted, never prevented.                *)

Holders(p) == {h \in Handles : hnd[h].ino # None /\ hnd[h].ino = link[p]}
Dirty(p)   == row[p] # None /\ row[p].dirty

\* The object's body is copied over writes that are not in the bucket.
CopyRace(p) ==
  /\ Dirty(p) \/ \E o \in Holders(p) : hnd[o].dirty
  /\ \E h \in Handles :
       hnd[h].pc = "fetch" /\ hnd'[h].pc = "fetched" /\ Path(h) = p /\ data' # data

\* The daemon marks clean a file that has changed since it was read, or whose
\* object has been removed since it was put.
MarkRace(p) ==
  /\ Dirty(p) /\ row'[p] # None /\ ~row'[p].dirty
  /\ \/ link[p] # None /\ data[link[p]] # buf
     \/ buf # None /\ obj[p] = None

\* The staging file, or its path, is taken from a dirty row or an open handle.
UnlinkRace(p) ==
  /\ Dirty(p) \/ Holders(p) # {}
  /\ \/ link[p] # None /\ link'[p] = None
     \/ row[p] # None /\ row[p].staged /\ row'[p] # None /\ ~row'[p].staged

\* A new file takes over, emptied, the staging file of a removed one that a
\* handle still holds.
TruncateRace(p) ==
  Holders(p) # {} /\ data[link[p]].len > 0 /\ data'[link[p]].len = 0

\* A Flush reports success and the database has refused the row.
LostFlush(p) ==
  \E h \in Handles :
    /\ hnd[h].pc = "flush" /\ hnd'[h].pc = "open" /\ Path(h) = p
    /\ row'[p] # UpdateEntry(row[p], FlushEntry(h))

Race(p) ==
  CopyRace(p) \/ MarkRace(p) \/ UnlinkRace(p) \/ TruncateRace(p) \/ LostFlush(p)

NoteRaces == raced' = raced \cup {p \in Paths : Race(p)}

-----------------------------------------------------------------------------
Next == (Requests \/ WriteBackStep \/ Clock \/ Crash) /\ NoteRaces

Spec == Init /\ [][Next]_vars

\* The ticker keeps ticking, a goroutine that was started runs, time passes,
\* and an upload that is tried again and again is at last accepted.  Nothing
\* is assumed of the applications.
Fairness ==
  /\ WF_vars(WriteBackStep /\ NoteRaces)
  /\ SF_vars(WriteBackStep /\ PutOk /\ NoteRaces)
  /\ WF_vars(\E u \in pend : PersistSize(u) /\ UNCHANGED <<daemonVars, phase, crashes>> /\ NoteRaces)
  /\ WF_vars(Clock /\ NoteRaces)

FairSpec == Spec /\ Fairness

-----------------------------------------------------------------------------
(* What should hold.                                                       *)

\* Every variable has its type; None stands where the code has nil or no row.
TypeOK ==
  /\ StorageTypeOK
  /\ HandlesTypeOK
  /\ DaemonTypeOK
  /\ phase \in [Paths -> {"new", "created", "flushed"}]
  /\ raced \subseteq Paths
  /\ crashes \in 0 .. MaxCrashes

\* The data of p that a close promised is in the bucket.
Uploaded(p) == obj[p] # None /\ Covers(obj[p], acked[p])

\* Or the daemon will find it: the row is dirty and names the file that has it.
Waiting(p) ==
  /\ row[p] # None /\ row[p].dirty /\ row[p].staged
  /\ link[p] # None /\ Covers(data[link[p]], acked[p])

Safe(p) == acked[p] # None => Uploaded(p) \/ Waiting(p)

\* Every close that succeeded is honoured: at any time, between any two steps
\* of the handlers and the daemon, across crashes and failed uploads, what it
\* promised is in the bucket or waits for the daemon.  Flush, Release, the
\* upload and the eviction each look at the row and then act on the file.
Durable == \A p \in Paths : Safe(p)

\* When files are rewritten while they are open, waiting or being uploaded,
\* the promise of a close is broken, but never without one of the five races
\* on that file: a fetch over new data, a late clean mark, a staging file
\* taken away or emptied, a database error that Flush swallows.
DurableUnlessRaced == \A p \in Paths \ raced : Safe(p)

\* What a Read of handle h is answered from.
ReadSource(h) ==
  IF hnd[h].ino # None /\ (hnd[h].dirty \/ node[hnd[h].node].staged)
    THEN data[hnd[h].ino]
    ELSE IF obj[Path(h)] # None THEN obj[Path(h)] ELSE Empty

\* Handle h was opened through an entry that was read after a close.
Expects(h) == hnd[h].pc = "open" /\ hnd[h].seen # None /\ acked[Path(h)] # None

\* The entry of the node was read before the close that h has seen, and stored
\* after it.
PutBack(h) ==
  LET e == node[hnd[h].node].seen IN e = None \/ ~Covers(e, hnd[h].seen)

\* As long as that has not happened to its node, a handle reads at least what
\* the close before it promised ("no concurrent reader can serve stale S3
\* chunks", Flush; who has a local staging file reads from it, Read), although
\* the file may be uploaded, evicted, touched or released by others while it is
\* open, and entries that are stored late say where it was before.  Without the
\* exception it does not hold: AttrStore may replace the entry of the node, while
\* the handle is open, by one that was read before the close.
FreshUnlessPutBack ==
  \A h \in Handles : Expects(h) /\ ~PutBack(h) => Covers(ReadSource(h), hnd[h].seen)

\* A path that names a missing staging file makes every Open fail.  The sweep
\* finds it: such a path does not stay.
Dangling(p) == row[p] # None /\ row[p].staged /\ link[p] = None

DanglingHealed == \A p \in Paths : []<>~Dangling(p)

\* A dirty row whose size is that of its staging file does not stay dirty: it
\* is uploaded in the end, however often an upload fails and a crash happens.
Uploadable(p) ==
  /\ Dirty(p) /\ row[p].staged
  /\ link[p] # None /\ data[link[p]].len = row[p].size

NeverStuck == \A p \in Paths : []<>~Uploadable(p)

-----------------------------------------------------------------------------
(* What the share promises.                                                *)

Share == INSTANCE Promises WITH promised <- acked, stored <- obj, Contents <- Content

\* Between a close and the removal of the file the object changes only to what
\* was promised: no upload, be it repeated, refused part-way, cut off from its
\* reply or under way while the gateway dies or the file is touched, evicted
\* and opened, leaves the bucket with a part of it.
KeepsPromises == Share!Spec
=============================================================================
