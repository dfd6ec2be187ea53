---------------------------- MODULE FileHandles ----------------------------
(***************************************************************************)
(* The file side of the FUSE file system: File nodes with the database row *)
(* they cached at Lookup, FileHandles with their staging file, and the     *)
(* handlers the kernel calls on them.  A handler that waits for the        *)
(* network, or that acts on what it read before, is several actions.       *)
(*                                                                         *)
(* Requests of one handle follow one another (the handle's mutex and       *)
(* sync.Once order them); requests of different handles and nodes          *)
(* interleave.  The kernel serialises Create and Remove in a directory.    *)
(***************************************************************************)
EXTENDS Storage

CONSTANTS
  Nodes,    \* File structs alive at a time, several may name one path
  Handles,  \* FileHandles open at a time
  TornFlush \* can an Attr replace the entry that a Flush is filling in?

VARIABLES
  node,   \* File: path and the cached entry; None when not allocated
  head,   \* an Attr or Setattr of the node that has read the row: one at a time
  hnd,    \* FileHandle
  pend,   \* the goroutines of Write that still have to store a size
  rm,     \* paths whose Remove has deleted the object and not yet the row
  acked   \* history: the content the last successful Flush stood for

handleVars == <<node, head, hnd, pend, rm, acked>>

Pcs == {"closed", "open", "fetch", "fetched", "flush", "release"}

Node   == [path : Paths, size : Sizes, staged : BOOLEAN, verified : BOOLEAN,
           seen : Content \cup {None}]
Head   == [at : {"read", "found", "done"}, entry : Node]
Handle == [pc : Pcs, node : Nodes \cup {None}, ino : Inodes \cup {None},
           dirty : BOOLEAN, once : BOOLEAN,
           got  : Content \cup {None},    \* object being copied, or file being flushed
           seen : Content \cup {None}]    \* history: node's "seen" at Open

ASSUME HandlesAssumption ==
  /\ TornFlush \in BOOLEAN
  /\ None \notin Node
  /\ None \notin Head
  /\ None \notin Nodes

Closed == [pc |-> "closed", node |-> None, ino |-> None, dirty |-> FALSE,
           once |-> FALSE, got |-> None, seen |-> None]

HandlesTypeOK ==
  /\ node  \in [Nodes -> Node \cup {None}]
  /\ head  \in [Nodes -> Head \cup {None}]
  /\ hnd   \in [Handles -> Handle]
  /\ pend  \subseteq [path : Paths, size : Sizes, by : Versions]
  /\ rm    \subseteq Paths
  /\ acked \in [Paths -> Content \cup {None}]

HandlesInit(synced) ==
  /\ node  = [n \in Nodes |-> None]
  /\ head  = [n \in Nodes |-> None]
  /\ hnd   = [h \in Handles |-> Closed]
  /\ pend  = {}
  /\ rm    = {}
  /\ acked = [p \in Paths |-> IF p \in synced THEN SyncedContent ELSE None]

-----------------------------------------------------------------------------
(* Helpers.                                                                *)

Path(h) == node[hnd[h].node].path

InUse(n) == head[n] # None \/ \E h \in Handles : hnd[h].node = n

\* An inode nobody can reach: an allocation may return it.
FreeInode(i) ==
  /\ \A p \in Paths : link[p] # i
  /\ \A h \in Handles : hnd[h].ino # i

\* Faulty: the staging path is not copied into the cached entry.
SnapshotUnstaged(p, r, a) ==
  [path |-> p, size |-> r.size, staged |-> FALSE, verified |-> r.verified, seen |-> a]

\* The entry a node caches when it reads row r of path p; a is what the last
\* flush of p stands for.
Snapshot(p, r, a) ==
  [path |-> p, size |-> r.size, staged |-> r.staged, verified |-> r.verified,
   seen |-> a]

\* Row r was never compared with the bucket although it says zero bytes.
NeedsHead(r) == r.size = 0 /\ ~r.verified

-----------------------------------------------------------------------------
(* Dir.Lookup and File.Attr                                                *)

\* A new File node is made of the row at every lookup.
Lookup(p, n) ==
  /\ row[p] # None
  /\ ~InUse(n)
  /\ node' = [node EXCEPT ![n] = Snapshot(p, row[p], acked[p])]
  /\ UNCHANGED <<storageVars, head, hnd, pend, rm, acked>>

\* Attr, or Setattr after its update, has read the row of n; what it read is
\* the node's entry later, when it has no more to ask.
Reads(n, at, r, a) ==
  /\ node[n] # None /\ head[n] = None
  /\ head' = [head EXCEPT ![n] = [at |-> at, entry |-> Snapshot(node[n].path, r, a)]]

AttrRead(n) ==
  /\ node[n] # None
  /\ LET p == node[n].path IN row[p] # None /\ Reads(n, "read", row[p], acked[p])
  /\ UNCHANGED <<storageVars, node, hnd, pend, rm, acked>>

\* For an unverified empty row HeadObject is asked, and finds bytes.
AttrHead(n) ==
  /\ head[n] # None /\ head[n].at = "read" /\ NeedsHead(head[n].entry)
  /\ LET o == obj[node[n].path] IN
       /\ o # None /\ o.len > 0
       /\ head' = [head EXCEPT ![n] = [at |-> "found", entry |-> [@.entry EXCEPT !.size = o.len]]]
  /\ UNCHANGED <<storageVars, node, hnd, pend, rm, acked>>

\* The size HeadObject found is stored, whatever the row says by now.
AttrPersist(n) ==
  /\ head[n] # None /\ head[n].at = "found"
  /\ LET p == node[n].path IN
       StoreFields(p, [row[p] EXCEPT !.size = head[n].entry.size, !.idle = FALSE, !.verified = TRUE])
  /\ head' = [head EXCEPT ![n] = [at |-> "done", entry |-> [@.entry EXCEPT !.verified = TRUE]]]
  /\ UNCHANGED <<obj, link, data, wid, node, hnd, pend, rm, acked>>

\* The cached entry is replaced by the row as it was read, whatever the row and
\* the entry say by now; also when HeadObject has failed or found no bytes.
AttrStore(n) ==
  /\ head[n] # None /\ head[n].at # "found"
  /\ node' = [node EXCEPT ![n] = head[n].entry]
  /\ head' = [head EXCEPT ![n] = None]
  /\ UNCHANGED <<storageVars, hnd, pend, rm, acked>>

-----------------------------------------------------------------------------
(* File.Setattr.  Only the columns of the request are written, and the row *)
(* is read again (AttrStore puts it into the node); the file and the       *)
(* object keep their bytes when the size changes.                          *)

\* A resize: the last flush no longer says what the file should hold.
SetattrSize(n, s) ==
  /\ node[n] # None
  /\ LET p == node[n].path
         r == [row[p] EXCEPT !.size = s]
     IN  /\ row[p] # None
         /\ row' = [row EXCEPT ![p] = r]
         /\ acked' = [acked EXCEPT ![p] = None]
         /\ Reads(n, "done", r, None)
  /\ UNCHANGED <<obj, link, data, wid, node, hnd, pend, rm>>

\* A new mtime, recent or old, set by the application.
SetattrMtime(n, old) ==
  /\ node[n] # None
  /\ LET p == node[n].path
         r == [row[p] EXCEPT !.idle = old]
     IN  /\ row[p] # None
         /\ row' = [row EXCEPT ![p] = r]
         /\ Reads(n, "done", r, acked[p])
  /\ UNCHANGED <<obj, link, data, wid, node, hnd, pend, rm, acked>>

-----------------------------------------------------------------------------
(* Dir.Create and File.Open                                                *)

NewEntry == [size |-> 0, idle |-> FALSE, dirty |-> FALSE, staged |-> FALSE,
             verified |-> FALSE]

Opened(n, i) ==
  [Closed EXCEPT !.pc = "open", !.node = n, !.ino = i, !.seen = node[n].seen]

\* Create: the row first, then an empty staging file, truncating one that was
\* left behind.  The kernel asks for a name that is not there.
Create(p, n, h, i) ==
  /\ row[p] = None /\ p \notin rm
  /\ hnd[h].pc = "closed" /\ ~InUse(n)
  /\ IF link[p] # None THEN i = link[p] ELSE FreeInode(i)
  /\ row'  = [row EXCEPT ![p] = UpdateEntry(row[p], NewEntry)]
  /\ link' = [link EXCEPT ![p] = i]
  /\ data' = [data EXCEPT ![i] = Empty]
  /\ node' = [node EXCEPT ![n] = Snapshot(p, NewEntry, None)]
  /\ hnd'  = [hnd EXCEPT ![h] = [Closed EXCEPT !.pc = "open", !.node = n, !.ino = i]]
  /\ UNCHANGED <<obj, wid, head, pend, rm, acked>>

\* Open for reading a node that does not know of a staging file.
OpenRemote(n, h) ==
  /\ node[n] # None /\ ~node[n].staged
  /\ hnd[h].pc = "closed"
  /\ hnd' = [hnd EXCEPT ![h] = Opened(n, None)]
  /\ UNCHANGED <<storageVars, node, head, pend, rm, acked>>

\* Open, to read or to write, of a node that knows of a staging file; Open
\* fails when the file is not there.
OpenStaged(n, h) ==
  /\ node[n] # None /\ node[n].staged
  /\ hnd[h].pc = "closed"
  /\ link[node[n].path] # None
  /\ hnd' = [hnd EXCEPT ![h] = Opened(n, link[node[n].path])]
  /\ UNCHANGED <<storageVars, node, head, pend, rm, acked>>

\* Open for writing a node without one: O_CREATE, and no O_TRUNC.
OpenWrite(n, h, i) ==
  /\ node[n] # None /\ ~node[n].staged
  /\ hnd[h].pc = "closed"
  /\ LET p == node[n].path IN
       /\ IF link[p] # None
            THEN i = link[p] /\ UNCHANGED data
            ELSE FreeInode(i) /\ data' = [data EXCEPT ![i] = Empty]
       /\ link' = [link EXCEPT ![p] = i]
  /\ hnd' = [hnd EXCEPT ![h] = Opened(n, i)]
  /\ UNCHANGED <<row, obj, wid, node, head, pend, rm, acked>>

-----------------------------------------------------------------------------
(* FileHandle.Write                                                        *)

\* The first write of a handle asks for the object if the cached entry says
\* that the file has bytes.  An error is logged and the write goes on.
FetchStart(h) ==
  /\ hnd[h].pc = "open" /\ hnd[h].ino # None /\ ~hnd[h].once
  /\ node[hnd[h].node].size > 0
  /\ \E g \in {obj[Path(h)], None} :
       hnd' = [hnd EXCEPT ![h].pc = "fetch", ![h].got = g]
  /\ UNCHANGED <<storageVars, node, head, pend, rm, acked>>

\* The body is copied over the staging file, whatever it holds by now.  A copy
\* that breaks off after k blocks is not noticed.
FetchCopy(h, k) ==
  /\ hnd[h].pc = "fetch"
  /\ LET g == hnd[h].got
         i == hnd[h].ino
     IN IF g = None THEN k = 0 /\ UNCHANGED data
        ELSE k <= g.len /\ data' = [data EXCEPT ![i] = Overlay(data[i], g, k)]
  /\ hnd' = [hnd EXCEPT ![h].pc = "fetched", ![h].got = None, ![h].once = TRUE]
  /\ UNCHANGED <<row, obj, link, wid, node, head, pend, rm, acked>>

\* The write itself.  The cached size grows; the first write since the last
\* flush starts a goroutine that will store the size it sees now.
Write(h, b) ==
  /\ \/ hnd[h].pc = "fetched"
     \/ /\ hnd[h].pc = "open" /\ hnd[h].ino # None
        /\ hnd[h].once \/ node[hnd[h].node].size = 0
  /\ wid < MaxWrites
  /\ LET i == hnd[h].ino
         n == hnd[h].node
         s == IF node[n].size > b THEN node[n].size ELSE b + 1
     IN  /\ data' = [data EXCEPT ![i] = WriteBlock(data[i], b, wid + 1)]
         /\ node' = [node EXCEPT ![n].size = s]
         /\ pend' = IF hnd[h].dirty THEN pend
                    ELSE pend \cup {[path |-> Path(h), size |-> s, by |-> wid + 1]}
  /\ wid' = wid + 1
  /\ hnd' = [hnd EXCEPT ![h].pc = "open", ![h].once = TRUE, ![h].dirty = TRUE]
  /\ UNCHANGED <<row, obj, link, head, rm, acked>>

\* The goroutine of an earlier Write runs.
PersistSize(u) ==
  /\ u \in pend
  /\ pend' = pend \ {u}
  /\ StoreFields(u.path, [row[u.path] EXCEPT !.size = u.size, !.idle = FALSE])
  /\ UNCHANGED <<obj, link, data, wid, node, head, hnd, rm, acked>>

-----------------------------------------------------------------------------
(* FileHandle.Flush                                                        *)

\* Flush of a written handle: the file is synced and its size read.
FlushBegin(h) ==
  /\ hnd[h].pc = "open" /\ hnd[h].dirty
  /\ hnd' = [hnd EXCEPT ![h].pc = "flush", ![h].got = data[hnd[h].ino]]
  /\ UNCHANGED <<storageVars, node, head, pend, rm, acked>>

\* Faulty: the size is that of the block after the last one.
FlushEntryLong(h) ==
  [size |-> hnd[h].got.len + 1, idle |-> FALSE, dirty |-> TRUE, staged |-> TRUE,
   verified |-> node[hnd[h].node].verified]

\* Faulty: the staging path is left to what the cached entry says.
FlushEntryUnstaged(h) ==
  [size |-> hnd[h].got.len, idle |-> FALSE, dirty |-> TRUE,
   staged |-> node[hnd[h].node].staged, verified |-> node[hnd[h].node].verified]

\* The entry Flush hands to UpdateEntry.
FlushEntry(h) ==
  [size |-> hnd[h].got.len, idle |-> FALSE, dirty |-> TRUE, staged |-> TRUE,
   verified |-> node[hnd[h].node].verified]

\* Flush reads f.entry anew for each of its four assignments and for the call of
\* UpdateEntry, under a mutex that Attr and Setattr do not take.  If one of them
\* puts the row r there after the size, the time, the flag or the path has been
\* assigned, UpdateEntry gets r with the assignments that were left.
Torn(r) ==
  LET path == [r EXCEPT !.staged = TRUE]
      flag == [path EXCEPT !.dirty = TRUE]
  IN  {[flag EXCEPT !.idle = FALSE], flag, path, r}

\* The row is marked dirty; if the database refuses, Flush succeeds anyway.
\* A flush of a file that is removed, or being removed, promises nothing.
FlushCommit(h) ==
  /\ hnd[h].pc = "flush"
  /\ LET p == Path(h)
         n == hnd[h].node
         g == hnd[h].got
         r == UpdateEntry(row[p], FlushEntry(h))
         a == IF row[p] = None \/ p \in rm THEN None ELSE g
     IN  /\ acked' = [acked EXCEPT ![p] = a]
         /\ \/ /\ row'  = [row EXCEPT ![p] = r]
               /\ node' = [node EXCEPT ![n] = Snapshot(p, r, a)]
            \/ /\ DBFaults /\ UNCHANGED row
               /\ node' = [node EXCEPT ![n].size = g.len, ![n].staged = TRUE]
            \/ /\ TornFlush /\ row[p] # None
               /\ \E e \in Torn(row[p]) : /\ row'  = [row EXCEPT ![p] = e]
                                          /\ node' = [node EXCEPT ![n] = Snapshot(p, e, a)]
  /\ hnd' = [hnd EXCEPT ![h].pc = "open", ![h].dirty = FALSE, ![h].got = None]
  /\ UNCHANGED <<obj, link, data, wid, head, pend, rm>>

-----------------------------------------------------------------------------
(* FileHandle.Release                                                      *)

\* Faulty: the row is not asked.
MayRemoveAlways(h, err) == hnd[h].ino # None

\* The row is asked whether the staging file may go.  If there is no row, or
\* the database cannot tell, it may.
MayRemove(h, err) ==
  hnd[h].ino # None /\ (err \/ row[Path(h)] = None \/ ~row[Path(h)].dirty)

ReleaseCheck(h) ==
  /\ hnd[h].pc = "open" /\ ~hnd[h].dirty
  /\ \E err \in {FALSE, DBFaults} :
       hnd' = [hnd EXCEPT ![h] =
                 IF MayRemove(h, err)
                   THEN [@ EXCEPT !.pc = "release", !.ino = None] ELSE Closed]
  /\ UNCHANGED <<storageVars, node, head, pend, rm, acked>>

\* The name is removed, whatever the row says by now.
ReleaseRemove(h) ==
  /\ hnd[h].pc = "release"
  /\ link' = [link EXCEPT ![Path(h)] = None]
  /\ hnd' = [hnd EXCEPT ![h] = Closed]
  /\ UNCHANGED <<row, obj, data, wid, node, head, pend, rm, acked>>

-----------------------------------------------------------------------------
(* Dir.Remove                                                              *)

\* The object goes first.  The request may also time out after the bucket did
\* it: then the caller sees an error and the row stays.
RemoveObject(p, ok) ==
  /\ row[p] # None /\ p \notin rm
  /\ obj'   = [obj EXCEPT ![p] = None]
  /\ acked' = [acked EXCEPT ![p] = None]
  /\ rm'    = IF ok THEN rm \cup {p} ELSE rm
  /\ UNCHANGED <<row, link, data, wid, node, head, hnd, pend>>

\* The row goes; the staging file is left where it is.
RemoveRow(p) ==
  /\ p \in rm
  /\ Store(p, None)
  /\ rm' = rm \ {p}
  /\ UNCHANGED <<obj, link, data, wid, node, head, hnd, pend, acked>>
=============================================================================
