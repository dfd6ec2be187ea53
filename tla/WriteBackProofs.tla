--------------------------- MODULE WriteBackProofs ---------------------------
(***************************************************************************)
(* Durability, the promises of the share and fresh reads, for any number   *)
(* of files, nodes, handles, inodes and crashes when files are copied onto *)
(* the share: created, written and closed by one handle, then read,        *)
(* touched and removed, with a database that works.  (With "rewrite" they  *)
(* do not hold: see the races of WriteBack.)                               *)
(*                                                                         *)
(* Durable says where the promised data is, at a moment.  What makes it    *)
(* inductive is who may still take it away: every handle about to unlink,  *)
(* every entry the daemon has listed, read or is about to mark.            *)
(***************************************************************************)
EXTENDS WriteBackTypes

WriteOnce == Ops \cap {"rewrite", "resize"} = {} /\ ~DBFaults /\ ~TornFlush

\* The bucket has what the last close of p promised, if it promised anything.
Up(p) == acked[p] # None => Uploaded(p)

\* A row with local data is that of a file that was flushed.
RowInv ==
  \A p \in Paths :
    /\ phase[p] = "new" => row[p] = None /\ link[p] = None
    /\ phase[p] # "flushed" => acked[p] = None
    /\ row[p] # None /\ phase[p] = "created" => ~row[p].dirty /\ ~row[p].staged
    /\ row[p] # None /\ row[p].dirty => row[p].staged
    /\ row[p] = None \/ p \in rm => acked[p] = None
    /\ row[p] # None /\ ~row[p].dirty => Up(p)
    /\ link[p] = None => Up(p)

\* An inode belongs to one path, and holds what the last close promised.
LinkInv ==
  \A p \in Paths : link[p] # None =>
    /\ \A q \in Paths : link[q] = link[p] => q = p
    /\ \A h \in Handles : hnd[h].ino = link[p] => Path(h) = p
    /\ ino = link[p] => cur.path = p
    /\ acked[p] # None => Covers(data[link[p]], acked[p])

\* A node, or an Attr on its way, that knows of a staging file has read the
\* row after the flush.
NodeInv ==
  \A n \in Nodes : node[n] # None =>
    /\ phase[node[n].path] # "new"
    /\ node[n].staged => phase[node[n].path] = "flushed"
    /\ head[n] # None /\ head[n].entry.staged => phase[node[n].path] = "flushed"

\* Before the first flush one handle can write, and it holds the linked file;
\* a handle about to unlink has seen the upload.
HandleInv ==
  \A h \in Handles :
    /\ hnd[h].pc \notin {"fetch", "fetched"}
    /\ hnd[h].dirty => phase[Path(h)] = "created"
    /\ hnd[h].pc = "flush" => hnd[h].dirty /\ hnd[h].got = data[hnd[h].ino]
    /\ hnd[h].ino # None /\ phase[Path(h)] = "created" => hnd[h].ino = link[Path(h)]
    /\ hnd[h].pc = "release" /\ phase[Path(h)] = "flushed" => Up(Path(h))

Holding(h) == hnd[h].ino # None \/ hnd[h].pc = "release"

\* Before the first flush nobody else holds the file or is about to unlink it.
OwnerInv ==
  \A h, o \in Handles :
    Holding(h) /\ Holding(o) /\ Path(h) = Path(o) /\ phase[Path(h)] = "created" => h = o

\* The daemon works on flushed files; what it sends is what was promised, and
\* what it unlinks or marks clean is in the bucket.
DaemonInv ==
  /\ \A e \in todo : phase[e.path] = "flushed" /\ e.staged
  /\ pc \in {"evict", "remove", "clear"} => \A e \in todo : Up(e.path) /\ ~Dirty(e.path)
  /\ cur # None => phase[cur.path] = "flushed"
  /\ pc = "read" => /\ \A h \in Handles : hnd[h].ino = ino => Path(h) = cur.path
                    /\ acked[cur.path] # None => Covers(data[ino], acked[cur.path])
  /\ pc = "put" /\ acked[cur.path] # None => Covers(buf, acked[cur.path])
  /\ pc \in {"mark", "unmark", "remove", "clear"} => Up(cur.path)
  /\ pc \in {"remove", "clear"} => ~Dirty(cur.path)

DurableInv == RowInv /\ LinkInv /\ NodeInv /\ HandleInv /\ OwnerInv /\ DaemonInv

-----------------------------------------------------------------------------
\* The invariant implies the property.
LEMMA InvDurable == ASSUME DurableInv PROVE Durable
BY DEF DurableInv, RowInv, LinkInv, Up, Durable, Safe, Waiting

-----------------------------------------------------------------------------
(* Steps that read, or that change columns of no consequence.              *)

LEMMA QuietStep ==
  ASSUME TypeInv, DurableInv, Quiet, UNCHANGED <<phase, daemonVars>>, NodeInv'
  PROVE  DurableInv'
<1> USE DEF Quiet, DurableInv
<1>1. \A p \in Paths : (Up(p)' <=> Up(p)) /\ (Dirty(p)' <=> Dirty(p))
  BY DEF Up, Uploaded, Dirty, SameFlags
<1>2. RowInv'
  BY <1>1 DEF RowInv, SameFlags
<1>3. LinkInv'
  BY DEF LinkInv, daemonVars, TypeInv, HandleShape
<1>4. HandleInv'
  BY <1>1, PathType DEF HandleInv, TypeInv, HandleShape
<1>5. OwnerInv'
  BY DEF OwnerInv, Holding, TypeInv, HandleShape
<1>6. DaemonInv'
  BY <1>1, EntryType DEF DaemonInv, daemonVars, TypeInv, HandleShape, DaemonShape
<1> QED BY <1>2, <1>3, <1>4, <1>5, <1>6

\* A node that takes flags of a row, or keeps them, knows of a staging file only
\* if the file was flushed.
LEMMA RowNode ==
  ASSUME TypeInv, DurableInv, NEW p \in Paths, row[p] # None
  PROVE  phase[p] # "new" /\ (row[p].staged => phase[p] = "flushed")
BY DEF DurableInv, RowInv, TypeInv, TypeOK

LEMMA LookupDurable ==
  ASSUME TypeInv, DurableInv, NEW p \in Paths, NEW n \in Nodes,
         Lookup(p, n), UNCHANGED <<daemonVars, phase>>
  PROVE  DurableInv'
<1>1. OnlyNode(n, p) /\ node'[n].staged = row[p].staged
  BY LookupEffect
<1>2. UNCHANGED <<row, obj, link, data, head, hnd, rm, acked>> /\ ~InUse(n) /\ row[p] # None
  BY DEF Lookup, storageVars
<1>3. NodeInv'
  BY <1>1, <1>2, RowNode DEF DurableInv, NodeInv, OnlyNode, InUse
<1>4. Quiet
  BY QuietEffect
<1> QED BY <1>3, <1>4, QuietStep

\* A request of n that has read the row.
LEMMA ReadNode ==
  ASSUME TypeInv, DurableInv, NEW n \in Nodes, node[n] # None, row[node[n].path] # None,
         OnlyHead(n), head'[n].entry.staged = row[node[n].path].staged,
         UNCHANGED <<node, phase>>
  PROVE  NodeInv'
<1>1. node[n].path \in Paths
  BY DEF TypeInv, TypeOK, HandlesTypeOK, Node
<1> QED BY <1>1, RowNode DEF DurableInv, NodeInv, OnlyHead

LEMMA AttrReadDurable ==
  ASSUME TypeInv, DurableInv, NEW n \in Nodes,
         AttrRead(n), UNCHANGED <<daemonVars, phase>>
  PROVE  DurableInv'
<1>1. UNCHANGED node
  BY DEF AttrRead
<1>2. NodeInv'
  BY <1>1, AttrReadEffect, ReadNode DEF HeadIs
<1>3. Quiet
  BY QuietEffect
<1> QED BY <1>2, <1>3, QuietStep

LEMMA AttrHeadDurable ==
  ASSUME TypeInv, DurableInv, NEW n \in Nodes,
         AttrHead(n), UNCHANGED <<daemonVars, phase>>
  PROVE  DurableInv'
<1>1. OnlyHead(n) /\ head[n] # None /\ head'[n].entry.staged = head[n].entry.staged
  BY AttrHeadEffect
<1>2. UNCHANGED node
  BY DEF AttrHead
<1>3. NodeInv'
  BY <1>1, <1>2 DEF DurableInv, NodeInv, OnlyHead
<1>4. Quiet
  BY QuietEffect
<1> QED BY <1>3, <1>4, QuietStep

LEMMA AttrPersistDurable ==
  ASSUME TypeInv, DurableInv, NEW n \in Nodes,
         AttrPersist(n), UNCHANGED <<daemonVars, phase>>
  PROVE  DurableInv'
<1>1. OnlyHead(n) /\ head[n] # None /\ head'[n].entry.staged = head[n].entry.staged
  BY AttrPersistEffect
<1>2. UNCHANGED node
  BY DEF AttrPersist
<1>3. NodeInv'
  BY <1>1, <1>2 DEF DurableInv, NodeInv, OnlyHead
<1>4. Quiet
  BY QuietEffect
<1> QED BY <1>3, <1>4, QuietStep

LEMMA AttrStoreDurable ==
  ASSUME TypeInv, DurableInv, NEW n \in Nodes,
         AttrStore(n), UNCHANGED <<daemonVars, phase>>
  PROVE  DurableInv'
<1>1. /\ OnlyNode(n, node[n].path) /\ node[n] # None
      /\ head[n] # None /\ node'[n] = head[n].entry
      /\ OnlyHead(n) /\ head'[n] = None
  BY AttrStoreEffect
<1>2. NodeInv'
  BY <1>1 DEF DurableInv, NodeInv, OnlyNode, OnlyHead
<1>3. Quiet
  BY QuietEffect
<1> QED BY <1>2, <1>3, QuietStep

LEMMA SetattrMtimeDurable ==
  ASSUME TypeInv, DurableInv, NEW n \in Nodes, NEW old \in BOOLEAN,
         SetattrMtime(n, old), UNCHANGED <<daemonVars, phase>>
  PROVE  DurableInv'
<1>1. UNCHANGED node
  BY DEF SetattrMtime
<1>2. NodeInv'
  BY <1>1, SetattrMtimeEffect, ReadNode DEF HeadIs
<1>3. Quiet
  BY QuietEffect
<1> QED BY <1>2, <1>3, QuietStep

LEMMA PersistSizeDurable ==
  ASSUME TypeInv, DurableInv, NEW u \in pend,
         PersistSize(u), UNCHANGED <<daemonVars, phase>>
  PROVE  DurableInv'
<1>1. SameFlags
  BY PersistSizeEffect
<1>2. UNCHANGED <<obj, link, data, node, head, hnd, rm, acked>>
  BY DEF PersistSize
<1>3. NodeInv'
  BY <1>1, <1>2 DEF DurableInv, NodeInv
<1>4. Quiet
  BY QuietEffect
<1> QED BY <1>2, <1>3, <1>4, QuietStep

LEMMA AgeDurable ==
  ASSUME TypeInv, DurableInv, NEW p \in Paths, Age(p), UNCHANGED phase
  PROVE  DurableInv'
<1>1. SameFlags
  BY AgeEffect
<1>2. UNCHANGED <<obj, link, data, node, head, hnd, rm, acked, daemonVars>>
  BY DEF Age, handleVars
<1>3. NodeInv'
  BY <1>1, <1>2 DEF DurableInv, NodeInv
<1>4. Quiet
  BY QuietEffect
<1> QED BY <1>2, <1>3, <1>4, QuietStep

-----------------------------------------------------------------------------
(* Steps of one handle.                                                    *)

\* Only handle h changes.
OnlyHandleMoves(h) ==
  /\ OnlyHandle(h)
  /\ UNCHANGED <<row, obj, link, data, node, head, acked, rm, phase, daemonVars>>

LEMMA HandleStep ==
  ASSUME TypeInv, DurableInv, NEW h \in Handles, OnlyHandleMoves(h),
         \* what h holds is the linked file of its path, or not linked
         \A p \in Paths : hnd'[h].ino # None /\ hnd'[h].ino = link[p] => Path(h)' = p,
         pc = "read" /\ hnd'[h].ino = ino => Path(h)' = cur.path,
         HandleInv', OwnerInv'
  PROVE  DurableInv'
<1> USE DEF OnlyHandleMoves, DurableInv
<1>1. \A p \in Paths : (Up(p)' <=> Up(p)) /\ (Dirty(p)' <=> Dirty(p))
  BY DEF Up, Uploaded, Dirty
<1>2. RowInv' /\ NodeInv'
  BY <1>1 DEF RowInv, NodeInv
<1>3. LinkInv'
  BY DEF LinkInv, OnlyHandle, Path, daemonVars
<1>4. DaemonInv'
  BY <1>1, EntryType DEF DaemonInv, OnlyHandle, Path, daemonVars, TypeInv, DaemonShape
<1> QED BY <1>2, <1>3, <1>4

LEMMA OpenRemoteDurable ==
  ASSUME TypeInv, DurableInv, NEW n \in Nodes, NEW h \in Handles,
         OpenRemote(n, h), UNCHANGED <<daemonVars, phase>>
  PROVE  DurableInv'
<1>1. OnNode(n, h) /\ hnd'[h].ino = None
  BY OpenRemoteEffect
<1>2. OnlyHandleMoves(h)
  BY <1>1 DEF OpenRemote, OnNode, OnlyHandleMoves, storageVars
<1>3. HandleInv' /\ OwnerInv'
  BY <1>1, <1>2 DEF DurableInv, HandleInv, OwnerInv, Holding, OnNode, OnlyHandle,
                    OnlyHandleMoves, Up, Uploaded, Path
<1>4. pc = "read" => ino # None
  BY DEF TypeInv, DaemonShape
<1> QED BY <1>1, <1>2, <1>3, <1>4, HandleStep

LEMMA OpenStagedDurable ==
  ASSUME TypeInv, DurableInv, NEW n \in Nodes, NEW h \in Handles,
         OpenStaged(n, h), UNCHANGED <<daemonVars, phase>>
  PROVE  DurableInv'
<1> DEFINE p == node[n].path
<1>1. OnNode(n, h) /\ hnd'[h].ino = link[p] /\ node[n] # None
  BY OpenStagedEffect
<1>2. OnlyHandleMoves(h) /\ node[n].staged /\ link[p] # None
  BY <1>1 DEF OpenStaged, OnNode, OnlyHandleMoves, storageVars
<1>3. p \in Paths /\ phase[p] = "flushed"
  BY <1>1, <1>2 DEF DurableInv, NodeInv, TypeInv, TypeOK, HandlesTypeOK, Node
<1>4. Path(h)' = p
  BY <1>1, <1>2 DEF OnNode, OnlyHandleMoves, Path
<1>5. \A q \in Paths : hnd'[h].ino # None /\ hnd'[h].ino = link[q] => Path(h)' = q
  BY <1>1, <1>2, <1>3, <1>4 DEF DurableInv, LinkInv
<1>6. pc = "read" /\ hnd'[h].ino = ino => Path(h)' = cur.path
  BY <1>1, <1>2, <1>3, <1>4 DEF DurableInv, LinkInv
<1>7. HandleInv' /\ OwnerInv'
  BY <1>1, <1>2, <1>3 DEF DurableInv, HandleInv, OwnerInv, Holding, OnNode, OnlyHandle,
                    OnlyHandleMoves, Up, Uploaded, Path
<1> QED BY <1>2, <1>5, <1>6, <1>7, HandleStep

LEMMA FlushBeginDurable ==
  ASSUME TypeInv, DurableInv, NEW h \in Handles,
         FlushBegin(h), UNCHANGED <<daemonVars, phase>>
  PROVE  DurableInv'
<1>1. /\ Continues(h, "flush") /\ hnd'[h].dirty /\ hnd[h].dirty /\ hnd[h].ino # None
      /\ hnd'[h].got = data[hnd[h].ino]
  BY FlushBeginEffect
<1>2. OnlyHandleMoves(h) /\ hnd[h].pc = "open"
  BY <1>1 DEF FlushBegin, Continues, OnlyHandleMoves, storageVars
<1>3. Path(h)' = Path(h)
  BY <1>1, <1>2 DEF Continues, OnlyHandleMoves, Path
<1>4. \A q \in Paths : hnd'[h].ino # None /\ hnd'[h].ino = link[q] => Path(h)' = q
  BY <1>1, <1>3 DEF DurableInv, LinkInv, Continues
<1>5. pc = "read" /\ hnd'[h].ino = ino => Path(h)' = cur.path
  BY <1>1, <1>3 DEF DurableInv, DaemonInv, Continues
<1>6. HandleInv' /\ OwnerInv'
  BY <1>1, <1>2 DEF DurableInv, HandleInv, OwnerInv, Holding, Continues, OnlyHandle,
                    OnlyHandleMoves, Up, Uploaded, Path
<1> QED BY <1>2, <1>4, <1>5, <1>6, HandleStep

\* The row that lets the file go says that the bucket has it.
LEMMA ReleaseCheckDurable ==
  ASSUME TypeInv, DurableInv, WriteOnce, NEW h \in Handles,
         ReleaseCheck(h), UNCHANGED <<daemonVars, phase>>
  PROVE  DurableInv'
<1>1. /\ OnlyHandle(h) /\ hnd'[h].ino = None /\ ~hnd'[h].dirty
      /\ \/ hnd'[h].pc = "closed" /\ hnd'[h].node = None
         \/ /\ hnd'[h].pc = "release" /\ hnd'[h].node = hnd[h].node
            /\ \E err \in {FALSE, DBFaults} : MayRemove(h, err)
  BY ReleaseCheckEffect
<1>2. OnlyHandleMoves(h) /\ hnd[h].pc = "open"
  BY <1>1 DEF ReleaseCheck, OnlyHandleMoves, storageVars
<1>3. Path(h) \in Paths
  BY <1>2, PathType
<1>4. hnd'[h].pc = "release" => hnd[h].ino # None /\ Up(Path(h)) /\ Path(h)' = Path(h)
  <2>1. SUFFICES ASSUME hnd'[h].pc = "release"
                 PROVE  hnd[h].ino # None /\ Up(Path(h)) /\ Path(h)' = Path(h)
    OBVIOUS
  <2>2. PICK err \in {FALSE, DBFaults} : MayRemove(h, err)
    BY <1>1, <2>1
  <2>3. hnd[h].ino # None /\ (row[Path(h)] = None \/ ~row[Path(h)].dirty)
    BY <2>2 DEF MayRemove, WriteOnce
  <2>4. Up(Path(h))
    BY <1>3, <2>3 DEF DurableInv, RowInv, Up
  <2>5. Path(h)' = Path(h)
    BY <1>1, <1>2, <2>1 DEF OnlyHandleMoves, Path
  <2> QED BY <2>3, <2>4, <2>5
<1>5. HandleInv'
  <2>1. hnd'[h].pc = "release" => Up(Path(h))'
    BY <1>2, <1>4 DEF OnlyHandleMoves, Up, Uploaded
  <2>2. \A o \in Handles : o # h => hnd'[o] = hnd[o] /\ Path(o)' = Path(o) /\ (Up(Path(o))' <=> Up(Path(o)))
    BY <1>2 DEF OnlyHandle, OnlyHandleMoves, Up, Uploaded, Path
  <2> QED BY <1>1, <1>2, <2>1, <2>2 DEF DurableInv, HandleInv, OnlyHandleMoves
<1>6. OwnerInv'
  BY <1>1, <1>2, <1>4 DEF DurableInv, OwnerInv, Holding, OnlyHandle, OnlyHandleMoves, Path
<1>7. pc = "read" => ino # None
  BY DEF TypeInv, DaemonShape
<1> QED BY <1>1, <1>2, <1>5, <1>6, <1>7, HandleStep

LEMMA ReleaseRemoveDurable ==
  ASSUME TypeInv, DurableInv, NEW h \in Handles,
         ReleaseRemove(h), UNCHANGED <<daemonVars, phase>>
  PROVE  DurableInv'
<1> USE DEF DurableInv
<1> DEFINE p == Path(h)
<1>1. /\ OnlyHandle(h) /\ hnd'[h].ino = None /\ ~hnd'[h].dirty
      /\ hnd'[h].pc = "closed" /\ hnd'[h].node = None
      /\ p \in Paths /\ link'[p] = None
      /\ \A q \in Paths : q # p => link'[q] = link[q]
  BY ReleaseRemoveEffect
<1>2. UNCHANGED <<row, obj, data, node, head, rm, acked, daemonVars, phase>> /\ hnd[h].pc = "release"
  BY DEF ReleaseRemove
<1>3. \A q \in Paths : (Up(q)' <=> Up(q)) /\ (Dirty(q)' <=> Dirty(q))
  BY <1>2 DEF Up, Uploaded, Dirty
<1>4. Up(p)
  BY <1>1, <1>2 DEF HandleInv, RowInv, Up, TypeInv, TypeOK
<1>5. \A o \in Handles : o # h => hnd'[o] = hnd[o] /\ Path(o)' = Path(o)
  BY <1>1, <1>2 DEF OnlyHandle, Path
<1> HIDE DEF p
<1>6. RowInv' /\ NodeInv'
  BY <1>1, <1>2, <1>3, <1>4 DEF RowInv, NodeInv
<1>7. LinkInv'
  BY <1>1, <1>2, <1>5 DEF LinkInv, daemonVars
<1>8. HandleInv'
  <2>1. ASSUME NEW o \in Handles, o # h, hnd[o].ino # None, phase[Path(o)] = "created"
        PROVE  Path(o) # p /\ Path(o) \in Paths
    BY <1>2, <2>1, PathType DEF OwnerInv, Holding, p, TypeInv, HandleShape
  <2>2. \A o \in Handles : hnd[o].pc = "release" => Path(o) \in Paths
    BY PathType
  <2> QED BY <1>1, <1>2, <1>3, <1>5, <2>1, <2>2 DEF HandleInv
<1>9. OwnerInv'
  BY <1>1, <1>2, <1>5 DEF OwnerInv, Holding
<1>10. DaemonInv'
  <2>1. pc = "read" => ino # None /\ cur # None
    BY DEF TypeInv, DaemonShape
  <2> QED BY <1>1, <1>2, <1>3, <1>5, <2>1, EntryType DEF DaemonInv, daemonVars, TypeInv, DaemonShape
<1> QED BY <1>6, <1>7, <1>8, <1>9, <1>10

\* A write goes to a file that was never flushed, and that nobody else holds.
LEMMA WriteDurable ==
  ASSUME TypeInv, DurableInv, NEW h \in Handles, NEW b \in Blocks,
         Write(h, b), phase[Path(h)] # "flushed", UNCHANGED <<daemonVars, phase>>
  PROVE  DurableInv'
<1> USE DEF DurableInv
<1> DEFINE p == Path(h)
           i == hnd[h].ino
<1>1. /\ Continues(h, "open") /\ hnd'[h].dirty /\ i # None
      /\ hnd[h].pc \in {"fetched", "open"}
      /\ data' = [data EXCEPT ![i] = WriteBlock(data[i], b, wid + 1)]
      /\ OnlyNode(hnd[h].node, p) /\ node[hnd[h].node] # None
      /\ node'[hnd[h].node].staged = node[hnd[h].node].staged
  BY WriteEffect
<1>2. UNCHANGED <<row, obj, link, head, rm, acked, daemonVars, phase>>
  BY DEF Write
<1>3. p \in Paths /\ hnd[h].node \in Nodes
  BY <1>1, PathType
<1>4. phase[p] = "created" /\ i = link[p]
  BY <1>1, <1>3 DEF NodeInv, HandleInv, Path, TypeInv, TypeOK
<1>5. \A j \in Inodes : j # i => data'[j] = data[j]
  BY <1>1 DEF TypeInv, TypeOK, StorageTypeOK
<1>6. \A q \in Paths : (Up(q)' <=> Up(q)) /\ (Dirty(q)' <=> Dirty(q))
  BY <1>2 DEF Up, Uploaded, Dirty
<1>7. /\ Path(h)' = Path(h)
      /\ \A o \in Handles : o # h => hnd'[o] = hnd[o]
      /\ \A o \in Handles : hnd[o].pc # "closed" => Path(o)' = Path(o)
  BY <1>1, <1>3, PathType DEF Continues, OnlyHandle, OnlyNode, Path
<1>8. \A q \in Paths : q # p /\ link[q] # None => link[q] # i /\ link[q] \in Inodes
  BY <1>1, <1>3, <1>4 DEF LinkInv, TypeInv, TypeOK, StorageTypeOK
<1>9. hnd'[h].ino = i /\ hnd'[h].pc = "open"
  BY <1>1 DEF Continues
<1>10. RowInv'
  BY <1>2, <1>6 DEF RowInv
<1>11. NodeInv'
  BY <1>1, <1>2, <1>3 DEF NodeInv, OnlyNode, Path
<1>12. acked[p] = None
  BY <1>3, <1>4 DEF RowInv
<1> HIDE DEF p, i
<1>13. LinkInv'
  <2>1. \A q \in Paths : link[q] # None /\ acked[q] # None => data'[link[q]] = data[link[q]]
    BY <1>5, <1>8, <1>12
  <2>2. \A o \in Handles : \A q \in Paths : link[q] # None /\ hnd'[o].ino = link[q] => Path(o)' = q
    BY <1>3, <1>4, <1>7, <1>8, <1>9 DEF LinkInv, TypeInv, HandleShape, p
  <2> QED BY <1>2, <2>1, <2>2 DEF LinkInv, daemonVars
<1>14. HandleInv'
  <2>1. ASSUME NEW o \in Handles, o # h, hnd[o].pc = "flush"
        PROVE  hnd[o].ino # i /\ hnd[o].ino \in Inodes
    <3>1. hnd[o].ino # None /\ hnd[o].dirty /\ phase[Path(o)] = "created"
      BY <2>1 DEF HandleInv, TypeInv, HandleShape
    <3>2. Path(o) \in Paths /\ hnd[o].ino = link[Path(o)] /\ hnd[o].ino \in Inodes
      BY <2>1, <3>1, PathType DEF HandleInv, TypeInv, TypeOK, HandlesTypeOK, Handle
    <3>3. Path(o) # p
      BY <1>1, <1>4, <2>1, <3>1 DEF OwnerInv, Holding, p, i
    <3> QED BY <1>8, <3>1, <3>2, <3>3
  <2>2. \A o \in Handles : hnd[o].pc # "closed" => Path(o) \in Paths
    BY PathType
  <2>3. \A o \in Handles : hnd[o].dirty \/ hnd[o].ino # None \/ hnd[o].pc \in {"flush", "release"} => hnd[o].pc # "closed"
    BY DEF TypeInv, HandleShape
  <2>4. ASSUME NEW o \in Handles, o # h
        PROVE  /\ hnd[o].pc \notin {"fetch", "fetched"}
               /\ hnd[o].dirty => phase[Path(o)'] = "created"
               /\ hnd[o].pc = "flush" => hnd[o].dirty /\ hnd[o].got = data'[hnd[o].ino]
               /\ hnd[o].ino # None /\ phase[Path(o)'] = "created" => hnd[o].ino = link[Path(o)']
               /\ hnd[o].pc = "release" /\ phase[Path(o)'] = "flushed" => Up(Path(o)')
    BY <1>5, <1>7, <2>1, <2>2, <2>3, <2>4 DEF HandleInv
  <2>5. \A o \in Handles : hnd'[o].pc = "release" => Path(o)' \in Paths
    BY <1>7, <1>9, <2>2
  <2> QED BY <1>2, <1>3, <1>4, <1>6, <1>7, <1>9, <2>4, <2>5 DEF HandleInv, p
<1>15. OwnerInv'
  BY <1>1, <1>2, <1>7, <1>9 DEF OwnerInv, Holding, TypeInv, HandleShape, i
<1>16. DaemonInv'
  <2>1. pc = "read" => ino # i /\ ino \in Inodes
    BY <1>4, <1>3 DEF DaemonInv, p, i, TypeInv, TypeOK, DaemonTypeOK, DaemonShape
  <2>2. \A o \in Handles : pc = "read" /\ hnd'[o].ino = ino => Path(o)' = cur.path
    BY <1>7, <1>9, <2>1 DEF DaemonInv, TypeInv, HandleShape, DaemonShape
  <2> QED BY <1>2, <1>5, <1>6, <2>1, <2>2, EntryType DEF DaemonInv, daemonVars, TypeInv, DaemonShape
<1> QED BY <1>10, <1>11, <1>13, <1>14, <1>15, <1>16

\* The first flush: the row becomes dirty and names the file that holds what
\* is promised; every other handle on it came without one.
LEMMA FlushCommitDurable ==
  ASSUME TypeInv, DurableInv, WriteOnce, NEW h \in Handles, FlushCommit(h),
         phase' = [phase EXCEPT ![Path(h)] = "flushed"], UNCHANGED daemonVars
  PROVE  DurableInv'
<1> USE DEF DurableInv
<1> DEFINE p == Path(h)
           i == hnd[h].ino
<1>1. /\ Continues(h, "open") /\ ~hnd'[h].dirty /\ i # None
      /\ OnlyNode(hnd[h].node, p)
      /\ acked'[p] = IF row[p] = None \/ p \in rm THEN None ELSE hnd[h].got
      /\ \A q \in Paths : q # p => acked'[q] = acked[q]
      /\ \A q \in Paths : q # p => row'[q] = row[q]
      /\ row'[p] # None /\ row'[p].dirty /\ row'[p].staged
  BY FlushCommitEffect DEF WriteOnce
<1>2. UNCHANGED <<obj, link, data, head, rm, daemonVars>> /\ hnd[h].pc = "flush"
  BY DEF FlushCommit
<1>3. p \in Paths /\ hnd[h].node \in Nodes /\ node[hnd[h].node] # None
  BY <1>2, PathType
<1>4. phase[p] = "created" /\ i = link[p] /\ hnd[h].got = data[i] /\ i \in Inodes
  BY <1>1, <1>2, <1>3 DEF HandleInv, TypeInv, TypeOK, StorageTypeOK
<1>5. phase'[p] = "flushed" /\ \A q \in Paths : q # p => phase'[q] = phase[q]
  BY <1>3 DEF TypeInv, TypeOK
<1>6. /\ Path(h)' = Path(h)
      /\ \A o \in Handles : o # h => hnd'[o] = hnd[o]
      /\ \A o \in Handles : hnd[o].pc # "closed" => Path(o)' = Path(o)
  BY <1>1, <1>3, PathType DEF Continues, OnlyHandle, OnlyNode, Path
<1>7. \A q \in Paths : q # p => (Up(q)' <=> Up(q)) /\ (Dirty(q)' <=> Dirty(q))
  BY <1>1, <1>2 DEF Up, Uploaded, Dirty
<1>8. acked'[p] # None => Covers(data[i], acked'[p])
  BY <1>1, <1>4, CoversItself DEF TypeInv, TypeOK, StorageTypeOK
<1>9. hnd'[h].ino = i /\ hnd'[h].pc = "open"
  BY <1>1 DEF Continues
<1>10. \A o \in Handles : o # h /\ (hnd[o].dirty \/ Holding(o)) => hnd[o].pc # "closed" /\ Path(o) # p /\ Path(o) \in Paths
  <2>1. ASSUME NEW o \in Handles, o # h, hnd[o].dirty \/ Holding(o)
        PROVE  hnd[o].pc # "closed" /\ Holding(o)
    BY <2>1 DEF Holding, TypeInv, HandleShape
  <2>2. Holding(h)
    BY <1>1 DEF Holding
  <2> QED BY <1>4, <2>1, <2>2, PathType DEF OwnerInv
<1> HIDE DEF p, i
<1>11. RowInv'
  BY <1>1, <1>2, <1>3, <1>4, <1>5, <1>7 DEF RowInv
<1>12. LinkInv'
  <2>1. \A o \in Handles : \A q \in Paths : link[q] # None /\ hnd'[o].ino = link[q] => Path(o)' = q
    BY <1>6, <1>9 DEF LinkInv, TypeInv, HandleShape, i
  <2> QED BY <1>1, <1>2, <1>4, <1>8, <2>1 DEF LinkInv, daemonVars
<1>13. NodeInv'
  <2>1. \A n \in Nodes : node[n] # None => node[n].path \in Paths
    BY DEF TypeInv, TypeOK, HandlesTypeOK, Node
  <2> QED BY <1>1, <1>2, <1>3, <1>5, <2>1 DEF NodeInv, OnlyNode
<1>14. HandleInv'
  <2>1. ASSUME NEW o \in Handles, o # h
        PROVE  /\ hnd[o].pc \notin {"fetch", "fetched"}
               /\ hnd[o].dirty => phase'[Path(o)'] = "created"
               /\ hnd[o].pc = "flush" => hnd[o].dirty /\ hnd[o].got = data[hnd[o].ino]
               /\ hnd[o].ino # None /\ phase'[Path(o)'] = "created" => hnd[o].ino = link[Path(o)']
               /\ hnd[o].pc = "release" /\ phase'[Path(o)'] = "flushed" => Path(o)' \in Paths /\ Path(o)' # p /\ Up(Path(o)')
    BY <1>5, <1>6, <1>10, <2>1 DEF HandleInv, Holding
  <2> QED BY <1>1, <1>2, <1>3, <1>5, <1>6, <1>7, <1>9, <2>1 DEF HandleInv, p
<1>15. OwnerInv'
  <2>1. \A o \in Handles : Holding(o)' => Holding(o)
    BY <1>6, <1>9, <1>1 DEF Holding, i
  <2>2. \A o \in Handles : Holding(o) => hnd[o].pc # "closed"
    BY DEF Holding, TypeInv, HandleShape
  <2> QED BY <1>5, <1>6, <2>1, <2>2, PathType DEF OwnerInv, p
<1>16. DaemonInv'
  <2>1. /\ \A e \in todo : e.path \in Paths /\ e.path # p
        /\ cur # None => cur.path \in Paths /\ cur.path # p
    BY <1>4, EntryType DEF DaemonInv
  <2>2. \A o \in Handles : pc = "read" /\ hnd'[o].ino = ino => Path(o)' = cur.path
    BY <1>6, <1>9 DEF DaemonInv, TypeInv, HandleShape, DaemonShape, i
  <2> QED BY <1>1, <1>2, <1>5, <1>7, <2>1, <2>2 DEF DaemonInv, daemonVars, TypeInv, DaemonShape
<1> QED BY <1>11, <1>12, <1>13, <1>14, <1>15, <1>16

\* A new file gets an inode nobody holds.
LEMMA CreateDurable ==
  ASSUME TypeInv, DurableInv,
         NEW p \in Paths, NEW n \in Nodes, NEW h \in Handles, NEW i \in Inodes,
         Create(p, n, h, i), MayUse(p, i), phase[p] = "new",
         phase' = [phase EXCEPT ![p] = "created"], UNCHANGED daemonVars
  PROVE  DurableInv'
<1> USE DEF DurableInv
<1>1. /\ row'[p] # None /\ ~row'[p].dirty /\ ~row'[p].staged
      /\ \A q \in Paths : q # p => row'[q] = row[q]
      /\ OnlyNode(n, p) /\ ~node'[n].staged
      /\ OnlyHandle(h)
      /\ hnd'[h].pc = "open" /\ hnd'[h].node = n /\ hnd'[h].ino = i /\ ~hnd'[h].dirty
  BY CreateEffect
<1>2. /\ UNCHANGED <<obj, head, rm, acked, daemonVars>>
      /\ link' = [link EXCEPT ![p] = i] /\ data' = [data EXCEPT ![i] = Empty]
      /\ ~InUse(n) /\ hnd[h].pc = "closed"
      /\ IF link[p] # None THEN i = link[p] ELSE FreeInode(i)
  BY DEF Create
<1>3. row[p] = None /\ link[p] = None /\ acked[p] = None
  BY DEF RowInv
<1>4. FreeInode(i) /\ i # ino /\ i # None
  BY <1>2, <1>3, StorageAssumption DEF MayUse
<1>5. /\ link'[p] = i /\ \A q \in Paths : q # p => link'[q] = link[q]
      /\ phase'[p] = "created" /\ \A q \in Paths : q # p => phase'[q] = phase[q]
      /\ \A j \in Inodes : j # i => data'[j] = data[j]
  BY <1>2 DEF TypeInv, TypeOK, StorageTypeOK
<1>6. /\ \A o \in Handles : o # h => hnd'[o] = hnd[o]
      /\ \A o \in Handles : hnd[o].pc # "closed" =>
           Path(o)' = Path(o) /\ Path(o) # p /\ Path(o) \in Paths /\ o # h
      /\ Path(h)' = p
  <2>1. \A o \in Handles : hnd[o].pc # "closed" =>
          Path(o) \in Paths /\ hnd[o].node \in Nodes /\ node[hnd[o].node] # None /\ hnd[o].node # n
    BY <1>2, PathType DEF InUse
  <2>2. \A m \in Nodes : node[m] # None => node[m].path # p
    BY DEF NodeInv
  <2> QED BY <1>1, <1>2, <2>1, <2>2 DEF OnlyHandle, OnlyNode, Path
<1>7. \A q \in Paths : q # p => (Up(q)' <=> Up(q)) /\ (Dirty(q)' <=> Dirty(q))
  BY <1>1, <1>2 DEF Up, Uploaded, Dirty
<1>8. Up(p)' /\ ~Dirty(p)'
  BY <1>1, <1>2, <1>3 DEF Up, Dirty
<1>9. RowInv'
  BY <1>1, <1>2, <1>3, <1>5, <1>7, <1>8 DEF RowInv
<1>10. LinkInv'
  <2>1. \A o \in Handles : o # h => hnd'[o].ino # i
    BY <1>4, <1>6 DEF FreeInode
  <2>2. \A q \in Paths : q # p => link'[q] # i /\ (link'[q] # None => link'[q] \in Inodes)
    BY <1>4, <1>5 DEF FreeInode, TypeInv, TypeOK, StorageTypeOK
  <2>3. ASSUME NEW q \in Paths, q # p, link[q] # None
        PROVE  /\ \A x \in Paths : link'[x] = link'[q] => x = q
               /\ \A o \in Handles : hnd'[o].ino = link'[q] => Path(o)' = q
               /\ ino = link'[q] => cur.path = q
               /\ acked[q] # None => Covers(data'[link'[q]], acked[q])
    <3>1. \A x \in Paths : link'[x] = link'[q] => x = q
      BY <1>5, <2>2, <2>3 DEF LinkInv
    <3>2. \A o \in Handles : hnd'[o].ino = link'[q] => Path(o)' = q
      BY <1>1, <1>5, <1>6, <2>2, <2>3 DEF LinkInv, TypeInv, HandleShape
    <3> QED BY <1>5, <2>2, <2>3, <3>1, <3>2 DEF LinkInv
  <2>4. /\ \A x \in Paths : link'[x] = link'[p] => x = p
        /\ \A o \in Handles : hnd'[o].ino = link'[p] => Path(o)' = p
    BY <1>5, <1>6, <2>1, <2>2
  <2> QED BY <1>2, <1>3, <1>4, <1>5, <2>3, <2>4 DEF LinkInv, daemonVars
<1>11. NodeInv'
  <2>1. \A m \in Nodes : node[m] # None => node[m].path \in Paths /\ node[m].path # p
    BY DEF NodeInv, TypeInv, TypeOK, HandlesTypeOK, Node
  <2>2. head[n] = None
    BY <1>2 DEF InUse
  <2> QED BY <1>1, <1>2, <1>5, <2>1, <2>2 DEF NodeInv, OnlyNode
<1>12. HandleInv'
  <2>1. ASSUME NEW o \in Handles, o # h
        PROVE  /\ hnd[o].pc \notin {"fetch", "fetched"}
               /\ hnd[o].dirty => phase'[Path(o)'] = "created"
               /\ hnd[o].pc = "flush" => hnd[o].dirty /\ hnd[o].got = data'[hnd[o].ino]
               /\ hnd[o].ino # None /\ phase'[Path(o)'] = "created" => hnd[o].ino = link'[Path(o)']
               /\ hnd[o].pc = "release" /\ phase'[Path(o)'] = "flushed" => Path(o)' \in Paths /\ Path(o)' # p /\ Up(Path(o)')
    <3>1. hnd[o].dirty \/ hnd[o].ino # None => hnd[o].pc # "closed"
      BY DEF TypeInv, HandleShape
    <3>2. hnd[o].pc = "flush" => hnd[o].ino \in Inodes /\ hnd[o].ino # i
      BY <1>4 DEF FreeInode, TypeInv, TypeOK, HandlesTypeOK, HandleShape, Handle
    <3> QED BY <1>5, <1>6, <2>1, <3>1, <3>2 DEF HandleInv
  <2> QED BY <1>1, <1>5, <1>6, <1>7, <2>1 DEF HandleInv
<1>13. OwnerInv'
  <2>1. \A o \in Handles : o # h /\ Holding(o)' => Path(o)' # p /\ Path(o)' = Path(o) /\ Holding(o) /\ Path(o) \in Paths
    BY <1>6 DEF Holding, TypeInv, HandleShape
  <2> QED BY <1>5, <1>6, <2>1 DEF OwnerInv
<1>14. DaemonInv'
  <2>1. /\ \A e \in todo : e.path \in Paths /\ e.path # p
        /\ cur # None => cur.path \in Paths /\ cur.path # p
    BY EntryType DEF DaemonInv
  <2>2. \A o \in Handles : pc = "read" /\ hnd'[o].ino = ino => Path(o)' = cur.path
    BY <1>1, <1>4, <1>6 DEF DaemonInv, TypeInv, HandleShape, DaemonShape
  <2>3. pc = "read" => ino \in Inodes
    BY DEF TypeInv, TypeOK, DaemonTypeOK, DaemonShape
  <2> QED BY <1>2, <1>4, <1>5, <1>7, <2>1, <2>2, <2>3 DEF DaemonInv, daemonVars, TypeInv, DaemonShape
<1> QED BY <1>9, <1>10, <1>11, <1>12, <1>13, <1>14

-----------------------------------------------------------------------------
(* Remove and crashes: a promise may be withdrawn, the files stay.         *)

\* Promises are kept or withdrawn, on disk nothing moves.
Withdraws ==
  /\ UNCHANGED <<link, data, phase>>
  /\ \A p \in Paths : acked'[p] \in {acked[p], None}
  /\ \A p \in Paths : Up(p) => Up(p)'
  /\ \A p \in Paths :
       /\ row'[p] = row[p] \/ (row'[p] = None /\ p \in rm)
       /\ row'[p] = None \/ p \in rm' => acked'[p] = None

LEMMA RemoveStep ==
  ASSUME TypeInv, DurableInv, Withdraws, UNCHANGED <<node, head, hnd, daemonVars>>
  PROVE  DurableInv'
<1> USE DEF Withdraws, DurableInv
<1>1. \A p \in Paths : Dirty(p)' => Dirty(p)
  BY DEF Dirty
<1>2. RowInv'
  BY DEF RowInv
<1>3. LinkInv'
  BY DEF LinkInv, Path, daemonVars
<1>4. NodeInv' /\ OwnerInv'
  BY DEF NodeInv, OwnerInv, Holding, Path
<1>5. HandleInv'
  <2>1. \A h \in Handles : hnd[h].pc = "release" => Path(h) \in Paths /\ Path(h)' = Path(h)
    BY PathType DEF Path
  <2>2. \A h \in Handles : Path(h)' = Path(h)
    BY DEF Path
  <2> QED BY <2>1, <2>2 DEF HandleInv
<1>6. DaemonInv'
  <2>1. \A h \in Handles : Path(h)' = Path(h)
    BY DEF Path
  <2> QED BY <1>1, <2>1, EntryType DEF DaemonInv, daemonVars, TypeInv, DaemonShape
<1> QED BY <1>2, <1>3, <1>4, <1>5, <1>6

LEMMA RemoveObjectDurable ==
  ASSUME TypeInv, DurableInv, NEW p \in Paths, NEW ok \in BOOLEAN,
         RemoveObject(p, ok), UNCHANGED <<daemonVars, phase>>
  PROVE  DurableInv'
<1>1. /\ UNCHANGED <<row, link, data, node, head, hnd>>
      /\ acked' = [acked EXCEPT ![p] = None] /\ obj' = [obj EXCEPT ![p] = None]
      /\ rm' \subseteq rm \cup {p}
  BY DEF RemoveObject
<1>2. acked'[p] = None /\ \A q \in Paths : q # p => acked'[q] = acked[q] /\ obj'[q] = obj[q]
  BY <1>1 DEF TypeInv, TypeOK, StorageTypeOK, HandlesTypeOK
<1>3. \A q \in Paths : Up(q) => Up(q)'
  BY <1>2 DEF Up, Uploaded
<1>4. Withdraws
  BY <1>1, <1>2, <1>3 DEF Withdraws, DurableInv, RowInv
<1> QED BY <1>1, <1>4, RemoveStep

LEMMA RemoveRowDurable ==
  ASSUME TypeInv, DurableInv, NEW p \in Paths,
         RemoveRow(p), UNCHANGED <<daemonVars, phase>>
  PROVE  DurableInv'
<1>1. /\ UNCHANGED <<obj, link, data, node, head, hnd, acked>>
      /\ p \in rm /\ rm' = rm \ {p} /\ Store(p, None)
  BY DEF RemoveRow
<1>2. \A q \in Paths : row'[q] = row[q] \/ (row'[q] = None /\ q = p)
  <2>1. None \in Row \cup {None}
    OBVIOUS
  <2>2. StorageTypeOK
    BY DEF TypeInv, TypeOK
  <2> QED BY <1>1, <2>1, <2>2, StoreEffect
<1>3. \A q \in Paths : Up(q) => Up(q)'
  BY <1>1 DEF Up, Uploaded
<1>4. Withdraws
  BY <1>1, <1>2, <1>3 DEF Withdraws, DurableInv, RowInv
<1> QED BY <1>1, <1>4, RemoveStep

\* After a crash there is no node, no handle and no daemon step under way.
LEMMA CrashDurable ==
  ASSUME TypeInv, DurableInv, Crash
  PROVE  DurableInv'
<1> USE DEF DurableInv
<1>1. /\ UNCHANGED <<row, obj, link, data, acked, phase>> /\ rm' = {}
      /\ node' = [n \in Nodes |-> None] /\ hnd' = [h \in Handles |-> Closed]
      /\ pc' = "sleep" /\ todo' = {} /\ cur' = None /\ ino' = None
  BY DEF Crash, storageVars
<1>2. \A p \in Paths : (Up(p)' <=> Up(p))
  BY <1>1 DEF Up, Uploaded
<1>3. RowInv'
  BY <1>1, <1>2 DEF RowInv
<1>4. LinkInv' /\ NodeInv' /\ HandleInv' /\ OwnerInv'
  BY <1>1, ClosedType DEF LinkInv, NodeInv, HandleInv, OwnerInv, Holding
<1>5. DaemonInv'
  BY <1>1 DEF DaemonInv
<1> QED BY <1>3, <1>4, <1>5

-----------------------------------------------------------------------------
(* The daemon.                                                             *)

\* Steps of the daemon that change nothing but its own variables.
LEMMA DaemonReads ==
  ASSUME TypeInv, DurableInv, UNCHANGED <<storageVars, handleVars, phase>>, DaemonInv',
         \A p \in Paths : ino' # None /\ ino' = link[p] => cur'.path = p
  PROVE  DurableInv'
<1> USE DEF DurableInv
<1>1. \A p \in Paths : (Up(p)' <=> Up(p))
  BY DEF Up, Uploaded, storageVars, handleVars
<1>2. \A h \in Handles : Path(h)' = Path(h)
  BY DEF Path, handleVars
<1>3. RowInv'
  BY <1>1 DEF RowInv, storageVars, handleVars
<1>4. LinkInv'
  BY <1>2 DEF LinkInv, storageVars, handleVars
<1>5. NodeInv' /\ OwnerInv'
  BY <1>2 DEF NodeInv, OwnerInv, Holding, storageVars, handleVars
<1>6. HandleInv'
  BY <1>1, <1>2, PathType DEF HandleInv, storageVars, handleVars
<1> QED BY <1>3, <1>4, <1>5, <1>6

\* Steps of the daemon that change a row or an object, and no file: what was
\* in the bucket stays covered, a row loses flags only if it is uploaded.
LEMMA DaemonWrites ==
  ASSUME TypeInv, DurableInv, UNCHANGED <<link, data, wid, handleVars, phase>>, DaemonInv',
         ino' = None,
         \A p \in Paths : Up(p) => Up(p)',
         \A p \in Paths :
           /\ (row'[p] = None) = (row[p] = None)
           /\ row[p] # None =>
                \/ row'[p].dirty = row[p].dirty /\ row'[p].staged = row[p].staged
                \/ ~row'[p].dirty /\ Up(p) /\ phase[p] = "flushed"
  PROVE  DurableInv'
<1> USE DEF DurableInv
<1>1. \A h \in Handles : Path(h)' = Path(h)
  BY DEF Path, handleVars
<1>2. RowInv'
  BY DEF RowInv, handleVars
<1>3. LinkInv'
  BY <1>1 DEF LinkInv, handleVars
<1>4. NodeInv' /\ OwnerInv'
  BY <1>1 DEF NodeInv, OwnerInv, Holding, handleVars
<1>5. HandleInv'
  BY <1>1, PathType DEF HandleInv, handleVars
<1> QED BY <1>2, <1>3, <1>4, <1>5

LEMMA DaemonDurable ==
  ASSUME TypeInv, DurableInv, WriteOnce, DaemonNext, UNCHANGED <<handleVars, phase>>
  PROVE  DurableInv'
<1> USE DEF DurableInv
<1>1. \A p \in Paths : row[p] # None /\ (row[p].dirty \/ row[p].staged) => phase[p] = "flushed"
  BY RowNode DEF RowInv, TypeInv, TypeOK
<1>2. UNCHANGED <<acked, phase>> /\ DBFaults = FALSE
  BY DEF handleVars, WriteOnce
<1>3. UNCHANGED <<obj, row>> => \A p \in Paths : (Up(p)' <=> Up(p)) /\ (Dirty(p)' <=> Dirty(p))
  BY <1>2 DEF Up, Uploaded, Dirty
<1>4. \A h \in Handles : Path(h)' = Path(h) /\ hnd'[h] = hnd[h]
  BY DEF Path, handleVars
<1>5. CASE ListDirty
  <2>1. /\ UNCHANGED <<storageVars, cur, ino, buf>> /\ pc = "sleep" /\ pc' = "upload"
        /\ todo' = {Listed(p) : p \in {q \in Paths : row[q] # None /\ row[q].dirty /\ row[q].idle}}
    BY <1>2, <1>5 DEF ListDirty
  <2>2. ASSUME NEW e \in todo' PROVE phase[e.path] = "flushed" /\ e.staged
    <3>1. PICK p \in Paths : row[p] # None /\ row[p].dirty /\ e = Listed(p)
      BY <2>1
    <3> QED BY <1>1, <3>1, ListedType DEF RowInv, TypeInv, TypeOK
  <2>3. DaemonInv'
    BY <1>2, <2>1, <2>2 DEF DaemonInv
  <2> QED BY <2>1, <2>3, DaemonReads DEF LinkInv
<1>6. CASE ListClean
  <2>1. /\ UNCHANGED <<storageVars, cur, ino, buf>> /\ pc = "upload" /\ pc' = "evict"
        /\ todo' = {Listed(p) : p \in {q \in Paths : row[q] # None /\ ~row[q].dirty /\ row[q].staged}}
    BY <1>2, <1>6 DEF ListClean
  <2>2. ASSUME NEW e \in todo'
        PROVE  phase[e.path] = "flushed" /\ e.staged /\ Up(e.path)' /\ ~Dirty(e.path)'
    <3>1. PICK p \in Paths : row[p] # None /\ ~row[p].dirty /\ row[p].staged /\ e = Listed(p)
      BY <2>1
    <3>2. e.path = p /\ e.staged
      BY <3>1, ListedType DEF TypeInv, TypeOK
    <3>3. Up(p)' /\ ~Dirty(p)'
      BY <1>3, <2>1, <3>1 DEF RowInv, Dirty, storageVars
    <3> QED BY <1>1, <3>1, <3>2, <3>3
  <2>3. DaemonInv'
    BY <1>2, <2>1, <2>2 DEF DaemonInv
  <2> QED BY <2>1, <2>3, DaemonReads DEF LinkInv
<1>7. ASSUME NEW e \in todo, OpenStaging(e)
      PROVE  DurableInv'
  <2>1. /\ UNCHANGED <<storageVars, buf>> /\ cur' = e /\ todo' = todo \ {e} /\ pc = "upload"
        /\ IF e.staged /\ link[e.path] # None
             THEN pc' = "read" /\ ino' = link[e.path] ELSE pc' = "unmark" /\ ino' = None
    BY <1>7 DEF OpenStaging
  <2>2. e.path \in Paths /\ phase[e.path] = "flushed" /\ e.staged
    BY EntryType DEF DaemonInv
  <2>3. CASE link[e.path] # None
    <3>1. pc' = "read" /\ ino' = link[e.path]
      BY <2>1, <2>2, <2>3
    <3>2. DaemonInv'
      BY <1>2, <1>4, <2>1, <2>2, <2>3, <3>1 DEF DaemonInv, LinkInv, storageVars
    <3>3. \A p \in Paths : ino' # None /\ ino' = link[p] => cur'.path = p
      BY <2>1, <2>2, <2>3, <3>1 DEF LinkInv
    <3> QED BY <2>1, <3>2, <3>3, DaemonReads
  <2>4. CASE link[e.path] = None
    <3>1. pc' = "unmark" /\ ino' = None
      BY <2>1, <2>4
    <3>2. Up(e.path)'
      BY <1>3, <2>1, <2>2, <2>4 DEF RowInv, storageVars
    <3>3. DaemonInv'
      BY <1>2, <2>1, <2>2, <3>1, <3>2 DEF DaemonInv
    <3> QED BY <2>1, <3>1, <3>3, DaemonReads
  <2> QED BY <2>3, <2>4
<1>8. CASE UploadRead
  <2>1. /\ UNCHANGED <<storageVars, todo, cur>> /\ pc = "read" /\ pc' = "put"
        /\ buf' = data[ino] /\ ino' = None
    BY <1>8 DEF UploadRead
  <2>2. DaemonInv'
    BY <1>2, <2>1 DEF DaemonInv
  <2> QED BY <2>1, <2>2, DaemonReads
<1>9. CASE PutOk \/ PutFail
  <2>1. /\ UNCHANGED <<row, link, data, wid, todo>> /\ pc = "put"
        /\ obj' = [obj EXCEPT ![cur.path] = buf] \/ UNCHANGED obj
    BY <1>9 DEF PutOk, PutFail, Proceed
  <2>2. cur # None /\ cur.path \in Paths /\ buf # None /\ ino = None
    BY <2>1, EntryType DEF TypeInv, DaemonShape
  <2>3. \A p \in Paths : Up(p) => Up(p)'
    BY <1>2, <2>1, <2>2 DEF Up, Uploaded, DaemonInv, TypeInv, TypeOK, StorageTypeOK
  <2>4. ino' = None /\ DaemonInv'
    <3>1. CASE PutOk
      <4>1. UNCHANGED <<cur, ino, buf>> /\ pc' = "mark" /\ obj' = [obj EXCEPT ![cur.path] = buf]
        BY <3>1 DEF PutOk
      <4>2. Up(cur.path)'
        BY <1>2, <2>1, <2>2, <4>1 DEF Up, Uploaded, DaemonInv, TypeInv, TypeOK, StorageTypeOK
      <4> QED BY <1>2, <2>1, <2>2, <4>1, <4>2 DEF DaemonInv
    <3>2. CASE PutFail
      BY <1>2, <2>1, <3>2 DEF PutFail, Proceed, DaemonInv
    <3> QED BY <1>9, <3>1, <3>2
  <2> QED BY <2>1, <2>3, <2>4, DaemonWrites
<1>10. CASE Mark \/ Unmark
  <2>1. /\ UNCHANGED <<obj, link, data, wid, todo>> /\ pc \in {"mark", "unmark"}
        /\ pc' = "upload" /\ cur' = None /\ ino' = None
    BY <1>10 DEF Mark, Unmark, Proceed
  <2>2. cur # None /\ Up(cur.path) /\ phase[cur.path] = "flushed"
    BY <2>1 DEF DaemonInv, TypeInv, DaemonShape
  <2>3. \A p \in Paths : Up(p) => Up(p)'
    BY <1>2, <2>1 DEF Up, Uploaded
  <2>4. DaemonInv'
    BY <1>2, <2>1 DEF DaemonInv
  <2>5. \A p \in Paths :
          /\ (row'[p] = None) = (row[p] = None)
          /\ row[p] # None =>
               \/ row'[p].dirty = row[p].dirty /\ row'[p].staged = row[p].staged
               \/ ~row'[p].dirty /\ Up(p) /\ phase[p] = "flushed"
    BY <1>2, <1>10, <2>2, MarkEffect
  <2> QED BY <2>1, <2>3, <2>4, <2>5, DaemonWrites
<1>11. ASSUME NEW e \in todo, Inspect(e)
       PROVE  DurableInv'
  <2>1. /\ UNCHANGED <<storageVars, ino, buf>> /\ todo' = todo \ {e} /\ pc = "evict"
        /\ \/ pc' \in {"clear", "remove"} /\ cur' = e
           \/ UNCHANGED <<pc, cur>>
    BY <1>11 DEF Inspect
  <2>2. e.path \in Paths /\ phase[e.path] = "flushed" /\ Up(e.path) /\ ~Dirty(e.path) /\ ino = None
    BY <2>1, EntryType DEF DaemonInv, TypeInv, DaemonShape
  <2>3. \A p \in Paths : (Up(p)' <=> Up(p)) /\ (Dirty(p)' <=> Dirty(p))
    BY <1>3, <2>1 DEF storageVars
  <2>4. DaemonInv'
    BY <1>2, <2>1, <2>2, <2>3, EntryType DEF DaemonInv
  <2> QED BY <2>1, <2>2, <2>4, DaemonReads
<1>12. CASE RemoveStaging
  <2>1. /\ UNCHANGED <<row, obj, data, wid, todo, cur, ino, buf>> /\ pc = "remove" /\ pc' = "clear"
        /\ link' = [link EXCEPT ![cur.path] = None]
    BY <1>12 DEF RemoveStaging
  <2>2. cur # None /\ cur.path \in Paths /\ Up(cur.path) /\ ~Dirty(cur.path)
        /\ phase[cur.path] = "flushed" /\ ino = None
    BY <2>1, EntryType DEF DaemonInv, TypeInv, DaemonShape
  <2>3. \A p \in Paths : (Up(p)' <=> Up(p)) /\ (Dirty(p)' <=> Dirty(p))
    BY <1>3, <2>1
  <2>4. link'[cur.path] = None /\ \A p \in Paths : p # cur.path => link'[p] = link[p]
    BY <2>1, <2>2 DEF TypeInv, TypeOK, StorageTypeOK
  <2>5. RowInv'
    BY <1>2, <2>1, <2>2, <2>3, <2>4 DEF RowInv, handleVars
  <2>6. LinkInv'
    BY <1>2, <1>4, <2>1, <2>2, <2>4 DEF LinkInv
  <2>7. NodeInv' /\ OwnerInv'
    BY <1>2, <1>4 DEF NodeInv, OwnerInv, Holding, handleVars
  <2>8. HandleInv'
    <3>1. \A h \in Handles : hnd[h].pc # "closed" => Path(h) \in Paths
      BY PathType
    <3>2. \A h \in Handles : hnd[h].ino # None => hnd[h].pc # "closed"
      BY DEF TypeInv, HandleShape
    <3> QED BY <1>2, <1>4, <2>1, <2>2, <2>3, <2>4, <3>1, <3>2 DEF HandleInv
  <2>9. DaemonInv'
    BY <1>2, <2>1, <2>2, <2>3, EntryType DEF DaemonInv
  <2> QED BY <2>5, <2>6, <2>7, <2>8, <2>9
<1>13. CASE ClearStaging
  <2>1. /\ UNCHANGED <<obj, link, data, wid, todo>> /\ pc = "clear"
        /\ pc' = "evict" /\ cur' = None /\ ino' = None
    BY <1>13 DEF ClearStaging, Proceed
  <2>2. cur # None /\ cur.path \in Paths /\ Up(cur.path) /\ ~Dirty(cur.path)
        /\ phase[cur.path] = "flushed"
    BY <2>1, EntryType DEF DaemonInv, TypeInv, DaemonShape
  <2>3. /\ \A q \in Paths : q # cur.path => row'[q] = row[q]
        /\ (row'[cur.path] = None) = (row[cur.path] = None)
        /\ row[cur.path] # None => row'[cur.path].dirty = row[cur.path].dirty
    BY <1>13, ClearStagingEffect
  <2>4. \A p \in Paths : (Up(p) <=> Up(p)') /\ (Dirty(p) <=> Dirty(p)')
    BY <1>2, <2>1, <2>3 DEF Up, Uploaded, Dirty
  <2>5. \A e \in todo : phase[e.path] = "flushed" /\ e.staged /\ Up(e.path) /\ ~Dirty(e.path)
    BY <2>1 DEF DaemonInv
  <2>6. DaemonInv'
    BY <1>2, <2>1, <2>4, <2>5, EntryType DEF DaemonInv
  <2>7. \A p \in Paths :
          /\ (row'[p] = None) = (row[p] = None)
          /\ row[p] # None =>
               \/ row'[p].dirty = row[p].dirty /\ row'[p].staged = row[p].staged
               \/ ~row'[p].dirty /\ Up(p) /\ phase[p] = "flushed"
    <3>1. row[cur.path] # None => ~row'[cur.path].dirty
      BY <2>2, <2>3 DEF Dirty, TypeInv, TypeOK, StorageTypeOK, Row
    <3> QED BY <2>2, <2>3, <3>1
  <2> QED BY <2>1, <2>4, <2>6, <2>7, DaemonWrites
<1>14. CASE SweepDone
  <2>1. UNCHANGED <<storageVars, todo, cur, ino, buf>> /\ pc' = "sleep"
    BY <1>14 DEF SweepDone
  <2>2. DaemonInv'
    BY <1>2, <2>1 DEF DaemonInv
  <2> QED BY <2>1, <2>2, DaemonReads DEF LinkInv
<1> QED BY <1>5, <1>6, <1>7, <1>8, <1>9, <1>10, <1>11, <1>12, <1>13, <1>14 DEF DaemonNext

-----------------------------------------------------------------------------
LEMMA DurableInit == Init => DurableInv
<1> SUFFICES ASSUME Init PROVE DurableInv
  OBVIOUS
<1>1. PICK synced \in SUBSET Paths :
        /\ StorageInit(synced) /\ HandlesInit(synced)
        /\ phase = [p \in Paths |-> IF p \in synced THEN "flushed" ELSE "new"]
  BY DEF Init
<1>2. SyncedContent \in Content /\ SyncedContent # None /\ SyncedRow # None
  <2>1. SyncedRow \in Row /\ SyncedContent \in Content
    BY StorageAssumption DEF SyncedRow, SyncedContent, Row, Content, Sizes, Versions
  <2> QED BY <2>1, StorageAssumption
<1>3. \A p \in Paths : Up(p)
  BY <1>1, <1>2, CoversItself DEF Up, Uploaded, StorageInit, HandlesInit
<1>4. RowInv
  BY <1>1, <1>2, <1>3 DEF RowInv, StorageInit, HandlesInit, SyncedRow
<1>5. LinkInv /\ NodeInv
  BY <1>1 DEF LinkInv, NodeInv, StorageInit, HandlesInit
<1>6. HandleInv /\ OwnerInv
  BY <1>1, ClosedType DEF HandleInv, OwnerInv, Holding, HandlesInit
<1>7. DaemonInv
  BY DEF Init, DaemonInit, DaemonInv
<1> QED BY <1>4, <1>5, <1>6, <1>7 DEF DurableInv

LEMMA WriterDurable ==
  ASSUME TypeInv, DurableInv, WriteOnce, Writer, UNCHANGED daemonVars
  PROVE  DurableInv'
<1>1. "rewrite" \notin Ops /\ "resize" \notin Ops
  BY DEF WriteOnce
<1>2. ASSUME NEW h \in Handles, NEW k \in Sizes, FetchCopy(h, k)
      PROVE  FALSE
  BY <1>2 DEF FetchCopy, DurableInv, HandleInv
<1>3. \/ \E p \in Paths, n \in Nodes, h \in Handles, i \in Inodes :
           /\ Create(p, n, h, i) /\ MayUse(p, i)
           /\ phase[p] = "new" /\ phase' = [phase EXCEPT ![p] = "created"]
      \/ \E h \in Handles, b \in Blocks :
           Write(h, b) /\ phase[Path(h)] # "flushed" /\ UNCHANGED phase
      \/ \E h \in Handles :
           FlushCommit(h) /\ phase' = [phase EXCEPT ![Path(h)] = "flushed"]
  BY <1>1, <1>2 DEF Writer
<1> QED BY <1>3, CreateDurable, WriteDurable, FlushCommitDurable

LEMMA ClientDurable ==
  ASSUME TypeInv, DurableInv, WriteOnce, Client, UNCHANGED <<daemonVars, phase>>
  PROVE  DurableInv'
BY LookupDurable, AttrReadDurable, AttrHeadDurable, AttrPersistDurable, AttrStoreDurable,
   SetattrMtimeDurable,
   OpenRemoteDurable, OpenStagedDurable, FlushBeginDurable, ReleaseCheckDurable,
   ReleaseRemoveDurable, PersistSizeDurable, RemoveObjectDurable, RemoveRowDurable
   DEF Client

LEMMA DurableStep ==
  ASSUME TypeInv, DurableInv, WriteOnce, [Next]_vars
  PROVE  DurableInv'
<1>1. CASE Requests
  BY <1>1, WriterDurable, ClientDurable DEF Requests
<1>2. CASE WriteBackStep
  BY <1>2, DaemonDurable DEF WriteBackStep
<1>3. CASE Clock
  BY <1>3, AgeDurable DEF Clock
<1>4. CASE Crash
  BY <1>4, CrashDurable
<1>5. CASE UNCHANGED vars
  <2>1. NodeInv' /\ UNCHANGED <<phase, daemonVars>>
    BY <1>5 DEF vars, handleVars, DurableInv, NodeInv
  <2>2. Quiet
    BY <1>5, QuietEffect
  <2> QED BY <2>1, <2>2, QuietStep
<1> QED BY <1>1, <1>2, <1>3, <1>4, <1>5 DEF Next

\* When every file is written once and the database works, every close that
\* succeeded is honoured, for any number of files, handles and crashes: what
\* it promised is in the bucket, or in a staging file that a dirty row names.
THEOREM DurableOnce == ASSUME WriteOnce PROVE Spec => []Durable
<1>1. Init => TypeInv /\ DurableInv
  BY TypeInit, DurableInit
<1>2. (TypeInv /\ DurableInv) /\ [Next]_vars => (TypeInv /\ DurableInv)'
  BY TypeStep, DurableStep, WriteOnce
<1>3. TypeInv /\ DurableInv => Durable
  BY InvDurable
<1> QED BY <1>1, <1>2, <1>3, PTL DEF Spec

-----------------------------------------------------------------------------
(* The refinement of Promises: acked is what was promised, obj what is     *)
(* stored.  Only a close, a removal and an upload are seen there.          *)

LEMMA PromiseInit == Init => Share!Init
<1>1. SyncedContent \in Content
  BY StorageAssumption DEF SyncedContent, Content, Sizes, Versions
<1> QED
  BY <1>1 DEF Init, StorageInit, HandlesInit, Share!Init

Unseen == UNCHANGED <<acked, obj>>

LEMMA WriterPromises ==
  ASSUME TypeInv, DurableInv, WriteOnce, Writer
  PROVE  [Share!Next]_(Share!vars)
<1>1. ASSUME NEW h \in Handles, FlushCommit(h)
      PROVE  \E p \in Paths : Share!Remove(p) \/ \E c \in Content : Share!Close(p, c)
  <2>1. hnd[h].pc = "flush" /\ Path(h) \in Paths
    BY <1>1, PathType DEF FlushCommit
  <2>2. hnd[h].got \in Content
    BY <2>1 DEF TypeInv, TypeOK, HandlesTypeOK, StorageTypeOK, HandleShape, DurableInv, HandleInv, Handle
  <2>3. UNCHANGED obj /\ \E a \in {None, hnd[h].got} : acked' = [acked EXCEPT ![Path(h)] = a]
    BY <1>1 DEF FlushCommit
  <2> QED
    BY <2>1, <2>2, <2>3 DEF Share!Remove, Share!Close
<1>2. CASE \E h \in Handles : FlushCommit(h)
  BY <1>1, <1>2 DEF Share!Next
<1>3. CASE ~\E h \in Handles : FlushCommit(h)
  <2>1. "rewrite" \notin Ops /\ "resize" \notin Ops
    BY DEF WriteOnce
  <2>2. Unseen
    BY <1>3, <2>1 DEF Writer, Create, FetchCopy, Write, Unseen
  <2> QED
    BY <2>2 DEF Unseen, Share!vars
<1> QED
  BY <1>2, <1>3

LEMMA ClientPromises ==
  ASSUME Client
  PROVE  [Share!Next]_(Share!vars)
<1>1. CASE \E p \in Paths, ok \in BOOLEAN : RemoveObject(p, ok)
  BY <1>1 DEF RemoveObject, Share!Next, Share!Remove
<1>2. CASE ~\E p \in Paths, ok \in BOOLEAN : RemoveObject(p, ok)
  <2>1. Unseen
    BY <1>2 DEF Client, Lookup, AttrRead, AttrHead, AttrPersist, AttrStore, SetattrMtime, OpenRemote, OpenStaged,
       FlushBegin, ReleaseCheck, ReleaseRemove, PersistSize, RemoveRow, Unseen, storageVars
  <2> QED
    BY <2>1 DEF Unseen, Share!vars
<1> QED
  BY <1>1, <1>2

LEMMA DaemonPromises ==
  ASSUME TypeInv, DurableInv, DaemonNext, UNCHANGED handleVars
  PROVE  [Share!Next]_(Share!vars)
<1>1. CASE obj' = [obj EXCEPT ![cur.path] = buf] /\ pc = "put"
  <2>1. cur.path \in Paths /\ buf \in Content
    BY <1>1, EntryType DEF TypeInv, TypeOK, DaemonTypeOK, DaemonShape
  <2>2. acked[cur.path] # None => Covers(buf, acked[cur.path])
    BY <1>1 DEF DurableInv, DaemonInv
  <2>3. Share!Store(cur.path, buf)
    BY <1>1, <2>2 DEF Share!Store, handleVars
  <2> QED
    BY <2>1, <2>3 DEF Share!Next
<1>2. CASE UNCHANGED obj
  BY <1>2 DEF handleVars, Share!vars
<1> QED
  BY <1>1, <1>2 DEF DaemonNext, ListDirty, OpenStaging, UploadRead, PutOk, PutFail, Mark, Unmark,
     ListClean, Inspect, RemoveStaging, ClearStaging, SweepDone, storageVars

LEMMA PromiseStep ==
  ASSUME TypeInv, DurableInv, WriteOnce, [Next]_vars
  PROVE  [Share!Next]_(Share!vars)
<1>1. CASE Requests
  BY <1>1, WriterPromises, ClientPromises DEF Requests
<1>2. CASE WriteBackStep
  BY <1>2, DaemonPromises DEF WriteBackStep
<1>3. CASE Clock \/ Crash \/ UNCHANGED vars
  BY <1>3 DEF Clock, Age, Crash, vars, handleVars, storageVars, Share!vars
<1> QED
  BY <1>1, <1>2, <1>3 DEF Next

\* When every file is written once and the database works, the write-back cache
\* implements Promises: from a close until the removal of the file the bucket
\* takes nothing less than what was promised.
THEOREM KeepsPromisesOnce == ASSUME WriteOnce PROVE Spec => KeepsPromises
<1>1. Init => TypeInv /\ DurableInv /\ Share!Init
  BY TypeInit, DurableInit, PromiseInit
<1>2. (TypeInv /\ DurableInv) /\ [Next]_vars => (TypeInv /\ DurableInv)'
  BY TypeStep, DurableStep, WriteOnce
<1>3. (TypeInv /\ DurableInv) /\ [Next]_vars => [Share!Next]_(Share!vars)
  BY PromiseStep, WriteOnce
<1> QED BY <1>1, <1>2, <1>3, PTL DEF Spec, KeepsPromises, Share!Spec

-----------------------------------------------------------------------------
(* Fresh reads: where a handle reads from, when it was opened after a      *)
(* close.  Here a path is flushed once, so nodes and handles that know of  *)
(* a close know of the last one; a node that knows of one and of no        *)
(* staging file has read a row that was clean.                             *)

\* Nothing is in the bucket before the first flush.
StoredInv == \A p \in Paths : phase[p] # "flushed" => obj[p] = None

\* An entry e of p that knows of a close.
Knows(p, e) ==
  e.seen # None =>
    /\ phase[p] = "flushed"
    /\ acked[p] # None => e.seen = acked[p]
    /\ ~e.staged => Up(p)

SeenInv ==
  \A n \in Nodes : node[n] # None =>
    /\ Knows(node[n].path, node[n])
    /\ head[n] # None => Knows(node[n].path, head[n].entry)

\* A handle that holds an inode, linked or not, has what was promised.
ReadInv ==
  \A h \in Handles : hnd[h].pc # "closed" =>
    /\ hnd[h].seen # None =>
         /\ phase[Path(h)] = "flushed"
         /\ acked[Path(h)] # None => hnd[h].seen = acked[Path(h)]
         /\ hnd[h].pc = "open" /\ hnd[h].ino = None => Up(Path(h))
    /\ hnd[h].ino # None /\ acked[Path(h)] # None => Covers(data[hnd[h].ino], acked[Path(h)])

FreshInv == StoredInv /\ SeenInv /\ ReadInv

LEMMA InvFresh == ASSUME TypeInv, DurableInv, FreshInv PROVE FreshUnlessPutBack
<1> SUFFICES ASSUME NEW h \in Handles, Expects(h), ~PutBack(h)
             PROVE  Covers(ReadSource(h), hnd[h].seen)
  BY DEF FreshUnlessPutBack
<1> DEFINE n == hnd[h].node
           p == Path(h)
<1>1. p \in Paths /\ n \in Nodes /\ node[n] # None /\ node[n].path = p
  BY PathType DEF Path, Expects
<1>2. /\ hnd[h].seen = acked[p] /\ acked[p] # None /\ node[n].seen # None
      /\ hnd[h].ino = None => Up(p)
      /\ hnd[h].ino # None => Covers(data[hnd[h].ino], acked[p])
  BY DEF FreshInv, ReadInv, Expects, PutBack
<1>3. ~node[n].staged => Up(p)
  BY <1>1, <1>2 DEF FreshInv, SeenInv, Knows
<1> QED BY <1>2, <1>3 DEF ReadSource, Up, Uploaded

\* A flushed path stays flushed, and what is in the bucket stays covered.
LEMMA PathsLast ==
  ASSUME TypeInv, DurableInv, StoredInv, WriteOnce, [Next]_vars, NEW p \in Paths
  PROVE  /\ phase[p] = "flushed" =>
              phase'[p] = "flushed" /\ acked'[p] \in {acked[p], None} /\ (Up(p) => Up(p)')
         /\ phase'[p] # "flushed" => obj'[p] = None
<1> USE DEF StoredInv, Up, Uploaded
<1>1. CASE UNCHANGED <<obj, acked, phase>>
  BY <1>1
<1>2. ASSUME NEW q \in Paths, NEW n \in Nodes, NEW h \in Handles, NEW i \in Inodes,
             Create(q, n, h, i), phase[q] = "new", phase' = [phase EXCEPT ![q] = "created"]
      PROVE  p # q => phase'[p] = phase[p]
  BY <1>2 DEF TypeInv, TypeOK
<1>3. ASSUME NEW h \in Handles, FlushCommit(h), phase' = [phase EXCEPT ![Path(h)] = "flushed"]
      PROVE  /\ phase'[p] = IF p = Path(h) THEN "flushed" ELSE phase[p]
             /\ UNCHANGED obj /\ (p # Path(h) => acked'[p] = acked[p])
             /\ phase[Path(h)] = "created"
  <2>1. UNCHANGED obj /\ hnd[h].dirty
    BY <1>3 DEF FlushCommit, DurableInv, HandleInv
  <2>2. phase[Path(h)] = "created"
    BY <2>1 DEF DurableInv, HandleInv
  <2> QED BY <1>3, <2>1, <2>2, FlushCommitEffect DEF TypeInv, TypeOK
<1>4. ASSUME Writer PROVE \/ UNCHANGED <<obj, acked, phase>>
                          \/ \E h \in Handles : FlushCommit(h) /\ phase' = [phase EXCEPT ![Path(h)] = "flushed"]
                          \/ UNCHANGED <<obj, acked>> /\ \E q \in Paths :
                               phase[q] = "new" /\ phase' = [phase EXCEPT ![q] = "created"]
  BY <1>4, WriteOnce DEF WriteOnce, Writer, Create, FetchCopy, Write
<1>5. CASE UNCHANGED <<obj, acked>> /\ \E q \in Paths :
             phase[q] = "new" /\ phase' = [phase EXCEPT ![q] = "created"]
  BY <1>5 DEF TypeInv, TypeOK
<1>6. CASE Writer
  BY <1>1, <1>3, <1>4, <1>5, <1>6
<1>7. ASSUME NEW q \in Paths, NEW ok \in BOOLEAN, RemoveObject(q, ok), UNCHANGED phase
      PROVE  /\ UNCHANGED phase
             /\ obj'[p] = IF p = q THEN None ELSE obj[p]
             /\ acked'[p] = IF p = q THEN None ELSE acked[p]
  BY <1>7 DEF RemoveObject, TypeInv, TypeOK, StorageTypeOK, HandlesTypeOK
<1>8. CASE Client /\ UNCHANGED phase
  BY <1>1, <1>7, <1>8 DEF Client, Lookup, AttrRead, AttrHead, AttrPersist, AttrStore, SetattrMtime, OpenRemote,
     OpenStaged, FlushBegin, ReleaseCheck, ReleaseRemove, PersistSize, RemoveRow, storageVars
<1>9. CASE WriteBackStep
  <2>1. UNCHANGED <<acked, phase>>
    BY <1>9 DEF WriteBackStep, handleVars
  <2>2. UNCHANGED obj \/ (pc = "put" /\ obj' = [obj EXCEPT ![cur.path] = buf])
    BY <1>9 DEF WriteBackStep, storageVars, DaemonNext, ListDirty, OpenStaging, UploadRead, PutOk,
       PutFail, Mark, Unmark, ListClean, Inspect, RemoveStaging, ClearStaging, SweepDone
  <2>3. CASE pc = "put" /\ obj' = [obj EXCEPT ![cur.path] = buf]
    <3>1. cur # None /\ phase[cur.path] = "flushed" /\ buf # None
          /\ (acked[cur.path] # None => Covers(buf, acked[cur.path]))
      BY <2>3 DEF TypeInv, DaemonShape, DurableInv, DaemonInv
    <3>2. obj'[p] = IF p = cur.path THEN buf ELSE obj[p]
      BY <2>3 DEF TypeInv, TypeOK, StorageTypeOK
    <3> QED BY <2>1, <3>1, <3>2
  <2> QED BY <1>1, <2>1, <2>2, <2>3
<1>10. CASE Clock \/ Crash \/ UNCHANGED vars
  BY <1>1, <1>10 DEF Clock, Age, Crash, vars, storageVars, handleVars
<1> QED BY <1>6, <1>8, <1>9, <1>10 DEF Next, Requests

\* A node keeps what it knows, takes what its Attr has read, or takes the row.
LEMMA NodeSteps ==
  ASSUME TypeInv, DurableInv, WriteOnce, [Next]_vars, NEW n \in Nodes, node'[n] # None
  PROVE  \/ /\ node[n] # None
            /\ node'[n].path = node[n].path /\ node'[n].seen = node[n].seen
            /\ node'[n].staged = node[n].staged
         \/ /\ head[n] # None /\ node'[n] = head[n].entry
            /\ node[n] # None /\ node'[n].path = node[n].path
         \/ \E p \in Paths :
              /\ row'[p] # None /\ node'[n].path = p
              /\ node'[n].seen = acked'[p] /\ node'[n].staged = row'[p].staged
              /\ InUse(n) => node[n] # None /\ node[n].path = p
<1> DEFINE Kept == /\ node[n] # None
                   /\ node'[n].path = node[n].path /\ node'[n].seen = node[n].seen
                   /\ node'[n].staged = node[n].staged
           Put == /\ head[n] # None /\ node'[n] = head[n].entry
                  /\ node[n] # None /\ node'[n].path = node[n].path
           Read == \E p \in Paths :
                     /\ row'[p] # None /\ node'[n].path = p
                     /\ node'[n].seen = acked'[p] /\ node'[n].staged = row'[p].staged
                     /\ InUse(n) => node[n] # None /\ node[n].path = p
<1>1. CASE node'[n] = node[n]
  BY <1>1
<1>2. \A m \in Nodes : node[m] # None => node[m] \in Node /\ node[m].path \in Paths
  BY DEF TypeInv, TypeOK, HandlesTypeOK, Node
<1>3. ASSUME NEW p \in Paths, NEW m \in Nodes, Lookup(p, m)
      PROVE  Kept \/ Read
  BY <1>1, <1>3 DEF Lookup, Snapshot, storageVars, TypeInv, TypeOK, HandlesTypeOK
<1>4. ASSUME NEW m \in Nodes, AttrStore(m)
      PROVE  Kept \/ Put
  <2>1. /\ OnlyNode(m, node[m].path) /\ node[m] # None
        /\ head[m] # None /\ node'[m] = head[m].entry
    BY <1>4, AttrStoreEffect
  <2> QED BY <1>1, <2>1 DEF OnlyNode
<1>7. ASSUME NEW p \in Paths, NEW m \in Nodes, NEW h \in Handles, NEW i \in Inodes, Create(p, m, h, i)
      PROVE  Kept \/ Read
  <2>1. /\ row'[p] # None /\ ~row'[p].staged /\ OnlyNode(m, p) /\ ~node'[m].staged
    BY <1>7, CreateEffect
  <2>2. /\ UNCHANGED acked /\ acked[p] = None /\ ~InUse(m)
    BY <1>7 DEF Create, DurableInv, RowInv
  <2>3. node'[m].seen = None
    BY <1>7 DEF Create, Snapshot, TypeInv, TypeOK, HandlesTypeOK
  <2>4. row'[p].staged = FALSE /\ node'[m].staged = FALSE
    BY <1>7, <2>1 DEF Create, Snapshot, UpdateEntry, NewEntry, TypeInv, TypeOK, StorageTypeOK, HandlesTypeOK
  <2> QED BY <1>1, <2>1, <2>2, <2>3, <2>4 DEF OnlyNode
<1>8. ASSUME NEW h \in Handles, NEW b \in Blocks, Write(h, b)
      PROVE  Kept
  <2> DEFINE m == hnd[h].node
  <2>1. OnlyNode(m, Path(h)) /\ node[m] # None /\ m \in Nodes /\ Path(h) = node[m].path
    BY <1>8, WriteEffect DEF TypeInv, HandleShape, Path
  <2>2. \E z : node' = [node EXCEPT ![m].size = z]
    BY <1>8 DEF Write
  <2>3. node'[m].seen = node[m].seen /\ node'[m].staged = node[m].staged
    BY <1>2, <2>1, <2>2 DEF TypeInv, TypeOK, HandlesTypeOK, Node
  <2> QED BY <1>1, <2>1, <2>3 DEF OnlyNode
<1>9. ASSUME NEW h \in Handles, FlushCommit(h)
      PROVE  Kept \/ Read
  <2> DEFINE m == hnd[h].node
  <2>1. OnlyNode(m, Path(h)) /\ node[m] # None
    BY <1>9, FlushCommitEffect
  <2>2. Path(h) \in Paths /\ node[m].path = Path(h) /\ m \in Nodes
    BY <1>9, PathType DEF FlushCommit, Path
  <2>3. node'[m] = Snapshot(Path(h), row'[Path(h)], acked'[Path(h)])
    BY <1>9, <2>2 DEF WriteOnce, FlushCommit, TypeInv, TypeOK, StorageTypeOK, HandlesTypeOK
  <2>4. row'[Path(h)] # None
    BY <1>9, FlushCommitEffect DEF WriteOnce
  <2> QED BY <1>1, <2>1, <2>2, <2>3, <2>4 DEF OnlyNode, Snapshot
<1>10. CASE UNCHANGED node
  BY <1>1, <1>10
<1>11. CASE Writer
  BY <1>7, <1>8, <1>9, <1>10, <1>11, WriteOnce DEF Writer, WriteOnce, FetchCopy
<1>12. CASE Client
  BY <1>3, <1>4, <1>10, <1>12 DEF Client, AttrRead, AttrHead, AttrPersist, SetattrMtime, OpenRemote, OpenStaged, FlushBegin,
     ReleaseCheck, ReleaseRemove, PersistSize, RemoveObject, RemoveRow
<1>13. CASE WriteBackStep \/ Clock \/ Crash \/ UNCHANGED vars
  BY <1>10, <1>13 DEF WriteBackStep, Clock, Age, Crash, vars, handleVars
<1> HIDE DEF Kept, Put, Read
<1> QED BY <1>11, <1>12, <1>13 DEF Next, Requests

\* What a node's Attr has read stays, but for the size, or is read from the row.
LEMMA HeadSteps ==
  ASSUME TypeInv, DurableInv, WriteOnce, [Next]_vars, NEW n \in Nodes, head'[n] # None
  PROVE  \/ /\ head[n] # None
            /\ head'[n].entry.path = head[n].entry.path
            /\ head'[n].entry.staged = head[n].entry.staged
            /\ head'[n].entry.seen = head[n].entry.seen
         \/ LET p == head'[n].entry.path IN
              /\ row'[p] # None /\ head'[n].entry.staged = row'[p].staged
              /\ head'[n].entry.seen = acked'[p]
<1> DEFINE Kept == /\ head[n] # None
                   /\ head'[n].entry.path = head[n].entry.path
                   /\ head'[n].entry.staged = head[n].entry.staged
                   /\ head'[n].entry.seen = head[n].entry.seen
           Read == LET p == head'[n].entry.path IN
                     /\ row'[p] # None /\ head'[n].entry.staged = row'[p].staged
                     /\ head'[n].entry.seen = acked'[p]
<1>1. CASE head'[n] = head[n]
  BY <1>1
<1>2. ASSUME NEW m \in Nodes, AttrRead(m)
      PROVE  Kept \/ Read
  <2>1. HeadIs(m, Snapshot(node[m].path, row[node[m].path], acked[node[m].path]))
        /\ row[node[m].path] # None
    BY <1>2, AttrReadEffect
  <2>2. UNCHANGED <<row, acked>>
    BY <1>2 DEF AttrRead, storageVars
  <2> QED BY <1>1, <2>1, <2>2 DEF HeadIs, OnlyHead, Snapshot
<1>3. ASSUME NEW m \in Nodes, AttrHead(m) \/ AttrPersist(m)
      PROVE  Kept
  BY <1>1, <1>3, AttrHeadEffect, AttrPersistEffect DEF OnlyHead
<1>4. ASSUME NEW m \in Nodes, AttrStore(m)
      PROVE  Kept
  BY <1>1, <1>4, AttrStoreEffect DEF OnlyHead
<1>5. ASSUME NEW m \in Nodes, NEW old \in BOOLEAN, SetattrMtime(m, old)
      PROVE  Kept \/ Read
  <2>1. /\ HeadIs(m, Snapshot(node[m].path, row'[node[m].path], acked[node[m].path]))
        /\ row[node[m].path] # None /\ SameFlags /\ node[m].path \in Paths
    BY <1>5, SetattrMtimeEffect
  <2>2. row'[node[m].path] # None /\ UNCHANGED acked
    BY <1>5, <2>1 DEF SetattrMtime, SameFlags
  <2> QED BY <1>1, <2>1, <2>2 DEF HeadIs, OnlyHead, Snapshot
<1>6. CASE UNCHANGED head
  BY <1>1, <1>6
<1>7. CASE Writer
  BY <1>6, <1>7 DEF Writer, WriteOnce, Create, FetchCopy, Write, FlushCommit
<1>8. CASE Client
  BY <1>2, <1>3, <1>4, <1>5, <1>6, <1>8 DEF Client, Lookup, OpenRemote, OpenStaged, FlushBegin,
     ReleaseCheck, ReleaseRemove, PersistSize, RemoveObject, RemoveRow
<1>9. CASE WriteBackStep \/ Clock \/ UNCHANGED vars
  BY <1>6, <1>9 DEF WriteBackStep, Clock, Age, vars, handleVars
<1>10. ~Crash
  BY DEF Crash
<1> HIDE DEF Kept, Read
<1> QED BY <1>7, <1>8, <1>9, <1>10 DEF Next, Requests, Kept, Read

\* Nobody writes to a file that a handle of a flushed path holds, and the flush
\* itself promises what its handle holds.
LEMMA DataLasts ==
  ASSUME TypeInv, DurableInv, WriteOnce, [Next]_vars, NEW h \in Handles,
         hnd[h].pc # "closed", hnd[h].ino # None, acked'[Path(h)] # None
  PROVE  \/ phase[Path(h)] = "flushed" /\ data'[hnd[h].ino] = data[hnd[h].ino]
         \/ data'[hnd[h].ino] = acked'[Path(h)]
<1>1. Path(h) \in Paths /\ hnd[h].ino \in Inodes
  BY PathType DEF TypeInv, TypeOK, HandlesTypeOK, Handle
<1>2. phase[Path(h)] # "flushed" => acked[Path(h)] = None
  BY <1>1 DEF DurableInv, RowInv
<1>3. ASSUME NEW o \in Handles, FlushCommit(o)
      PROVE  /\ UNCHANGED data
             /\ phase[Path(h)] # "flushed" => data[hnd[h].ino] = acked'[Path(h)]
  <2>1. /\ \A q \in Paths : q # Path(o) => acked'[q] = acked[q]
        /\ acked'[Path(o)] \in {None, hnd[o].got} /\ UNCHANGED data /\ hnd[o].ino # None
    BY <1>3, FlushCommitEffect DEF FlushCommit
  <2>2. hnd[o].got = data[hnd[o].ino] /\ phase[Path(o)] = "created"
    BY <1>3 DEF FlushCommit, DurableInv, HandleInv
  <2>3. Path(h) = Path(o) => h = o
    BY <2>1, <2>2 DEF DurableInv, OwnerInv, Holding
  <2> QED BY <1>1, <1>2, <2>1, <2>2, <2>3
<1>4. ASSUME NEW q \in Paths, NEW n \in Nodes, NEW o \in Handles, NEW i \in Inodes,
             Create(q, n, o, i), phase[q] = "new"
      PROVE  UNCHANGED acked /\ data'[hnd[h].ino] = data[hnd[h].ino]
  <2>1. i # hnd[h].ino
    BY <1>4 DEF Create, FreeInode, DurableInv, RowInv
  <2> QED BY <1>1, <1>4, <2>1 DEF Create, TypeInv, TypeOK, StorageTypeOK
<1>5. ASSUME NEW o \in Handles, NEW b \in Blocks, Write(o, b), phase[Path(o)] # "flushed"
      PROVE  /\ UNCHANGED acked
             /\ phase[Path(h)] = "flushed" => data'[hnd[h].ino] = data[hnd[h].ino]
  <2>1. hnd[o].ino # None /\ hnd[o].pc # "closed" /\ UNCHANGED acked
        /\ data' = [data EXCEPT ![hnd[o].ino] = WriteBlock(data[hnd[o].ino], b, wid + 1)]
    BY <1>5, WriteEffect DEF Write
  <2>2. Path(o) \in Paths /\ phase[Path(o)] = "created"
    <3>1. Path(o) \in Paths /\ hnd[o].node \in Nodes /\ node[hnd[o].node] # None
      BY <2>1, PathType
    <3> QED BY <1>5, <3>1 DEF TypeInv, TypeOK, DurableInv, NodeInv, Path
  <2>3. hnd[o].ino = link[Path(o)]
    BY <2>1, <2>2 DEF DurableInv, HandleInv
  <2>4. hnd[h].ino = hnd[o].ino => Path(h) = Path(o)
    BY <2>1, <2>2, <2>3 DEF DurableInv, LinkInv
  <2> QED BY <1>1, <2>1, <2>2, <2>4 DEF TypeInv, TypeOK, StorageTypeOK
<1>6. CASE Writer
  BY <1>2, <1>3, <1>4, <1>5, <1>6
     DEF Writer, WriteOnce, FetchCopy, DurableInv, HandleInv
<1>7. CASE UNCHANGED data /\ acked'[Path(h)] = acked[Path(h)]
  BY <1>1, <1>2, <1>7
<1>8. CASE Client
  <2>1. ASSUME NEW p \in Paths, NEW ok \in BOOLEAN, RemoveObject(p, ok)
        PROVE  UNCHANGED data /\ (acked'[Path(h)] # None => acked'[Path(h)] = acked[Path(h)])
    BY <1>1, <2>1 DEF RemoveObject, TypeInv, TypeOK, HandlesTypeOK
  <2> QED BY <1>7, <1>8, <2>1 DEF Client, Lookup, AttrRead, AttrHead, AttrPersist, AttrStore, SetattrMtime,
        OpenRemote, OpenStaged, FlushBegin, ReleaseCheck, ReleaseRemove, PersistSize, RemoveRow,
        storageVars
<1>9. CASE WriteBackStep \/ Clock \/ Crash \/ UNCHANGED vars
  <2>1. UNCHANGED <<data, acked>>
    BY <1>9 DEF WriteBackStep, DaemonNext, ListDirty, OpenStaging, UploadRead, PutOk, PutFail, Mark,
       Unmark, ListClean, Inspect, RemoveStaging, ClearStaging, SweepDone, Clock, Age, Crash,
       vars, storageVars, handleVars
  <2> QED BY <1>7, <2>1
<1> QED BY <1>6, <1>8, <1>9 DEF Next, Requests

\* A handle goes on with its node, is opened on what the node knows, or is that
\* of a new file.
LEMMA HandleSteps ==
  ASSUME TypeInv, DurableInv, WriteOnce, [Next]_vars, NEW h \in Handles, hnd'[h].pc # "closed"
  PROVE  \/ /\ hnd[h].pc # "closed"
            /\ hnd'[h].node = hnd[h].node /\ hnd'[h].seen = hnd[h].seen
            /\ hnd'[h].ino \in {hnd[h].ino, None}
            /\ hnd'[h].pc = "open" /\ hnd'[h].ino = None =>
                 hnd[h].pc = "open" /\ hnd[h].ino = None
         \/ \E n \in Nodes :
              /\ node[n] # None /\ hnd'[h].node = n /\ hnd'[h].seen = node[n].seen
              /\ \/ ~node[n].staged /\ hnd'[h].ino = None
                 \/ link[node[n].path] # None /\ hnd'[h].ino = link[node[n].path]
              /\ UNCHANGED <<obj, data, node, acked, phase>>
         \/ \E n \in Nodes, p \in Paths :
              /\ hnd'[h].node = n /\ hnd'[h].seen = None
              /\ node'[n].path = p /\ acked'[p] = None
<1> DEFINE Goes == /\ hnd[h].pc # "closed"
                   /\ hnd'[h].node = hnd[h].node /\ hnd'[h].seen = hnd[h].seen
                   /\ hnd'[h].ino \in {hnd[h].ino, None}
                   /\ hnd'[h].pc = "open" /\ hnd'[h].ino = None =>
                        hnd[h].pc = "open" /\ hnd[h].ino = None
           Opens == \E n \in Nodes :
                      /\ node[n] # None /\ hnd'[h].node = n /\ hnd'[h].seen = node[n].seen
                      /\ \/ ~node[n].staged /\ hnd'[h].ino = None
                         \/ link[node[n].path] # None /\ hnd'[h].ino = link[node[n].path]
                      /\ UNCHANGED <<obj, data, node, acked, phase>>
           Begins == \E n \in Nodes, p \in Paths :
                       /\ hnd'[h].node = n /\ hnd'[h].seen = None
                       /\ node'[n].path = p /\ acked'[p] = None
<1>1. hnd'[h] = hnd[h] => Goes
  OBVIOUS
<1>2. ASSUME NEW p \in Paths, NEW n \in Nodes, NEW o \in Handles, NEW i \in Inodes, Create(p, n, o, i)
      PROVE  Goes \/ Begins
  <2>1. OnlyHandle(o) /\ OnlyNode(n, p)
    BY <1>2, CreateEffect
  <2>3. UNCHANGED acked /\ acked[p] = None
    BY <1>2 DEF Create, DurableInv, RowInv
  <2>2. hnd'[o].node = n /\ hnd'[o].seen = None
    BY <1>2 DEF Create, Closed, TypeInv, TypeOK, HandlesTypeOK
  <2> QED BY <1>1, <2>1, <2>2, <2>3 DEF OnlyHandle, OnlyNode
<1>3. ASSUME NEW n \in Nodes, NEW o \in Handles, OpenRemote(n, o) \/ OpenStaged(n, o), UNCHANGED phase
      PROVE  Goes \/ Opens
  <2>1. OnlyHandle(o) /\ hnd'[o].node = n /\ node[n] # None
    BY <1>3, OpenRemoteEffect, OpenStagedEffect DEF OnNode
  <2>2. hnd'[o].seen = node[n].seen /\ UNCHANGED <<obj, data, node, acked>>
    BY <1>3 DEF OpenRemote, OpenStaged, Opened, Closed, storageVars, TypeInv, TypeOK, HandlesTypeOK
  <2>3. \/ ~node[n].staged /\ hnd'[o].ino = None
        \/ link[node[n].path] # None /\ hnd'[o].ino = link[node[n].path]
    BY <1>3, OpenRemoteEffect, OpenStagedEffect DEF OpenRemote, OpenStaged
  <2> QED BY <1>1, <1>3, <2>1, <2>2, <2>3 DEF OnlyHandle
<1>4. ASSUME NEW o \in Handles, NEW b \in Blocks, Write(o, b)
      PROVE  Goes
  <2>1. OnlyHandle(o) /\ hnd'[o].node = hnd[o].node /\ hnd'[o].ino = hnd[o].ino /\ hnd[o].ino # None
    BY <1>4, WriteEffect DEF Continues
  <2>2. hnd'[o].seen = hnd[o].seen /\ hnd[o].pc # "closed"
    BY <1>4 DEF Write, TypeInv, TypeOK, HandlesTypeOK, Handle
  <2> QED BY <1>1, <2>1, <2>2 DEF OnlyHandle
<1>5. ASSUME NEW o \in Handles, FlushBegin(o) \/ FlushCommit(o)
      PROVE  Goes
  <2>1. OnlyHandle(o) /\ hnd'[o].node = hnd[o].node /\ hnd'[o].ino = hnd[o].ino /\ hnd[o].ino # None
    BY <1>5, FlushBeginEffect, FlushCommitEffect DEF Continues
  <2>2. hnd'[o].seen = hnd[o].seen /\ hnd[o].pc # "closed"
    BY <1>5 DEF FlushBegin, FlushCommit, TypeInv, TypeOK, HandlesTypeOK, Handle
  <2> QED BY <1>1, <2>1, <2>2 DEF OnlyHandle
<1>6. ASSUME NEW o \in Handles, ReleaseCheck(o) \/ ReleaseRemove(o)
      PROVE  hnd'[h].pc # "closed" => Goes
  <2>1. OnlyHandle(o) /\ hnd'[o].pc # "open" /\ hnd[o].pc # "closed"
    BY <1>6, ReleaseCheckEffect, ReleaseRemoveEffect DEF ReleaseCheck, ReleaseRemove
  <2>2. hnd'[o].pc # "closed" =>
          hnd'[o].ino = None /\ hnd'[o].node = hnd[o].node /\ hnd'[o].seen = hnd[o].seen
    <3> DEFINE r == [hnd[o] EXCEPT !.pc = "release", !.ino = None]
    <3>1. r.ino = None /\ r.node = hnd[o].node /\ r.seen = hnd[o].seen /\ Closed.pc = "closed"
      BY DEF Closed, TypeInv, TypeOK, HandlesTypeOK, Handle
    <3>2. hnd' = [hnd EXCEPT ![o] = r] \/ hnd' = [hnd EXCEPT ![o] = Closed]
      BY <1>6 DEF ReleaseCheck, ReleaseRemove
    <3> HIDE DEF r
    <3> QED BY <3>1, <3>2 DEF TypeInv, TypeOK, HandlesTypeOK
  <2> QED BY <1>1, <2>1, <2>2 DEF OnlyHandle
<1>7. UNCHANGED hnd => Goes
  BY <1>1
<1>8. ~Crash
  BY DEF Crash, Closed
<1> HIDE DEF Goes, Opens, Begins
<1>9. ASSUME Writer PROVE Goes \/ Begins
  BY <1>2, <1>4, <1>5, <1>9 DEF Writer, WriteOnce, FetchCopy, DurableInv, HandleInv
<1>10. ASSUME Client, UNCHANGED phase PROVE Goes \/ Opens
  BY <1>3, <1>5, <1>6, <1>7, <1>10 DEF Client, Lookup, AttrRead, AttrHead, AttrPersist, AttrStore, SetattrMtime,
     PersistSize, RemoveObject, RemoveRow
<1>11. ASSUME WriteBackStep \/ Clock \/ UNCHANGED vars PROVE Goes
  BY <1>7, <1>11 DEF WriteBackStep, Clock, Age, vars, handleVars
<1> QED BY <1>8, <1>9, <1>10, <1>11 DEF Next, Requests, Goes, Opens, Begins

LEMMA FreshInit == Init => FreshInv
<1> SUFFICES ASSUME Init PROVE FreshInv
  OBVIOUS
<1>1. PICK synced \in SUBSET Paths :
        /\ StorageInit(synced) /\ HandlesInit(synced)
        /\ phase = [p \in Paths |-> IF p \in synced THEN "flushed" ELSE "new"]
  BY DEF Init
<1> QED BY <1>1, ClosedType DEF FreshInv, StoredInv, SeenInv, Knows, ReadInv, StorageInit, HandlesInit

LEMMA SeenStep ==
  ASSUME TypeInv, DurableInv, FreshInv, WriteOnce, [Next]_vars, TypeInv', DurableInv'
  PROVE  SeenInv'
<1> SUFFICES ASSUME NEW n \in Nodes, node'[n] # None
             PROVE  /\ Knows(node[n].path, node[n])'
                    /\ head'[n] # None => Knows(node[n].path, head[n].entry)'
  BY DEF SeenInv
<1> PICK q : q = node'[n].path
  OBVIOUS
<1> DEFINE New(e) == e.seen # None =>
                       /\ phase'[q] = "flushed"
                       /\ acked'[q] # None => e.seen = acked'[q]
                       /\ ~e.staged => Up(q)'
<1>1. q \in Paths /\ (head'[n] # None => head'[n].entry.path = q)
  BY DEF TypeInv, TypeOK, HandlesTypeOK, HandleShape, Node
<1>2. /\ phase[q] = "flushed" =>
           phase'[q] = "flushed" /\ acked'[q] \in {acked[q], None} /\ (Up(q) => Up(q)')
      /\ phase'[q] # "flushed" => acked'[q] = None
  BY <1>1, PathsLast DEF FreshInv, DurableInv, RowInv
<1>3. ASSUME NEW d, NEW e, Knows(q, d), e.seen = d.seen, e.staged = d.staged
      PROVE  New(e)
  BY <1>2, <1>3 DEF Knows
<1>4. ASSUME NEW e, row'[q] # None, e.seen = acked'[q], e.staged = row'[q].staged
      PROVE  New(e)
  <2>1. /\ row'[q].dirty => row'[q].staged
        /\ ~row'[q].dirty => Up(q)'
    BY <1>1, <1>4 DEF DurableInv, RowInv
  <2> QED BY <1>2, <1>4, <2>1
<1>5. /\ node[n] # None /\ node[n].path = q => Knows(q, node[n])
      /\ head[n] # None /\ node[n].path = q => Knows(q, head[n].entry)
  BY DEF FreshInv, SeenInv, TypeInv, HandleShape
<1> HIDE DEF New
<1>6. New(node'[n])
  <2>1. CASE /\ node[n] # None
             /\ node'[n].path = node[n].path /\ node'[n].seen = node[n].seen
             /\ node'[n].staged = node[n].staged
    BY <1>3, <1>5, <2>1
  <2>2. CASE head[n] # None /\ node'[n] = head[n].entry /\ node'[n].path = node[n].path
    BY <1>3, <1>5, <2>2
  <2>3. CASE row'[q] # None /\ node'[n].seen = acked'[q] /\ node'[n].staged = row'[q].staged
    BY <1>4, <2>3
  <2> QED BY <2>1, <2>2, <2>3, NodeSteps
<1>7. head'[n] # None => New(head'[n].entry)
  <2>1. head[n] # None => head[n].entry.path = node[n].path
    BY DEF TypeInv, HandleShape
  <2>2. CASE /\ head[n] # None
             /\ head'[n].entry.path = head[n].entry.path
             /\ head'[n].entry.staged = head[n].entry.staged
             /\ head'[n].entry.seen = head[n].entry.seen
    BY <1>1, <1>3, <1>5, <2>1, <2>2
  <2>3. CASE LET p == head'[n].entry.path IN
               /\ row'[p] # None /\ head'[n].entry.staged = row'[p].staged
               /\ head'[n].entry.seen = acked'[p]
    BY <1>1, <1>4, <2>3
  <2> QED BY <2>2, <2>3, HeadSteps
<1>8. Up(q)' => Up(node[n].path)'
  BY DEF Up, Uploaded
<1> QED BY <1>6, <1>7, <1>8 DEF New, Knows

LEMMA ReadStep ==
  ASSUME TypeInv, DurableInv, FreshInv, WriteOnce, [Next]_vars, TypeInv', DurableInv', SeenInv'
  PROVE  ReadInv'
<1> SUFFICES ASSUME NEW h \in Handles, hnd'[h].pc # "closed"
             PROVE  /\ hnd'[h].seen # None =>
                         /\ phase'[Path(h)'] = "flushed"
                         /\ acked'[Path(h)'] # None => hnd'[h].seen = acked'[Path(h)']
                         /\ hnd'[h].pc = "open" /\ hnd'[h].ino = None => Up(Path(h))'
                    /\ hnd'[h].ino # None /\ acked'[Path(h)'] # None =>
                         Covers(data'[hnd'[h].ino], acked'[Path(h)'])
  BY DEF ReadInv
<1> PICK q : q = Path(h)'
  OBVIOUS
<1> PICK n : n = hnd'[h].node
  OBVIOUS
<1>1. q \in Paths /\ n \in Nodes /\ node'[n] # None /\ node'[n].path = q
  BY DEF TypeInv, TypeOK, HandleShape, HandlesTypeOK, Node, Path
<1>2. /\ phase[q] = "flushed" =>
           phase'[q] = "flushed" /\ acked'[q] \in {acked[q], None} /\ (Up(q) => Up(q)')
      /\ Up(q)' => Up(Path(h))'
  BY <1>1, PathsLast DEF FreshInv, Up, Uploaded
<1> DEFINE Fresh == /\ hnd'[h].seen # None =>
                         /\ phase'[q] = "flushed"
                         /\ acked'[q] # None => hnd'[h].seen = acked'[q]
                         /\ hnd'[h].pc = "open" /\ hnd'[h].ino = None => Up(q)'
                    /\ hnd'[h].ino # None /\ acked'[q] # None => Covers(data'[hnd'[h].ino], acked'[q])
<1>3. CASE /\ hnd[h].pc # "closed"
           /\ hnd'[h].node = hnd[h].node /\ hnd'[h].seen = hnd[h].seen
           /\ hnd'[h].ino \in {hnd[h].ino, None}
           /\ hnd'[h].pc = "open" /\ hnd'[h].ino = None => hnd[h].pc = "open" /\ hnd[h].ino = None
  <2>1. node[n] # None /\ q = Path(h) /\ n = hnd[h].node
    BY <1>1, <1>3, NodeSteps DEF InUse, TypeInv, HandleShape, Path
  <2>2. hnd[h].seen # None =>
          /\ phase[q] = "flushed"
          /\ acked[q] # None => hnd[h].seen = acked[q]
          /\ hnd[h].pc = "open" /\ hnd[h].ino = None => Up(q)
    BY <1>3, <2>1 DEF FreshInv, ReadInv
  <2>4. hnd'[h].ino # None /\ acked'[q] # None => Covers(data'[hnd'[h].ino], acked'[q])
    <3> SUFFICES ASSUME hnd'[h].ino # None, acked'[q] # None
                 PROVE  Covers(data'[hnd'[h].ino], acked'[q])
      OBVIOUS
    <3>1. hnd'[h].ino = hnd[h].ino
      BY <1>3
    <3>2. CASE phase[q] = "flushed" /\ data'[hnd[h].ino] = data[hnd[h].ino]
      BY <1>2, <1>3, <2>1, <3>1, <3>2 DEF FreshInv, ReadInv
    <3>3. CASE data'[hnd[h].ino] = acked'[q]
      <4>1. acked'[q] \in Content
        BY <1>1 DEF TypeInv, TypeOK, HandlesTypeOK
      <4> QED BY <3>1, <3>3, <4>1, CoversItself
    <3> QED BY <1>3, <2>1, <3>1, <3>2, <3>3, DataLasts
  <2>5. Fresh
    BY <1>2, <1>3, <2>2, <2>4
  <2> QED BY <1>2, <2>5
<1>4. ASSUME NEW m \in Nodes,
             node[m] # None, hnd'[h].node = m, hnd'[h].seen = node[m].seen,
             \/ ~node[m].staged /\ hnd'[h].ino = None
             \/ link[node[m].path] # None /\ hnd'[h].ino = link[node[m].path],
             UNCHANGED <<obj, data, node, acked, phase>>
      PROVE  Fresh
  <2>1. m = n /\ node[n].path = q
    BY <1>1, <1>4
  <2>2. node[n].seen # None =>
          /\ phase[q] = "flushed"
          /\ acked[q] # None => node[n].seen = acked[q]
          /\ ~node[n].staged => Up(q)
    BY <1>1, <1>4, <2>1 DEF FreshInv, SeenInv, Knows
  <2>3. link[q] # None /\ acked[q] # None => Covers(data[link[q]], acked[q])
    BY <1>1 DEF DurableInv, LinkInv
  <2> QED BY <1>2, <1>4, <2>1, <2>2, <2>3
<1>5. ASSUME NEW m \in Nodes, NEW p \in Paths,
             hnd'[h].node = m, hnd'[h].seen = None, node'[m].path = p, acked'[p] = None
      PROVE  Fresh
  BY <1>1, <1>5
<1> QED BY <1>2, <1>3, <1>4, <1>5, HandleSteps

\* When every file is written once and the database works, a handle opened on an
\* entry read after a close reads at least what that close promised, for any
\* number of files, nodes, handles, requests for attributes and crashes, as long
\* as no Attr has put an entry read before the close back into its node.
THEOREM FreshOnce == ASSUME WriteOnce PROVE Spec => []FreshUnlessPutBack
<1>1. Init => TypeInv /\ DurableInv /\ FreshInv
  BY TypeInit, DurableInit, FreshInit
<1>2. (TypeInv /\ DurableInv) /\ [Next]_vars => (TypeInv /\ DurableInv)'
  BY TypeStep, DurableStep, WriteOnce
<1>3. (TypeInv /\ DurableInv /\ FreshInv) /\ [Next]_vars => FreshInv'
  <2> SUFFICES ASSUME TypeInv, DurableInv, FreshInv, [Next]_vars PROVE FreshInv'
    OBVIOUS
  <2>1. StoredInv'
    BY PathsLast, WriteOnce DEF FreshInv, StoredInv
  <2> QED BY <1>2, <2>1, SeenStep, ReadStep, WriteOnce DEF FreshInv
<1>4. TypeInv /\ DurableInv /\ FreshInv => FreshUnlessPutBack
  BY InvFresh
<1> QED BY <1>1, <1>2, <1>3, <1>4, PTL DEF Spec
=============================================================================
