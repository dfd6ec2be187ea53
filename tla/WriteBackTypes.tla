--------------------------- MODULE WriteBackTypes ---------------------------
(***************************************************************************)
(* Type correctness of WriteBack, for any number of files, nodes, handles  *)
(* and inodes, and any workload.  TypeOK alone is not inductive: a handler *)
(* dereferences the node and the staging file its program counter promises *)
(* (Shape), which is the nil-pointer safety of fs.go and uploader.go.      *)
(*                                                                         *)
(* For each action a lemma states what it does to the rows, nodes and      *)
(* handles, field by field; the later proofs use these lemmas and not the  *)
(* actions.                                                                *)
(***************************************************************************)
EXTENDS WriteBack, TLAPS

HandleShape ==
  /\ \A n \in Nodes : head[n] # None => node[n] # None /\ head[n].entry.path = node[n].path
  /\ \A h \in Handles :
       /\ hnd[h].pc # "closed" => hnd[h].node \in Nodes /\ node[hnd[h].node] # None
       /\ hnd[h].pc = "closed" => hnd[h].node = None /\ hnd[h].ino = None /\ ~hnd[h].dirty
       /\ hnd[h].pc \in {"fetch", "fetched", "flush"} \/ hnd[h].dirty => hnd[h].ino # None
       /\ hnd[h].pc = "flush" => hnd[h].got # None
       /\ hnd[h].pc = "release" => hnd[h].ino = None

DaemonShape ==
  /\ pc \notin {"sleep", "upload", "evict"} => cur # None
  /\ (pc = "read") = (ino # None)
  /\ (pc \in {"put", "mark"}) = (buf # None)

TypeInv == TypeOK /\ HandleShape /\ DaemonShape

\* What an action of the file side has to keep.
FileInv == StorageTypeOK /\ HandlesTypeOK /\ HandleShape

-----------------------------------------------------------------------------
(* The operators.                                                          *)

LEMMA ClosedType ==
  /\ Closed \in Handle
  /\ Closed.pc = "closed" /\ Closed.node = None /\ Closed.ino = None
  /\ Closed.dirty = FALSE
BY DEF Closed, Handle, Pcs

LEMMA EmptyType == Empty \in Content
BY StorageAssumption DEF Empty, Content, Sizes, Versions

LEMMA NewEntryType ==
  NewEntry \in Row /\ ~NewEntry.dirty /\ ~NewEntry.staged
BY StorageAssumption DEF NewEntry, Row, Sizes

LEMMA SnapshotType ==
  ASSUME NEW p \in Paths, NEW r \in Row, NEW a \in Content \cup {None}
  PROVE  /\ Snapshot(p, r, a) \in Node
         /\ Snapshot(p, r, a) # None
         /\ Snapshot(p, r, a).path = p
         /\ Snapshot(p, r, a).staged = r.staged
BY HandlesAssumption DEF Snapshot, Node, Row

\* UpdateEntry sets the flags, and never clears one.
LEMMA UpdateEntryType ==
  ASSUME NEW r \in Row \cup {None}, NEW e \in Row
  PROVE  /\ UpdateEntry(r, e) \in Row
         /\ e.dirty => UpdateEntry(r, e).dirty
         /\ e.staged => UpdateEntry(r, e).staged
BY DEF UpdateEntry, Row

LEMMA WriteBlockType ==
  ASSUME NEW c \in Content, NEW b \in Blocks, NEW v \in Versions
  PROVE  WriteBlock(c, b, v) \in Content
BY StorageAssumption DEF WriteBlock, Content, Blocks, Sizes

LEMMA OverlayType ==
  ASSUME NEW c \in Content, NEW f \in Content, NEW k \in Sizes
  PROVE  Overlay(c, f, k) \in Content
BY StorageAssumption DEF Overlay, Content, Blocks, Sizes

\* An entry that a node opens.
LEMMA OpenedType ==
  ASSUME NEW n \in Nodes, node[n] \in Node, NEW i \in Inodes \cup {None}
  PROVE  /\ Opened(n, i) \in Handle
         /\ Opened(n, i).pc = "open" /\ Opened(n, i).node = n
         /\ Opened(n, i).ino = i /\ Opened(n, i).dirty = FALSE
<1>1. node[n].seen \in Content \cup {None}
  BY DEF Node
<1> QED BY <1>1 DEF Opened, Closed, Handle, Pcs

LEMMA CoversItself == ASSUME NEW c \in Content PROVE Covers(c, c)
BY StorageAssumption DEF Covers, Content, Sizes, Versions, Blocks

\* The path of a handle in use.
LEMMA PathType ==
  ASSUME TypeInv, NEW h \in Handles, hnd[h].pc # "closed"
  PROVE  Path(h) \in Paths /\ hnd[h].node \in Nodes /\ node[hnd[h].node] # None
BY DEF TypeInv, TypeOK, HandlesTypeOK, HandleShape, Node, Path

LEMMA EntryType ==
  ASSUME TypeInv
  PROVE  /\ \A e \in todo : e.path \in Paths
         /\ cur # None => cur.path \in Paths
BY DEF TypeInv, TypeOK, DaemonTypeOK, Entry

-----------------------------------------------------------------------------
(* The rows.                                                               *)

LEMMA StoreEffect ==
  ASSUME StorageTypeOK, NEW p \in Paths, NEW r \in Row \cup {None}, Store(p, r)
  PROVE  /\ row' \in [Paths -> Row \cup {None}]
         /\ row'[p] = r \/ (DBFaults /\ row'[p] = row[p])
         /\ \A q \in Paths : q # p => row'[q] = row[q]
BY StorageAssumption DEF StorageTypeOK, Store

LEMMA StoreFieldsEffect ==
  ASSUME StorageTypeOK, NEW p \in Paths, NEW r,
         row[p] # None => r \in Row, StoreFields(p, r)
  PROVE  /\ row' \in [Paths -> Row \cup {None}]
         /\ (row'[p] = None) = (row[p] = None)
         /\ row[p] # None => row'[p] = r \/ (DBFaults /\ row'[p] = row[p])
         /\ \A q \in Paths : q # p => row'[q] = row[q]
<1>1. CASE row[p] = None
  BY <1>1 DEF StoreFields, StorageTypeOK
<1>2. CASE row[p] # None
  BY <1>2, StoreEffect, StorageAssumption DEF StoreFields
<1> QED BY <1>1, <1>2

\* The step leaves existence and flags of every row alone.
SameFlags ==
  \A q \in Paths :
    /\ (row'[q] = None) = (row[q] = None)
    /\ row[q] # None => row'[q].dirty = row[q].dirty /\ row'[q].staged = row[q].staged

\* The step leaves every handle but h alone.
OnlyHandle(h) ==
  /\ hnd' \in [Handles -> Handle]
  /\ \A o \in Handles : o # h => hnd'[o] = hnd[o]

\* The step leaves every node but n alone, which has path p afterwards.
OnlyNode(n, p) ==
  /\ node' \in [Nodes -> Node \cup {None}]
  /\ node'[n] # None /\ node'[n].path = p
  /\ \A m \in Nodes : m # n => node'[m] = node[m]

-----------------------------------------------------------------------------
(* Lookup, Attr, Setattr.                                                  *)

LEMMA LookupEffect ==
  ASSUME TypeInv, NEW p \in Paths, NEW n \in Nodes, Lookup(p, n)
  PROVE  OnlyNode(n, p) /\ node'[n].staged = row[p].staged
<1> DEFINE s == Snapshot(p, row[p], acked[p])
<1>1. row[p] \in Row /\ acked[p] \in Content \cup {None}
  BY DEF TypeInv, TypeOK, StorageTypeOK, HandlesTypeOK, Lookup
<1>2. s \in Node /\ s # None /\ s.path = p /\ s.staged = row[p].staged
  BY <1>1, SnapshotType
<1>3. node' = [node EXCEPT ![n] = s]
  BY DEF Lookup
<1> HIDE DEF s
<1> QED BY <1>2, <1>3 DEF OnlyNode, TypeInv, TypeOK, HandlesTypeOK

\* The step leaves what every node but n has read alone.
OnlyHead(n) ==
  /\ head' \in [Nodes -> Head \cup {None}]
  /\ \A m \in Nodes : m # n => head'[m] = head[m]

\* What n has read is the entry e, of its own path.
HeadIs(n, e) ==
  OnlyHead(n) /\ head'[n] # None /\ head'[n].entry = e /\ e.path = node[n].path

LEMMA ReadsEffect ==
  ASSUME TypeInv, NEW n \in Nodes, NEW at \in {"read", "done"}, NEW r \in Row,
         NEW a \in Content \cup {None}, Reads(n, at, r, a)
  PROVE  /\ node[n] # None /\ node[n].path \in Paths
         /\ HeadIs(n, Snapshot(node[n].path, r, a)) /\ head'[n].at = at
         /\ head'[n].entry.staged = r.staged /\ head'[n].entry.seen = a
<1> DEFINE p == node[n].path
           e == Snapshot(p, r, a)
           t == [at |-> at, entry |-> e]
<1>1. node[n] # None /\ p \in Paths
  BY DEF TypeInv, TypeOK, HandlesTypeOK, Node, Reads
<1>2. head' = [head EXCEPT ![n] = t]
  BY DEF Reads
<1>3. e \in Node /\ e.path = p /\ e.staged = r.staged /\ e.seen = a
  BY <1>1, SnapshotType DEF Snapshot
<1> HIDE DEF e, p
<1>4. t \in Head /\ t # None /\ t.entry = e /\ t.at = at
  BY <1>3, HandlesAssumption DEF Head
<1> HIDE DEF t
<1>5. OnlyHead(n) /\ head'[n] = t
  BY <1>2, <1>4 DEF OnlyHead, TypeInv, TypeOK, HandlesTypeOK
<1> QED BY <1>1, <1>3, <1>4, <1>5 DEF HeadIs, e, p

LEMMA AttrReadEffect ==
  ASSUME TypeInv, NEW n \in Nodes, AttrRead(n)
  PROVE  /\ node[n] # None /\ row[node[n].path] # None /\ node[n].path \in Paths
         /\ HeadIs(n, Snapshot(node[n].path, row[node[n].path], acked[node[n].path]))
         /\ head'[n].entry.staged = row[node[n].path].staged
         /\ head'[n].entry.seen = acked[node[n].path]
<1> DEFINE p == node[n].path
<1>1. p \in Paths
  BY DEF TypeInv, TypeOK, HandlesTypeOK, Node, AttrRead
<1>2. row[p] \in Row /\ row[p] # None /\ acked[p] \in Content \cup {None}
  BY <1>1 DEF TypeInv, TypeOK, StorageTypeOK, HandlesTypeOK, AttrRead
<1>3. Reads(n, "read", row[p], acked[p])
  BY DEF AttrRead
<1> QED BY <1>1, <1>2, <1>3, ReadsEffect

\* The request that n has in flight, before and after a step of it.
LEMMA HeadType ==
  ASSUME TypeInv, NEW n \in Nodes, head[n] # None
  PROVE  /\ head[n] \in Head /\ node[n] \in Node /\ node[n] # None
         /\ head[n].entry \in Node /\ head[n].entry.path = node[n].path
         /\ node[n].path \in Paths
<1>1. head[n] \in Head /\ node[n] # None /\ head[n].entry.path = node[n].path
  BY DEF TypeInv, TypeOK, HandlesTypeOK, HandleShape
<1>2. node[n] \in Node
  BY <1>1 DEF TypeInv, TypeOK, HandlesTypeOK
<1> QED BY <1>1, <1>2 DEF Head, Node

LEMMA AttrHeadEffect ==
  ASSUME TypeInv, NEW n \in Nodes, AttrHead(n)
  PROVE  /\ OnlyHead(n) /\ head[n] # None /\ head'[n] # None
         /\ head'[n].entry.path = head[n].entry.path
         /\ head'[n].entry.staged = head[n].entry.staged
         /\ head'[n].entry.seen = head[n].entry.seen
<1> DEFINE s == obj[node[n].path].len
           e == [head[n].entry EXCEPT !.size = s]
           t == [at |-> "found", entry |-> e]
<1>1. head[n] # None /\ head[n] \in Head /\ node[n].path \in Paths
  BY HeadType DEF AttrHead
<1>2. s \in Sizes
  BY <1>1 DEF TypeInv, TypeOK, StorageTypeOK, AttrHead, Content
<1>3. head' = [head EXCEPT ![n] = t]
  BY DEF AttrHead
<1> HIDE DEF s
<1>4. /\ t \in Head /\ t # None
      /\ t.entry.path = head[n].entry.path /\ t.entry.staged = head[n].entry.staged
      /\ t.entry.seen = head[n].entry.seen
  <2>1. head[n].entry \in Node
    BY <1>1 DEF Head
  <2>2. /\ e \in Node /\ e.path = head[n].entry.path
        /\ e.staged = head[n].entry.staged /\ e.seen = head[n].entry.seen
    BY <1>2, <2>1 DEF Node
  <2> HIDE DEF e
  <2> QED BY <2>2, HandlesAssumption DEF Head
<1> HIDE DEF t, e
<1> QED BY <1>1, <1>3, <1>4 DEF OnlyHead, TypeInv, TypeOK, HandlesTypeOK

LEMMA AttrPersistEffect ==
  ASSUME TypeInv, NEW n \in Nodes, AttrPersist(n)
  PROVE  /\ row' \in [Paths -> Row \cup {None}] /\ SameFlags
         /\ OnlyHead(n) /\ head[n] # None /\ head'[n] # None
         /\ head'[n].entry.path = head[n].entry.path
         /\ head'[n].entry.staged = head[n].entry.staged
         /\ head'[n].entry.seen = head[n].entry.seen
<1> DEFINE p == node[n].path
           s == head[n].entry.size
           r == [row[p] EXCEPT !.size = s, !.idle = FALSE, !.verified = TRUE]
           e == [head[n].entry EXCEPT !.verified = TRUE]
           t == [at |-> "done", entry |-> e]
<1>1. head[n] # None /\ head[n] \in Head /\ p \in Paths
  BY HeadType DEF AttrPersist
<1>2. s \in Sizes
  BY <1>1 DEF Head, Node
<1>3. StoreFields(p, r) /\ head' = [head EXCEPT ![n] = t]
  BY DEF AttrPersist
<1>4. /\ t \in Head /\ t # None
      /\ t.entry.path = head[n].entry.path /\ t.entry.staged = head[n].entry.staged
      /\ t.entry.seen = head[n].entry.seen
  <2>1. head[n].entry \in Node
    BY <1>1 DEF Head
  <2>2. /\ e \in Node /\ e.path = head[n].entry.path
        /\ e.staged = head[n].entry.staged /\ e.seen = head[n].entry.seen
    BY <2>1 DEF Node
  <2> HIDE DEF e
  <2> QED BY <2>2, HandlesAssumption DEF Head
<1>5. row[p] # None => r \in Row /\ r.dirty = row[p].dirty /\ r.staged = row[p].staged
  <2>1. row[p] # None => row[p] \in Row
    BY <1>1 DEF TypeInv, TypeOK, StorageTypeOK
  <2> HIDE DEF s, p
  <2> QED BY <2>1, <1>2 DEF Row
<1> HIDE DEF r, t, e, s, p
<1>6. row' \in [Paths -> Row \cup {None}] /\ SameFlags
  BY <1>1, <1>3, <1>5, StoreFieldsEffect DEF SameFlags, TypeInv, TypeOK
<1> QED BY <1>1, <1>3, <1>4, <1>6 DEF OnlyHead, TypeInv, TypeOK, HandlesTypeOK

LEMMA AttrStoreEffect ==
  ASSUME TypeInv, NEW n \in Nodes, AttrStore(n)
  PROVE  /\ OnlyNode(n, node[n].path) /\ node[n] # None
         /\ head[n] # None /\ node'[n] = head[n].entry
         /\ OnlyHead(n) /\ head'[n] = None
<1> DEFINE e == head[n].entry
<1>1. head[n] # None /\ node[n] # None /\ e \in Node /\ e.path = node[n].path
  BY HeadType DEF AttrStore
<1>2. node' = [node EXCEPT ![n] = e] /\ head' = [head EXCEPT ![n] = None]
  BY DEF AttrStore
<1> HIDE DEF e
<1>3. OnlyNode(n, node[n].path) /\ node'[n] = e
  BY <1>1, <1>2, HandlesAssumption DEF OnlyNode, TypeInv, TypeOK, HandlesTypeOK
<1>4. OnlyHead(n) /\ head'[n] = None
  BY <1>2 DEF OnlyHead, TypeInv, TypeOK, HandlesTypeOK
<1> QED BY <1>1, <1>3, <1>4 DEF e

\* SetattrSize and SetattrMtime: a row with other columns, the same flags.
LEMMA SetattrSizeEffect ==
  ASSUME TypeInv, NEW n \in Nodes, NEW z \in Sizes, SetattrSize(n, z)
  PROVE  /\ row' \in [Paths -> Row \cup {None}] /\ SameFlags
         /\ node[n] # None /\ row[node[n].path] # None
         /\ HeadIs(n, Snapshot(node[n].path, row'[node[n].path], None))
         /\ acked' \in [Paths -> Content \cup {None}]
<1> DEFINE p == node[n].path
           r == [row[p] EXCEPT !.size = z]
<1>1. p \in Paths /\ node[n] # None
  BY DEF TypeInv, TypeOK, HandlesTypeOK, Node, SetattrSize
<1>2. row[p] \in Row /\ row[p] # None
  BY <1>1 DEF TypeInv, TypeOK, StorageTypeOK, SetattrSize
<1>3. row' = [row EXCEPT ![p] = r] /\ acked' = [acked EXCEPT ![p] = None]
      /\ Reads(n, "done", r, None)
  BY DEF SetattrSize
<1> HIDE DEF p
<1>4. r \in Row /\ r.dirty = row[p].dirty /\ r.staged = row[p].staged
  BY <1>2 DEF Row
<1> HIDE DEF r
<1>5. HeadIs(n, Snapshot(p, r, None))
  BY <1>3, <1>4, ReadsEffect DEF p
<1>6. row' \in [Paths -> Row \cup {None}] /\ SameFlags /\ row'[p] = r
  BY <1>1, <1>2, <1>3, <1>4, StorageAssumption DEF SameFlags, TypeInv, TypeOK, StorageTypeOK
<1>7. acked' \in [Paths -> Content \cup {None}]
  BY <1>1, <1>3 DEF TypeInv, TypeOK, HandlesTypeOK
<1> QED BY <1>1, <1>2, <1>5, <1>6, <1>7 DEF p

LEMMA SetattrMtimeEffect ==
  ASSUME TypeInv, NEW n \in Nodes, NEW old \in BOOLEAN, SetattrMtime(n, old)
  PROVE  /\ row' \in [Paths -> Row \cup {None}] /\ SameFlags
         /\ node[n] # None /\ row[node[n].path] # None /\ node[n].path \in Paths
         /\ HeadIs(n, Snapshot(node[n].path, row'[node[n].path], acked[node[n].path]))
         /\ head'[n].entry.staged = row[node[n].path].staged
         /\ head'[n].entry.seen = acked[node[n].path]
<1> DEFINE p == node[n].path
           r == [row[p] EXCEPT !.idle = old]
<1>1. p \in Paths /\ node[n] # None
  BY DEF TypeInv, TypeOK, HandlesTypeOK, Node, SetattrMtime
<1>2. row[p] \in Row /\ row[p] # None /\ acked[p] \in Content \cup {None}
  BY <1>1 DEF TypeInv, TypeOK, StorageTypeOK, HandlesTypeOK, SetattrMtime
<1>3. row' = [row EXCEPT ![p] = r] /\ Reads(n, "done", r, acked[p])
  BY DEF SetattrMtime
<1> HIDE DEF p
<1>4. r \in Row /\ r.dirty = row[p].dirty /\ r.staged = row[p].staged
  BY <1>2 DEF Row
<1> HIDE DEF r
<1>5. /\ HeadIs(n, Snapshot(p, r, acked[p]))
      /\ head'[n].entry.staged = row[p].staged /\ head'[n].entry.seen = acked[p]
  BY <1>2, <1>3, <1>4, ReadsEffect DEF p
<1>6. row' \in [Paths -> Row \cup {None}] /\ SameFlags /\ row'[p] = r
  BY <1>1, <1>2, <1>3, <1>4, StorageAssumption DEF SameFlags, TypeInv, TypeOK, StorageTypeOK
<1> QED BY <1>1, <1>2, <1>5, <1>6 DEF p

-----------------------------------------------------------------------------
(* Create and Open.                                                        *)

LEMMA CreateEffect ==
  ASSUME TypeInv, NEW p \in Paths, NEW n \in Nodes, NEW h \in Handles, NEW i \in Inodes,
         Create(p, n, h, i)
  PROVE  /\ row' \in [Paths -> Row \cup {None}]
         /\ row'[p] # None /\ ~row'[p].dirty /\ ~row'[p].staged
         /\ \A q \in Paths : q # p => row'[q] = row[q]
         /\ OnlyNode(n, p) /\ ~node'[n].staged
         /\ OnlyHandle(h)
         /\ hnd'[h].pc = "open" /\ hnd'[h].node = n /\ hnd'[h].ino = i /\ ~hnd'[h].dirty
<1> DEFINE r == [Closed EXCEPT !.pc = "open", !.node = n, !.ino = i]
           e == Snapshot(p, NewEntry, None)
<1>1. row' = [row EXCEPT ![p] = NewEntry]
  BY DEF Create, UpdateEntry
<1>2. e \in Node /\ e # None /\ e.path = p /\ ~e.staged
  BY NewEntryType, SnapshotType
<1>3. r \in Handle /\ r.pc = "open" /\ r.node = n /\ r.ino = i /\ ~r.dirty
  BY DEF Closed, Handle, Pcs
<1>4. node' = [node EXCEPT ![n] = e] /\ hnd' = [hnd EXCEPT ![h] = r]
  BY DEF Create
<1> HIDE DEF r, e
<1>5. OnlyNode(n, p) /\ ~node'[n].staged
  BY <1>2, <1>4 DEF OnlyNode, TypeInv, TypeOK, HandlesTypeOK
<1>6. OnlyHandle(h) /\ hnd'[h] = r
  BY <1>3, <1>4 DEF OnlyHandle, TypeInv, TypeOK, HandlesTypeOK
<1>7. /\ row' \in [Paths -> Row \cup {None}]
      /\ row'[p] # None /\ ~row'[p].dirty /\ ~row'[p].staged
      /\ \A q \in Paths : q # p => row'[q] = row[q]
  BY <1>1, NewEntryType, StorageAssumption DEF TypeInv, TypeOK, StorageTypeOK
<1> QED BY <1>3, <1>5, <1>6, <1>7

\* Every Open of node n puts a handle on it.
OnNode(n, h) ==
  OnlyHandle(h) /\ hnd'[h].pc = "open" /\ hnd'[h].node = n /\ ~hnd'[h].dirty

LEMMA OpenWriteEffect ==
  ASSUME TypeInv, NEW n \in Nodes, NEW h \in Handles, NEW i \in Inodes, OpenWrite(n, h, i)
  PROVE  OnNode(n, h) /\ hnd'[h].ino = i /\ node[n] # None
<1> DEFINE r == Opened(n, i)
<1>1. node[n] \in Node /\ node[n] # None
  BY DEF TypeInv, TypeOK, HandlesTypeOK, OpenWrite
<1>2. r \in Handle /\ r.pc = "open" /\ r.node = n /\ r.ino = i /\ ~r.dirty
  BY <1>1, OpenedType
<1>3. hnd' = [hnd EXCEPT ![h] = r]
  BY DEF OpenWrite
<1> HIDE DEF r
<1> QED BY <1>1, <1>2, <1>3 DEF OnNode, OnlyHandle, TypeInv, TypeOK, HandlesTypeOK

LEMMA OpenRemoteEffect ==
  ASSUME TypeInv, NEW n \in Nodes, NEW h \in Handles, OpenRemote(n, h)
  PROVE  OnNode(n, h) /\ hnd'[h].ino = None /\ node[n] # None
<1> DEFINE r == Opened(n, None)
<1>1. node[n] \in Node /\ node[n] # None
  BY DEF TypeInv, TypeOK, HandlesTypeOK, OpenRemote
<1>2. r \in Handle /\ r.pc = "open" /\ r.node = n /\ r.ino = None /\ ~r.dirty
  <2>1. None \in Inodes \cup {None}
    OBVIOUS
  <2> QED BY <1>1, <2>1, OpenedType
<1>3. hnd' = [hnd EXCEPT ![h] = r]
  BY DEF OpenRemote
<1> HIDE DEF r
<1> QED BY <1>1, <1>2, <1>3 DEF OnNode, OnlyHandle, TypeInv, TypeOK, HandlesTypeOK

LEMMA OpenStagedEffect ==
  ASSUME TypeInv, NEW n \in Nodes, NEW h \in Handles, OpenStaged(n, h)
  PROVE  OnNode(n, h) /\ hnd'[h].ino = link[node[n].path] /\ node[n] # None
<1> DEFINE i == link[node[n].path]
           r == Opened(n, i)
<1>1. node[n] \in Node /\ node[n] # None
  BY DEF TypeInv, TypeOK, HandlesTypeOK, OpenStaged
<1>2. i \in Inodes \cup {None}
  BY <1>1 DEF Node, TypeInv, TypeOK, StorageTypeOK
<1>3. hnd' = [hnd EXCEPT ![h] = r]
  BY DEF OpenStaged
<1>4. r \in Handle /\ r.pc = "open" /\ r.node = n /\ r.ino = i /\ ~r.dirty
  <2> HIDE DEF i
  <2> QED BY <1>1, <1>2, OpenedType
<1> HIDE DEF r
<1> QED BY <1>1, <1>3, <1>4 DEF OnNode, OnlyHandle, TypeInv, TypeOK, HandlesTypeOK

-----------------------------------------------------------------------------
(* Write, Flush, Release.                                                  *)

\* The handle h goes on, on the same node.
Continues(h, c) ==
  /\ OnlyHandle(h)
  /\ hnd'[h].pc = c /\ hnd'[h].node = hnd[h].node /\ hnd'[h].ino = hnd[h].ino

LEMMA FetchStartEffect ==
  ASSUME TypeInv, NEW h \in Handles, FetchStart(h)
  PROVE  Continues(h, "fetch") /\ hnd'[h].dirty = hnd[h].dirty /\ hnd[h].ino # None
<1>1. PICK g \in {obj[Path(h)], None} :
        hnd' = [hnd EXCEPT ![h].pc = "fetch", ![h].got = g]
  BY DEF FetchStart
<1> DEFINE r == [hnd[h] EXCEPT !.pc = "fetch", !.got = g]
<1>2. hnd' = [hnd EXCEPT ![h] = r] /\ hnd[h].ino # None
  BY <1>1 DEF FetchStart
<1>3. hnd[h] \in Handle
  BY DEF TypeInv, TypeOK, HandlesTypeOK
<1>4. Path(h) \in Paths
  BY <1>3 DEF TypeInv, TypeOK, HandlesTypeOK, HandleShape, FetchStart, Handle, Node, Path
<1>5. g \in Content \cup {None}
  BY <1>4 DEF TypeInv, TypeOK, StorageTypeOK
<1>6. /\ r \in Handle /\ r.pc = "fetch" /\ r.node = hnd[h].node
      /\ r.ino = hnd[h].ino /\ r.dirty = hnd[h].dirty
  BY <1>3, <1>5 DEF Handle, Pcs
<1> HIDE DEF r
<1> QED BY <1>2, <1>6 DEF Continues, OnlyHandle, TypeInv, TypeOK, HandlesTypeOK

LEMMA FetchCopyEffect ==
  ASSUME TypeInv, NEW h \in Handles, NEW k \in Sizes, FetchCopy(h, k)
  PROVE  /\ Continues(h, "fetched") /\ hnd'[h].dirty = hnd[h].dirty /\ hnd[h].ino # None
         /\ data' \in [Inodes -> Content]
<1> DEFINE r == [hnd[h] EXCEPT !.pc = "fetched", !.got = None, !.once = TRUE]
           g == hnd[h].got
           i == hnd[h].ino
           c == Overlay(data[i], g, k)
<1>1. hnd[h] \in Handle /\ i # None
  BY DEF TypeInv, TypeOK, HandlesTypeOK, HandleShape, FetchCopy
<1>2. i \in Inodes /\ g \in Content \cup {None}
  BY <1>1 DEF Handle
<1>3. hnd' = [hnd EXCEPT ![h] = r]
  BY DEF FetchCopy
<1>4. UNCHANGED data \/ (g # None /\ data' = [data EXCEPT ![i] = c])
  BY DEF FetchCopy
<1>5. /\ r \in Handle /\ r.pc = "fetched" /\ r.node = hnd[h].node
      /\ r.ino = hnd[h].ino /\ r.dirty = hnd[h].dirty
  BY <1>1 DEF Handle, Pcs
<1>6. g # None => c \in Content
  BY <1>2, OverlayType DEF TypeInv, TypeOK, StorageTypeOK
<1> HIDE DEF r, c, g
<1>7. data' \in [Inodes -> Content]
  BY <1>2, <1>4, <1>6 DEF TypeInv, TypeOK, StorageTypeOK
<1> QED BY <1>1, <1>3, <1>5, <1>7 DEF Continues, OnlyHandle, TypeInv, TypeOK, HandlesTypeOK

LEMMA WriteEffect ==
  ASSUME TypeInv, NEW h \in Handles, NEW b \in Blocks, Write(h, b)
  PROVE  /\ Continues(h, "open") /\ hnd'[h].dirty /\ hnd[h].ino # None
         /\ hnd[h].pc \in {"fetched", "open"}
         /\ data' = [data EXCEPT ![hnd[h].ino] = WriteBlock(data[hnd[h].ino], b, wid + 1)]
         /\ data' \in [Inodes -> Content] /\ wid' \in Versions
         /\ OnlyNode(hnd[h].node, Path(h)) /\ node[hnd[h].node] # None
         /\ node'[hnd[h].node].staged = node[hnd[h].node].staged
         /\ pend' \subseteq [path : Paths, size : Sizes, by : Versions]
<1> DEFINE n == hnd[h].node
           i == hnd[h].ino
           s == IF node[n].size > b THEN node[n].size ELSE b + 1
           e == [node[n] EXCEPT !.size = s]
           r == [hnd[h] EXCEPT !.pc = "open", !.once = TRUE, !.dirty = TRUE]
           c == WriteBlock(data[i], b, wid + 1)
           u == [path |-> Path(h), size |-> s, by |-> wid + 1]
<1>1. /\ hnd[h] \in Handle /\ i # None /\ n \in Nodes /\ node[n] # None
      /\ hnd[h].pc \in {"fetched", "open"}
  BY DEF TypeInv, TypeOK, HandlesTypeOK, HandleShape, Write
<1>2. i \in Inodes /\ node[n] \in Node
  BY <1>1 DEF Handle, TypeInv, TypeOK, HandlesTypeOK
<1>3. s \in Sizes /\ Path(h) \in Paths
  BY <1>2, StorageAssumption DEF Node, Blocks, Sizes, Path
<1>4. wid + 1 \in Versions /\ wid' = wid + 1
  BY StorageAssumption DEF Write, Versions, TypeInv, TypeOK, StorageTypeOK
<1>5. /\ node' = [node EXCEPT ![n] = e] /\ hnd' = [hnd EXCEPT ![h] = r]
      /\ data' = [data EXCEPT ![i] = c] /\ pend' \subseteq pend \cup {u}
  BY DEF Write
<1>6. e \in Node /\ e # None /\ e.path = Path(h) /\ e.staged = node[n].staged
  <2> HIDE DEF s
  <2> QED BY <1>2, <1>3, HandlesAssumption DEF Node, Path
<1>7. r \in Handle /\ r.pc = "open" /\ r.node = n /\ r.ino = i /\ r.dirty
  BY <1>1 DEF Handle, Pcs
<1>8. c \in Content
  BY <1>2, <1>4, WriteBlockType DEF TypeInv, TypeOK, StorageTypeOK
<1>9. u \in [path : Paths, size : Sizes, by : Versions]
  <2> HIDE DEF s
  <2> QED BY <1>3, <1>4
<1> HIDE DEF e, r, u, s
<1>10. OnlyNode(n, Path(h)) /\ node'[n].staged = node[n].staged
  BY <1>1, <1>5, <1>6 DEF OnlyNode, TypeInv, TypeOK, HandlesTypeOK
<1>11. Continues(h, "open") /\ hnd'[h].dirty
  BY <1>5, <1>7 DEF Continues, OnlyHandle, TypeInv, TypeOK, HandlesTypeOK
<1>12. data' \in [Inodes -> Content]
  <2> HIDE DEF c
  <2> QED BY <1>2, <1>5, <1>8 DEF TypeInv, TypeOK, StorageTypeOK
<1>13. pend' \subseteq [path : Paths, size : Sizes, by : Versions]
  BY <1>5, <1>9 DEF TypeInv, TypeOK, HandlesTypeOK
<1> QED BY <1>1, <1>4, <1>5, <1>10, <1>11, <1>12, <1>13

LEMMA PersistSizeEffect ==
  ASSUME TypeInv, NEW u \in pend, PersistSize(u)
  PROVE  row' \in [Paths -> Row \cup {None}] /\ SameFlags
<1> DEFINE p == u.path
           r == [row[p] EXCEPT !.size = u.size, !.idle = FALSE]
<1>1. p \in Paths /\ u.size \in Sizes
  BY DEF TypeInv, TypeOK, HandlesTypeOK
<1>2. StoreFields(p, r)
  BY DEF PersistSize
<1>3. row[p] # None => r \in Row /\ r.dirty = row[p].dirty /\ r.staged = row[p].staged
  <2>1. row[p] # None => row[p] \in Row
    BY <1>1 DEF TypeInv, TypeOK, StorageTypeOK
  <2> HIDE DEF p
  <2> QED BY <2>1, <1>1 DEF Row
<1> HIDE DEF r, p
<1> QED BY <1>1, <1>2, <1>3, StoreFieldsEffect DEF SameFlags, TypeInv, TypeOK

LEMMA FlushBeginEffect ==
  ASSUME TypeInv, NEW h \in Handles, FlushBegin(h)
  PROVE  /\ Continues(h, "flush") /\ hnd'[h].dirty /\ hnd[h].dirty /\ hnd[h].ino # None
         /\ hnd'[h].got = data[hnd[h].ino] /\ hnd'[h].got # None
<1> DEFINE i == hnd[h].ino
           r == [hnd[h] EXCEPT !.pc = "flush", !.got = data[i]]
<1>1. hnd[h] \in Handle /\ hnd[h].dirty /\ i # None
  BY DEF TypeInv, TypeOK, HandlesTypeOK, HandleShape, FlushBegin
<1>2. i \in Inodes
  BY <1>1 DEF Handle
<1>3. data[i] \in Content /\ data[i] # None
  BY <1>2, StorageAssumption DEF TypeInv, TypeOK, StorageTypeOK
<1>4. hnd' = [hnd EXCEPT ![h] = r]
  BY DEF FlushBegin
<1>5. /\ r \in Handle /\ r.pc = "flush" /\ r.node = hnd[h].node /\ r.ino = hnd[h].ino
      /\ r.dirty = hnd[h].dirty /\ r.got = data[i]
  BY <1>1, <1>3 DEF Handle, Pcs
<1> HIDE DEF r
<1> QED BY <1>1, <1>3, <1>4, <1>5 DEF Continues, OnlyHandle, TypeInv, TypeOK, HandlesTypeOK

LEMMA FlushEntryType ==
  ASSUME TypeInv, NEW h \in Handles, hnd[h].pc = "flush"
  PROVE  FlushEntry(h) \in Row /\ FlushEntry(h).dirty /\ FlushEntry(h).staged
<1>1. hnd[h].got \in Content /\ node[hnd[h].node] \in Node
  BY DEF TypeInv, TypeOK, HandlesTypeOK, HandleShape, Handle
<1>2. hnd[h].got.len \in Sizes /\ node[hnd[h].node].verified \in BOOLEAN
  BY <1>1 DEF Node, Content
<1> QED BY <1>2 DEF FlushEntry, Row

\* Torn keeps the type of a row.
LEMMA TornType ==
  ASSUME NEW r \in Row, NEW e \in Torn(r)
  PROVE  e \in Row
BY DEF Torn, Row

\* Either the row is dirty and staged as Flush wrote it, or the database refused
\* it, or it lost its entry to an Attr.
LEMMA FlushCommitEffect ==
  ASSUME TypeInv, NEW h \in Handles, FlushCommit(h)
  PROVE  /\ Continues(h, "open") /\ ~hnd'[h].dirty /\ hnd[h].ino # None
         /\ OnlyNode(hnd[h].node, Path(h)) /\ node[hnd[h].node] # None
         /\ acked' \in [Paths -> Content \cup {None}]
         /\ acked'[Path(h)] = IF row[Path(h)] = None \/ Path(h) \in rm
                                THEN None ELSE hnd[h].got
         /\ \A q \in Paths : q # Path(h) => acked'[q] = acked[q]
         /\ row' \in [Paths -> Row \cup {None}]
         /\ \A q \in Paths : q # Path(h) => row'[q] = row[q]
         /\ \/ row'[Path(h)] # None /\ row'[Path(h)].dirty /\ row'[Path(h)].staged
            \/ DBFaults /\ UNCHANGED row
            \/ TornFlush /\ row[Path(h)] # None /\ row'[Path(h)] # None
<1> DEFINE n == hnd[h].node
           p == Path(h)
           g == hnd[h].got
           e == FlushEntry(h)
           u == UpdateEntry(row[p], e)
           a == IF row[p] = None \/ p \in rm THEN None ELSE g
           r == [hnd[h] EXCEPT !.pc = "open", !.dirty = FALSE, !.got = None]
           s == Snapshot(p, u, a)
           t == [node[n] EXCEPT !.size = g.len, !.staged = TRUE]
<1>1. /\ hnd[h] \in Handle /\ hnd[h].ino # None /\ n \in Nodes /\ node[n] # None
      /\ g # None
  BY DEF TypeInv, TypeOK, HandlesTypeOK, HandleShape, FlushCommit
<1>2. node[n] \in Node /\ g \in Content
  BY <1>1 DEF Handle, TypeInv, TypeOK, HandlesTypeOK
<1>3. p \in Paths /\ g.len \in Sizes
  BY <1>2 DEF Node, Content, Path
<1>4. row[p] \in Row \cup {None} /\ a \in Content \cup {None}
  BY <1>2, <1>3 DEF TypeInv, TypeOK, StorageTypeOK
<1>5. e \in Row /\ e.dirty /\ e.staged
  BY FlushEntryType DEF FlushCommit
<1>6. u \in Row /\ u.dirty /\ u.staged
  <2> HIDE DEF e
  <2> QED BY <1>4, <1>5, UpdateEntryType
<1>7. s \in Node /\ s # None /\ s.path = p
  <2> HIDE DEF u, a, p
  <2> QED BY <1>3, <1>4, <1>6, SnapshotType
<1>8. t \in Node /\ t # None /\ t.path = p
  BY <1>2, <1>3, HandlesAssumption DEF Node, Path
<1>9. r \in Handle /\ r.pc = "open" /\ r.node = n /\ r.ino = hnd[h].ino /\ ~r.dirty
  BY <1>1 DEF Handle, Pcs
<1>10. /\ hnd' = [hnd EXCEPT ![h] = r] /\ acked' = [acked EXCEPT ![p] = a]
       /\ \/ row' = [row EXCEPT ![p] = u] /\ node' = [node EXCEPT ![n] = s]
          \/ DBFaults /\ UNCHANGED row /\ node' = [node EXCEPT ![n] = t]
          \/ /\ TornFlush /\ row[p] # None
             /\ \E x \in Torn(row[p]) : /\ row' = [row EXCEPT ![p] = x]
                                        /\ node' = [node EXCEPT ![n] = Snapshot(p, x, a)]
  BY DEF FlushCommit
<1>15. ASSUME row[p] # None, NEW x \in Torn(row[p])
       PROVE  /\ x \in Row /\ Snapshot(p, x, a) \in Node
              /\ Snapshot(p, x, a) # None /\ Snapshot(p, x, a).path = p
  <2>1. row[p] \in Row
    BY <1>4, <1>15
  <2> HIDE DEF p, a
  <2>2. x \in Row
    BY <1>15, <2>1, TornType
  <2> QED BY <1>3, <1>4, <2>2, SnapshotType
<1> HIDE DEF r, s, t, u, p, a
<1>11. Continues(h, "open") /\ ~hnd'[h].dirty
  BY <1>9, <1>10 DEF Continues, OnlyHandle, TypeInv, TypeOK, HandlesTypeOK
<1>12. OnlyNode(n, p)
  <2>1. ASSUME NEW x \in Node, x # None, x.path = p, node' = [node EXCEPT ![n] = x]
        PROVE  OnlyNode(n, p)
    BY <1>1, <2>1 DEF OnlyNode, TypeInv, TypeOK, HandlesTypeOK
  <2>2. PICK x : x \in Node /\ x # None /\ x.path = p /\ node' = [node EXCEPT ![n] = x]
    BY <1>7, <1>8, <1>10, <1>15
  <2> QED BY <2>1, <2>2
<1>13. /\ acked' \in [Paths -> Content \cup {None}] /\ acked'[p] = a
       /\ \A q \in Paths : q # p => acked'[q] = acked[q]
  BY <1>3, <1>4, <1>10 DEF TypeInv, TypeOK, HandlesTypeOK
<1>14. /\ row' \in [Paths -> Row \cup {None}]
       /\ \A q \in Paths : q # p => row'[q] = row[q]
       /\ \/ row'[p] # None /\ row'[p].dirty /\ row'[p].staged
          \/ DBFaults /\ UNCHANGED row
          \/ TornFlush /\ row[p] # None /\ row'[p] # None
  <2>1. CASE UNCHANGED row /\ DBFaults
    BY <2>1 DEF TypeInv, TypeOK, StorageTypeOK
  <2>2. CASE ~(UNCHANGED row /\ DBFaults)
    <3>1. PICK x : /\ x \in Row /\ row' = [row EXCEPT ![p] = x]
                   /\ (x.dirty /\ x.staged) \/ (TornFlush /\ row[p] # None)
      BY <1>6, <1>10, <1>15, <2>2
    <3> QED BY <1>3, <3>1, StorageAssumption DEF TypeInv, TypeOK, StorageTypeOK
  <2> QED BY <2>1, <2>2
<1> QED BY <1>1, <1>11, <1>12, <1>13, <1>14 DEF p, a

LEMMA ReleaseCheckEffect ==
  ASSUME TypeInv, NEW h \in Handles, ReleaseCheck(h)
  PROVE  /\ OnlyHandle(h) /\ hnd'[h].ino = None /\ ~hnd'[h].dirty
         /\ \/ hnd'[h].pc = "closed" /\ hnd'[h].node = None
            \/ /\ hnd'[h].pc = "release" /\ hnd'[h].node = hnd[h].node
               /\ \E err \in {FALSE, DBFaults} : MayRemove(h, err)
<1>1. PICK err \in {FALSE, DBFaults} :
        hnd' = [hnd EXCEPT ![h] =
                  IF MayRemove(h, err)
                    THEN [@ EXCEPT !.pc = "release", !.ino = None] ELSE Closed]
  BY DEF ReleaseCheck
<1> DEFINE r == [hnd[h] EXCEPT !.pc = "release", !.ino = None]
           m == MayRemove(h, err)
<1>2. hnd[h] \in Handle /\ ~hnd[h].dirty
  BY DEF TypeInv, TypeOK, HandlesTypeOK, ReleaseCheck
<1>3. r \in Handle /\ r.pc = "release" /\ r.node = hnd[h].node /\ r.ino = None /\ ~r.dirty
  BY <1>2 DEF Handle, Pcs
<1>4. hnd' = [hnd EXCEPT ![h] = IF m THEN r ELSE Closed]
  BY <1>1
<1> HIDE DEF r
<1>5. CASE m
  BY <1>3, <1>4, <1>5 DEF OnlyHandle, TypeInv, TypeOK, HandlesTypeOK
<1>6. CASE ~m
  <2> HIDE DEF m
  <2> QED BY <1>4, <1>6, ClosedType DEF OnlyHandle, TypeInv, TypeOK, HandlesTypeOK
<1> QED BY <1>5, <1>6

LEMMA ReleaseRemoveEffect ==
  ASSUME TypeInv, NEW h \in Handles, ReleaseRemove(h)
  PROVE  /\ OnlyHandle(h) /\ hnd'[h].ino = None /\ ~hnd'[h].dirty
         /\ hnd'[h].pc = "closed" /\ hnd'[h].node = None
         /\ Path(h) \in Paths /\ link'[Path(h)] = None
         /\ link' \in [Paths -> Inodes \cup {None}]
         /\ \A q \in Paths : q # Path(h) => link'[q] = link[q]
<1>1. hnd[h].node \in Nodes /\ node[hnd[h].node] # None
  BY DEF TypeInv, HandleShape, ReleaseRemove
<1>2. Path(h) \in Paths
  BY <1>1 DEF TypeInv, TypeOK, HandlesTypeOK, Node, Path
<1>3. hnd' = [hnd EXCEPT ![h] = Closed] /\ link' = [link EXCEPT ![Path(h)] = None]
  BY DEF ReleaseRemove
<1> QED BY <1>2, <1>3, ClosedType
       DEF OnlyHandle, TypeInv, TypeOK, StorageTypeOK, HandlesTypeOK

-----------------------------------------------------------------------------
(* The daemon and the clock.                                               *)

LEMMA ListedType ==
  ASSUME StorageTypeOK, NEW p \in Paths, row[p] # None
  PROVE  Listed(p) \in Entry /\ Listed(p).path = p /\ Listed(p).staged = row[p].staged
BY DEF StorageTypeOK, Row, Listed, Entry

LEMMA MarkEffect ==
  ASSUME TypeInv, Mark \/ Unmark
  PROVE  /\ cur \in Entry /\ cur.path \in Paths
         /\ row' \in [Paths -> Row \cup {None}]
         /\ \A q \in Paths : q # cur.path => row'[q] = row[q]
         /\ (row'[cur.path] = None) = (row[cur.path] = None)
         /\ row[cur.path] # None =>
              \/ ~row'[cur.path].dirty /\ row'[cur.path].staged = row[cur.path].staged
              \/ DBFaults /\ row'[cur.path] = row[cur.path]
<1> DEFINE p == cur.path
           r == [row[p] EXCEPT !.dirty = FALSE, !.verified = TRUE]
           u == [row[p] EXCEPT !.dirty = FALSE]
<1>1. cur \in Entry /\ p \in Paths
  BY DEF TypeInv, TypeOK, DaemonTypeOK, DaemonShape, Mark, Unmark, Entry
<1>2. StoreFields(p, r) \/ StoreFields(p, u)
  BY DEF Mark, Unmark
<1> HIDE DEF p
<1>3. row[p] # None => /\ r \in Row /\ ~r.dirty /\ r.staged = row[p].staged
                       /\ u \in Row /\ ~u.dirty /\ u.staged = row[p].staged
  <2>1. row[p] # None => row[p] \in Row
    BY <1>1 DEF TypeInv, TypeOK, StorageTypeOK
  <2> QED BY <2>1 DEF Row
<1> HIDE DEF r, u
<1>4. CASE StoreFields(p, r)
  BY <1>1, <1>3, <1>4, StoreFieldsEffect DEF TypeInv, TypeOK, p
<1>5. CASE StoreFields(p, u)
  BY <1>1, <1>3, <1>5, StoreFieldsEffect DEF TypeInv, TypeOK, p
<1> QED BY <1>2, <1>4, <1>5

LEMMA ClearStagingEffect ==
  ASSUME TypeInv, ClearStaging
  PROVE  /\ cur \in Entry /\ cur.path \in Paths
         /\ row' \in [Paths -> Row \cup {None}]
         /\ \A q \in Paths : q # cur.path => row'[q] = row[q]
         /\ (row'[cur.path] = None) = (row[cur.path] = None)
         /\ row[cur.path] # None => row'[cur.path].dirty = row[cur.path].dirty
<1> DEFINE p == cur.path
           r == [row[p] EXCEPT !.staged = FALSE]
<1>1. cur \in Entry /\ p \in Paths
  BY DEF TypeInv, TypeOK, DaemonTypeOK, DaemonShape, ClearStaging, Entry
<1>2. StoreFields(p, r)
  BY DEF ClearStaging
<1> HIDE DEF p
<1>3. row[p] # None => r \in Row /\ r.dirty = row[p].dirty
  <2>1. row[p] # None => row[p] \in Row
    BY <1>1 DEF TypeInv, TypeOK, StorageTypeOK
  <2> QED BY <2>1 DEF Row
<1> HIDE DEF r
<1> QED BY <1>1, <1>2, <1>3, StoreFieldsEffect DEF TypeInv, TypeOK, p

LEMMA AgeEffect ==
  ASSUME TypeInv, NEW p \in Paths, Age(p)
  PROVE  row' \in [Paths -> Row \cup {None}] /\ SameFlags
<1> DEFINE r == [row[p] EXCEPT !.idle = TRUE]
<1>1. row[p] \in Row /\ row[p] # None /\ row' = [row EXCEPT ![p] = r]
  BY DEF TypeInv, TypeOK, StorageTypeOK, Age
<1>2. r \in Row /\ r.dirty = row[p].dirty /\ r.staged = row[p].staged
  BY <1>1 DEF Row
<1> HIDE DEF r
<1> QED BY <1>1, <1>2, StorageAssumption DEF SameFlags, TypeInv, TypeOK, StorageTypeOK

-----------------------------------------------------------------------------
(* Steps that read, or that change columns of no consequence.              *)

Quiet ==
  /\ SameFlags
  /\ UNCHANGED <<obj, link, data, wid, hnd, acked, rm>>
  /\ \A h \in Handles : hnd[h].pc # "closed" => Path(h)' = Path(h)

LEMMA QuietEffect ==
  ASSUME TypeInv,
         \/ \E p \in Paths, n \in Nodes : Lookup(p, n)
         \/ \E n \in Nodes : AttrRead(n) \/ AttrHead(n) \/ AttrPersist(n) \/ AttrStore(n)
         \/ \E n \in Nodes, old \in BOOLEAN : SetattrMtime(n, old)
         \/ \E u \in pend : PersistSize(u)
         \/ \E p \in Paths : Age(p)
         \/ UNCHANGED vars
  PROVE  Quiet
<1>1. ASSUME NEW p \in Paths, NEW n \in Nodes, Lookup(p, n)
      PROVE  Quiet
  BY <1>1, LookupEffect, PathType DEF Lookup, Quiet, SameFlags, OnlyNode, InUse, Path, storageVars
<1>2. ASSUME NEW n \in Nodes, AttrRead(n)
      PROVE  Quiet
  BY <1>2 DEF AttrRead, Quiet, SameFlags, Path, storageVars
<1>9. ASSUME NEW n \in Nodes, AttrStore(n)
      PROVE  Quiet
  <2>1. OnlyNode(n, node[n].path)
    BY <1>9, AttrStoreEffect
  <2> QED BY <1>9, <2>1, PathType DEF AttrStore, Quiet, SameFlags, OnlyNode, Path, storageVars
<1>3. ASSUME NEW n \in Nodes, AttrHead(n)
      PROVE  Quiet
  BY <1>3 DEF AttrHead, Quiet, SameFlags, Path, storageVars
<1>4. ASSUME NEW n \in Nodes, AttrPersist(n)
      PROVE  Quiet
  BY <1>4, AttrPersistEffect DEF AttrPersist, Quiet, Path
<1>5. ASSUME NEW n \in Nodes, NEW old \in BOOLEAN, SetattrMtime(n, old)
      PROVE  Quiet
  BY <1>5, SetattrMtimeEffect DEF SetattrMtime, Quiet, Path
<1>6. ASSUME NEW u \in pend, PersistSize(u)
      PROVE  Quiet
  BY <1>6, PersistSizeEffect DEF PersistSize, Quiet, Path
<1>7. ASSUME NEW p \in Paths, Age(p)
      PROVE  Quiet
  BY <1>7, AgeEffect DEF Age, Quiet, Path, handleVars
<1>8. CASE UNCHANGED vars
  BY <1>8 DEF vars, storageVars, handleVars, Quiet, SameFlags, Path
<1> QED BY <1>1, <1>2, <1>3, <1>4, <1>5, <1>6, <1>7, <1>8, <1>9

-----------------------------------------------------------------------------
(* The steps keep TypeInv.                                                 *)

LEMMA WriterType ==
  ASSUME TypeInv, Writer
  PROVE  FileInv' /\ phase' \in [Paths -> {"new", "created", "flushed"}]
<1> USE DEF TypeInv, FileInv
<1>1. ASSUME NEW p \in Paths, NEW n \in Nodes, NEW h \in Handles, NEW i \in Inodes,
             Create(p, n, h, i), phase' = [phase EXCEPT ![p] = "created"]
      PROVE  FileInv' /\ phase' \in [Paths -> {"new", "created", "flushed"}]
  <2>1. /\ row' \in [Paths -> Row \cup {None}]
        /\ OnlyNode(n, p) /\ OnlyHandle(h)
        /\ hnd'[h].pc = "open" /\ hnd'[h].node = n /\ hnd'[h].ino = i /\ ~hnd'[h].dirty
    BY <1>1, CreateEffect
  <2>2. StorageTypeOK'
    BY <1>1, <2>1, EmptyType DEF Create, TypeOK, StorageTypeOK
  <2>3. HandlesTypeOK'
    BY <1>1, <2>1 DEF Create, OnlyNode, OnlyHandle, TypeOK, HandlesTypeOK
  <2>4. HandleShape'
    BY <1>1, <2>1, StorageAssumption DEF Create, InUse, OnlyNode, OnlyHandle, HandleShape
  <2>5. phase' \in [Paths -> {"new", "created", "flushed"}]
    BY <1>1 DEF TypeOK
  <2> QED BY <2>2, <2>3, <2>4, <2>5
<1>2. ASSUME NEW n \in Nodes, NEW h \in Handles, NEW i \in Inodes, OpenWrite(n, h, i)
      PROVE  FileInv'
  <2>1. OnNode(n, h) /\ hnd'[h].ino = i /\ node[n] # None
    BY <1>2, OpenWriteEffect
  <2>2. StorageTypeOK'
    BY <1>2, EmptyType DEF OpenWrite, TypeOK, StorageTypeOK
  <2>3. HandlesTypeOK'
    BY <1>2, <2>1 DEF OpenWrite, OnNode, OnlyHandle, TypeOK, HandlesTypeOK
  <2>4. HandleShape'
    BY <1>2, <2>1, StorageAssumption DEF OpenWrite, OnNode, OnlyHandle, HandleShape
  <2> QED BY <2>2, <2>3, <2>4
<1>3. ASSUME NEW n \in Nodes, NEW s \in Sizes, SetattrSize(n, s)
      PROVE  FileInv'
  <2>1. /\ row' \in [Paths -> Row \cup {None}]
        /\ OnlyHead(n) /\ node[n] # None /\ head'[n].entry.path = node[n].path
        /\ acked' \in [Paths -> Content \cup {None}]
    BY <1>3, SetattrSizeEffect DEF HeadIs
  <2>2. UNCHANGED <<obj, link, data, wid, node, hnd, pend, rm>>
    BY <1>3 DEF SetattrSize
  <2>3. StorageTypeOK' /\ HandlesTypeOK' /\ HandleShape'
    BY <2>1, <2>2 DEF OnlyHead, TypeOK, StorageTypeOK, HandlesTypeOK, HandleShape
  <2> QED BY <2>3
<1>4. ASSUME NEW h \in Handles, FetchStart(h)
      PROVE  FileInv'
  <2>1. Continues(h, "fetch") /\ hnd'[h].dirty = hnd[h].dirty /\ hnd[h].ino # None
    BY <1>4, FetchStartEffect
  <2>2. StorageTypeOK' /\ HandlesTypeOK'
    BY <1>4, <2>1 DEF FetchStart, Continues, OnlyHandle, TypeOK, storageVars, StorageTypeOK, HandlesTypeOK
  <2>3. HandleShape'
    BY <1>4, <2>1 DEF FetchStart, Continues, OnlyHandle, HandleShape
  <2> QED BY <2>2, <2>3
<1>5. ASSUME NEW h \in Handles, NEW k \in Sizes, FetchCopy(h, k)
      PROVE  FileInv'
  <2>1. /\ Continues(h, "fetched") /\ hnd'[h].dirty = hnd[h].dirty /\ hnd[h].ino # None
        /\ data' \in [Inodes -> Content]
    BY <1>5, FetchCopyEffect
  <2>2. UNCHANGED <<row, obj, link, wid, node, head, pend, rm, acked>> /\ hnd[h].pc = "fetch"
    BY <1>5 DEF FetchCopy
  <2>3. StorageTypeOK' /\ HandlesTypeOK'
    BY <2>1, <2>2 DEF Continues, OnlyHandle, TypeOK, StorageTypeOK, HandlesTypeOK
  <2>4. HandleShape'
    BY <2>1, <2>2 DEF Continues, OnlyHandle, HandleShape
  <2> QED BY <2>3, <2>4
<1>6. ASSUME NEW h \in Handles, NEW b \in Blocks, Write(h, b)
      PROVE  FileInv'
  <2>1. /\ Continues(h, "open") /\ hnd'[h].dirty /\ hnd[h].ino # None
        /\ hnd[h].pc \in {"fetched", "open"}
        /\ data' \in [Inodes -> Content] /\ wid' \in Versions
        /\ OnlyNode(hnd[h].node, Path(h)) /\ node[hnd[h].node] # None
        /\ pend' \subseteq [path : Paths, size : Sizes, by : Versions]
    BY <1>6, WriteEffect
  <2>2. UNCHANGED <<row, obj, link, head, rm, acked>>
    BY <1>6 DEF Write
  <2>3. StorageTypeOK' /\ HandlesTypeOK'
    BY <2>1, <2>2 DEF Continues, OnlyHandle, OnlyNode, TypeOK, StorageTypeOK, HandlesTypeOK
  <2>4. HandleShape'
    BY <2>1, <2>2 DEF Continues, OnlyHandle, OnlyNode, HandleShape, Path
  <2> QED BY <2>3, <2>4
<1>7. ASSUME NEW h \in Handles, FlushCommit(h), phase' = [phase EXCEPT ![Path(h)] = "flushed"]
      PROVE  FileInv' /\ phase' \in [Paths -> {"new", "created", "flushed"}]
  <2>1. /\ Continues(h, "open") /\ ~hnd'[h].dirty /\ hnd[h].ino # None
        /\ OnlyNode(hnd[h].node, Path(h)) /\ node[hnd[h].node] # None
        /\ acked' \in [Paths -> Content \cup {None}]
        /\ row' \in [Paths -> Row \cup {None}]
    BY <1>7, FlushCommitEffect
  <2>2. UNCHANGED <<obj, link, data, wid, head, pend, rm>> /\ hnd[h].pc = "flush"
    BY <1>7 DEF FlushCommit
  <2>3. StorageTypeOK' /\ HandlesTypeOK'
    BY <2>1, <2>2 DEF Continues, OnlyHandle, OnlyNode, TypeOK, StorageTypeOK, HandlesTypeOK
  <2>4. HandleShape'
    BY <2>1, <2>2 DEF Continues, OnlyHandle, OnlyNode, HandleShape, Path
  <2>5. phase' \in [Paths -> {"new", "created", "flushed"}]
    BY <1>7 DEF TypeOK
  <2> QED BY <2>3, <2>4, <2>5
<1> QED BY <1>1, <1>2, <1>3, <1>4, <1>5, <1>6, <1>7 DEF Writer, TypeOK

LEMMA ClientType == ASSUME TypeInv, Client PROVE FileInv'
<1> USE DEF TypeInv, FileInv
<1>1. ASSUME NEW p \in Paths, NEW n \in Nodes, Lookup(p, n)
      PROVE  FileInv'
  <2>1. OnlyNode(n, p)
    BY <1>1, LookupEffect
  <2> QED BY <1>1, <2>1 DEF Lookup, InUse, OnlyNode, storageVars, TypeOK, StorageTypeOK, HandlesTypeOK, HandleShape
<1>2. ASSUME NEW n \in Nodes, AttrRead(n)
      PROVE  FileInv'
  <2>1. OnlyHead(n) /\ node[n] # None /\ head'[n].entry.path = node[n].path
    BY <1>2, AttrReadEffect DEF HeadIs
  <2>2. UNCHANGED <<storageVars, node, hnd, pend, rm, acked>>
    BY <1>2 DEF AttrRead
  <2> QED BY <2>1, <2>2 DEF OnlyHead, storageVars, TypeOK, StorageTypeOK, HandlesTypeOK, HandleShape
<1>3. ASSUME NEW n \in Nodes, AttrHead(n)
      PROVE  FileInv'
  <2>1. OnlyHead(n) /\ head[n] # None /\ head'[n].entry.path = head[n].entry.path
    BY <1>3, AttrHeadEffect
  <2>2. UNCHANGED <<storageVars, node, hnd, pend, rm, acked>>
    BY <1>3 DEF AttrHead
  <2> QED BY <2>1, <2>2 DEF OnlyHead, storageVars, TypeOK, StorageTypeOK, HandlesTypeOK, HandleShape
<1>4. ASSUME NEW n \in Nodes, AttrPersist(n)
      PROVE  FileInv'
  <2>1. /\ row' \in [Paths -> Row \cup {None}]
        /\ OnlyHead(n) /\ head[n] # None /\ head'[n].entry.path = head[n].entry.path
    BY <1>4, AttrPersistEffect
  <2>2. UNCHANGED <<obj, link, data, wid, node, hnd, pend, rm, acked>>
    BY <1>4 DEF AttrPersist
  <2> QED BY <2>1, <2>2 DEF OnlyHead, TypeOK, StorageTypeOK, HandlesTypeOK, HandleShape
<1>13. ASSUME NEW n \in Nodes, AttrStore(n)
       PROVE  FileInv'
  <2>1. OnlyNode(n, node[n].path) /\ OnlyHead(n) /\ head'[n] = None
    BY <1>13, AttrStoreEffect
  <2>2. UNCHANGED <<storageVars, hnd, pend, rm, acked>>
    BY <1>13 DEF AttrStore
  <2> QED BY <2>1, <2>2 DEF OnlyNode, OnlyHead, storageVars, TypeOK, StorageTypeOK, HandlesTypeOK, HandleShape
<1>5. ASSUME NEW n \in Nodes, NEW old \in BOOLEAN, SetattrMtime(n, old)
      PROVE  FileInv'
  <2>1. /\ row' \in [Paths -> Row \cup {None}] /\ node[n] # None
        /\ OnlyHead(n) /\ head'[n].entry.path = node[n].path
    BY <1>5, SetattrMtimeEffect DEF HeadIs
  <2>2. UNCHANGED <<obj, link, data, wid, node, hnd, pend, rm, acked>>
    BY <1>5 DEF SetattrMtime
  <2> QED BY <2>1, <2>2 DEF OnlyHead, TypeOK, StorageTypeOK, HandlesTypeOK, HandleShape
<1>6. ASSUME NEW n \in Nodes, NEW h \in Handles, OpenRemote(n, h) \/ OpenStaged(n, h)
      PROVE  FileInv'
  <2>1. OnNode(n, h) /\ node[n] # None
    BY <1>6, OpenRemoteEffect, OpenStagedEffect
  <2>2. UNCHANGED <<storageVars, node, head, pend, rm, acked>>
    BY <1>6 DEF OpenRemote, OpenStaged
  <2>3. StorageTypeOK' /\ HandlesTypeOK'
    BY <2>1, <2>2 DEF OnNode, OnlyHandle, storageVars, TypeOK, StorageTypeOK, HandlesTypeOK
  <2>4. HandleShape'
    BY <2>1, <2>2 DEF OnNode, OnlyHandle, HandleShape
  <2> QED BY <2>3, <2>4
<1>7. ASSUME NEW h \in Handles, FlushBegin(h)
      PROVE  FileInv'
  <2>1. /\ Continues(h, "flush") /\ hnd'[h].dirty /\ hnd[h].dirty /\ hnd[h].ino # None
        /\ hnd'[h].got # None
    BY <1>7, FlushBeginEffect
  <2>2. UNCHANGED <<storageVars, node, head, pend, rm, acked>> /\ hnd[h].pc = "open"
    BY <1>7 DEF FlushBegin
  <2>3. StorageTypeOK' /\ HandlesTypeOK'
    BY <2>1, <2>2 DEF Continues, OnlyHandle, storageVars, TypeOK, StorageTypeOK, HandlesTypeOK
  <2>4. HandleShape'
    BY <2>1, <2>2 DEF Continues, OnlyHandle, HandleShape
  <2> QED BY <2>3, <2>4
<1>8. ASSUME NEW h \in Handles, ReleaseCheck(h)
      PROVE  FileInv'
  <2>1. /\ OnlyHandle(h) /\ hnd'[h].ino = None /\ ~hnd'[h].dirty
        /\ \/ hnd'[h].pc = "closed" /\ hnd'[h].node = None
           \/ hnd'[h].pc = "release" /\ hnd'[h].node = hnd[h].node
    BY <1>8, ReleaseCheckEffect
  <2>2. UNCHANGED <<storageVars, node, head, pend, rm, acked>> /\ hnd[h].pc = "open"
    BY <1>8 DEF ReleaseCheck
  <2>3. StorageTypeOK' /\ HandlesTypeOK'
    BY <2>1, <2>2 DEF OnlyHandle, storageVars, TypeOK, StorageTypeOK, HandlesTypeOK
  <2>4. HandleShape'
    BY <2>1, <2>2 DEF OnlyHandle, HandleShape
  <2> QED BY <2>3, <2>4
<1>9. ASSUME NEW h \in Handles, ReleaseRemove(h)
      PROVE  FileInv'
  <2>1. /\ OnlyHandle(h) /\ hnd'[h].ino = None /\ ~hnd'[h].dirty
        /\ hnd'[h].pc = "closed" /\ hnd'[h].node = None
        /\ link' \in [Paths -> Inodes \cup {None}]
    BY <1>9, ReleaseRemoveEffect
  <2>2. UNCHANGED <<row, obj, data, wid, node, head, pend, rm, acked>>
    BY <1>9 DEF ReleaseRemove
  <2>3. StorageTypeOK' /\ HandlesTypeOK'
    BY <2>1, <2>2 DEF OnlyHandle, TypeOK, StorageTypeOK, HandlesTypeOK
  <2>4. HandleShape'
    BY <2>1, <2>2 DEF OnlyHandle, HandleShape
  <2> QED BY <2>3, <2>4
<1>10. ASSUME NEW u \in pend, PersistSize(u)
       PROVE  FileInv'
  <2>1. row' \in [Paths -> Row \cup {None}]
    BY <1>10, PersistSizeEffect
  <2>2. UNCHANGED <<obj, link, data, wid, node, head, hnd, rm, acked>> /\ pend' \subseteq pend
    BY <1>10 DEF PersistSize
  <2> QED BY <2>1, <2>2 DEF TypeOK, StorageTypeOK, HandlesTypeOK, HandleShape
<1>11. ASSUME NEW p \in Paths, NEW ok \in BOOLEAN, RemoveObject(p, ok)
       PROVE  FileInv'
  BY <1>11 DEF RemoveObject, TypeOK, StorageTypeOK, HandlesTypeOK, HandleShape
<1>12. ASSUME NEW p \in Paths, RemoveRow(p)
       PROVE  FileInv'
  <2>1. row' \in [Paths -> Row \cup {None}]
    BY <1>12, StoreEffect DEF RemoveRow, TypeOK
  <2>2. UNCHANGED <<obj, link, data, wid, node, head, hnd, pend, acked>> /\ rm' \subseteq rm
    BY <1>12 DEF RemoveRow
  <2> QED BY <2>1, <2>2 DEF TypeOK, StorageTypeOK, HandlesTypeOK, HandleShape
<1> QED BY <1>1, <1>2, <1>3, <1>4, <1>5, <1>6, <1>7, <1>8, <1>9, <1>10, <1>11, <1>12, <1>13
        DEF Client

LEMMA DaemonType ==
  ASSUME TypeInv, DaemonNext
  PROVE  StorageTypeOK' /\ DaemonTypeOK' /\ DaemonShape'
<1> USE DEF TypeInv, TypeOK
<1> DEFINE Goal == StorageTypeOK' /\ DaemonTypeOK' /\ DaemonShape'
<1>1. CASE ListDirty \/ ListClean
  <2>1. todo' \subseteq Entry
    BY <1>1, ListedType DEF ListDirty, ListClean
  <2>2. /\ UNCHANGED <<storageVars, cur, ino, buf>>
        /\ pc \in {"sleep", "upload"} /\ pc' \in {"upload", "evict"}
    BY <1>1 DEF ListDirty, ListClean
  <2>3. StorageTypeOK' /\ DaemonTypeOK'
    BY <2>1, <2>2 DEF storageVars, StorageTypeOK, DaemonTypeOK, DaemonPcs
  <2>4. DaemonShape'
    BY <2>2 DEF DaemonShape
  <2> QED BY <2>3, <2>4
<1>2. CASE UploadRead
  <2>1. ino \in Inodes /\ data[ino] \in Content /\ data[ino] # None
    BY <1>2, StorageAssumption DEF UploadRead, DaemonShape, DaemonTypeOK, StorageTypeOK
  <2> QED BY <1>2, <2>1, StorageAssumption
          DEF UploadRead, storageVars, StorageTypeOK, DaemonTypeOK, DaemonPcs, DaemonShape
<1>3. CASE PutOk \/ PutFail
  <2>1. cur \in Entry /\ cur.path \in Paths /\ buf \in Content
    BY <1>3 DEF PutOk, PutFail, DaemonShape, DaemonTypeOK, Entry
  <2>2. obj' = [obj EXCEPT ![cur.path] = buf] \/ UNCHANGED obj
    BY <1>3 DEF PutOk, PutFail
  <2>3. UNCHANGED <<row, link, data, wid>>
    BY <1>3 DEF PutOk, PutFail
  <2>4. StorageTypeOK'
    BY <2>1, <2>2, <2>3 DEF StorageTypeOK
  <2>5. DaemonTypeOK' /\ DaemonShape'
    BY <1>3 DEF PutOk, PutFail, Proceed, DaemonTypeOK, DaemonShape, DaemonPcs
  <2> QED BY <2>4, <2>5
<1>4. CASE Mark \/ Unmark
  <2>1. row' \in [Paths -> Row \cup {None}]
    BY <1>4, MarkEffect
  <2>2. UNCHANGED <<obj, link, data, wid>> /\ Proceed("upload")
    BY <1>4 DEF Mark, Unmark
  <2> QED BY <2>1, <2>2 DEF StorageTypeOK, Proceed, DaemonTypeOK, DaemonShape, DaemonPcs
<1>5. CASE RemoveStaging
  <2>1. cur \in Entry /\ cur.path \in Paths
    BY <1>5 DEF RemoveStaging, DaemonShape, DaemonTypeOK, Entry
  <2> QED BY <1>5, <2>1 DEF RemoveStaging, StorageTypeOK, DaemonTypeOK, DaemonShape, DaemonPcs
<1>6. CASE ClearStaging
  <2>1. row' \in [Paths -> Row \cup {None}]
    BY <1>6, ClearStagingEffect
  <2>2. UNCHANGED <<obj, link, data, wid>> /\ Proceed("evict")
    BY <1>6 DEF ClearStaging
  <2> QED BY <2>1, <2>2 DEF StorageTypeOK, Proceed, DaemonTypeOK, DaemonShape, DaemonPcs
<1>7. CASE SweepDone
  BY <1>7 DEF SweepDone, storageVars, StorageTypeOK, DaemonTypeOK, DaemonShape, DaemonPcs
<1>8. ASSUME NEW e \in todo, OpenStaging(e)
      PROVE  Goal
  <2>1. e \in Entry /\ e.path \in Paths /\ e # None
    BY DaemonAssumption DEF DaemonTypeOK, Entry
  <2>2. UNCHANGED <<storageVars, buf>> /\ cur' = e /\ todo' = todo \ {e} /\ pc = "upload"
    BY <1>8 DEF OpenStaging
  <2>3. \/ pc' = "read" /\ ino' \in Inodes /\ ino' # None
        \/ pc' = "unmark" /\ ino' = None
    BY <1>8, <2>1 DEF OpenStaging, StorageTypeOK
  <2> QED BY <2>1, <2>2, <2>3 DEF storageVars, StorageTypeOK, DaemonTypeOK, DaemonShape, DaemonPcs
<1>9. ASSUME NEW e \in todo, Inspect(e)
      PROVE  Goal
  <2>1. e \in Entry /\ e # None
    BY DaemonAssumption DEF DaemonTypeOK
  <2> QED BY <1>9, <2>1 DEF Inspect, storageVars, StorageTypeOK, DaemonTypeOK, DaemonShape, DaemonPcs
<1> QED BY <1>1, <1>2, <1>3, <1>4, <1>5, <1>6, <1>7, <1>8, <1>9 DEF DaemonNext

LEMMA TypeInit == Init => TypeInv
<1> SUFFICES ASSUME Init PROVE TypeInv
  OBVIOUS
<1>1. PICK synced \in SUBSET Paths :
        /\ StorageInit(synced) /\ HandlesInit(synced)
        /\ phase = [p \in Paths |-> IF p \in synced THEN "flushed" ELSE "new"]
  BY DEF Init
<1>2. SyncedRow \in Row /\ SyncedContent \in Content /\ 1 \in Versions
  BY StorageAssumption DEF SyncedRow, SyncedContent, Row, Content, Sizes, Versions
<1>3. StorageTypeOK
  BY <1>1, <1>2, EmptyType DEF StorageInit, StorageTypeOK
<1>4. HandlesTypeOK /\ HandleShape
  BY <1>1, <1>2, ClosedType DEF HandlesInit, HandlesTypeOK, HandleShape
<1>5. DaemonTypeOK /\ DaemonShape
  BY DEF Init, DaemonInit, DaemonTypeOK, DaemonShape, DaemonPcs
<1>6. phase \in [Paths -> {"new", "created", "flushed"}] /\ raced \subseteq Paths
      /\ crashes \in 0 .. MaxCrashes
  BY <1>1, WriteBackAssumption DEF Init
<1> QED BY <1>3, <1>4, <1>5, <1>6 DEF TypeInv, TypeOK

\* Whatever is noted of races: others than WriteBack's may be.
LEMMA TypeKept ==
  ASSUME TypeInv, Requests \/ WriteBackStep \/ Clock \/ Crash, raced' \subseteq Paths
  PROVE  TypeInv'
<1> USE DEF TypeInv
<1>1. CASE Requests
  <2>1. FileInv' /\ phase' \in [Paths -> {"new", "created", "flushed"}]
    BY <1>1, WriterType, ClientType DEF Requests, TypeOK
  <2>2. UNCHANGED <<daemonVars, crashes>>
    BY <1>1 DEF Requests
  <2>3. DaemonTypeOK' /\ DaemonShape' /\ crashes' \in 0 .. MaxCrashes
    BY <2>2 DEF daemonVars, TypeOK, DaemonTypeOK, DaemonShape
  <2> QED BY <2>1, <2>3 DEF TypeOK, FileInv
<1>2. CASE WriteBackStep
  <2>1. StorageTypeOK' /\ DaemonTypeOK' /\ DaemonShape'
    BY <1>2, DaemonType DEF WriteBackStep
  <2>2. UNCHANGED <<handleVars, phase, crashes>>
    BY <1>2 DEF WriteBackStep
  <2>3. HandlesTypeOK' /\ HandleShape'
    BY <2>2 DEF handleVars, TypeOK, HandlesTypeOK, HandleShape
  <2> QED BY <2>1, <2>2, <2>3 DEF TypeOK
<1>3. CASE Clock
  <2>1. PICK p \in Paths : Age(p) /\ UNCHANGED <<phase, crashes>>
    BY <1>3 DEF Clock
  <2>2. row' \in [Paths -> Row \cup {None}]
    BY <2>1, AgeEffect
  <2>3. UNCHANGED <<obj, link, data, wid, handleVars, daemonVars, phase, crashes>>
    BY <2>1 DEF Age
  <2>4. HandlesTypeOK' /\ HandleShape' /\ DaemonTypeOK' /\ DaemonShape'
    BY <2>3 DEF handleVars, daemonVars, TypeOK, HandlesTypeOK, HandleShape, DaemonTypeOK, DaemonShape
  <2> QED BY <2>2, <2>3, <2>4 DEF TypeOK, StorageTypeOK
<1>4. CASE Crash
  <2>1. StorageTypeOK' /\ phase' = phase /\ acked' = acked
    BY <1>4 DEF Crash, storageVars, TypeOK, StorageTypeOK
  <2>2. crashes' \in 0 .. MaxCrashes
    BY <1>4, WriteBackAssumption DEF Crash, TypeOK
  <2>3. HandlesTypeOK' /\ HandleShape'
    BY <1>4, <2>1, ClosedType DEF Crash, TypeOK, HandlesTypeOK, HandleShape
  <2>4. DaemonTypeOK' /\ DaemonShape'
    BY <1>4 DEF Crash, DaemonTypeOK, DaemonShape, DaemonPcs
  <2> QED BY <2>1, <2>2, <2>3, <2>4 DEF TypeOK
<1> QED BY <1>1, <1>2, <1>3, <1>4

LEMMA TypeStep == TypeInv /\ [Next]_vars => TypeInv'
<1> SUFFICES ASSUME TypeInv, [Next]_vars PROVE TypeInv'
  OBVIOUS
<1>1. CASE UNCHANGED vars
  BY <1>1 DEF vars, storageVars, handleVars, daemonVars, TypeInv, TypeOK, StorageTypeOK,
              HandlesTypeOK, DaemonTypeOK, HandleShape, DaemonShape
<1>2. NoteRaces => raced' \subseteq Paths
  BY DEF NoteRaces, TypeInv, TypeOK
<1> QED BY <1>1, <1>2, TypeKept DEF Next

\* In every run, for all values of the constants, each variable has its type,
\* and no handler or daemon step finds nil where it dereferences.
THEOREM TypeCorrect == Spec => []TypeInv
<1>1. Init => TypeInv
  BY TypeInit
<1>2. TypeInv /\ [Next]_vars => TypeInv'
  BY TypeStep
<1> QED BY <1>1, <1>2, PTL DEF Spec

\* The type invariant that the runs check.
THEOREM TypeSafe == Spec => []TypeOK
<1>1. TypeInv => TypeOK
  BY DEF TypeInv
<1> QED BY <1>1, TypeCorrect, PTL
=============================================================================
