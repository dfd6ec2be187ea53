--------------------------- MODULE WriteBackRaces ---------------------------
(***************************************************************************)
(* Durability under any workload, with a database that may fail, for any   *)
(* number of files, nodes, handles, inodes, blocks, writes and crashes:    *)
(* the promise of a close is broken only by a race on that file.           *)
(*                                                                         *)
(* The invariant says, of a file no race has happened on, that a dirty row *)
(* names the content promised and a clean row means it is uploaded; that   *)
(* the handles in use hold the linked file; that what a Flush has read is  *)
(* still in it; and that what the daemon uploads is dirty until it marks   *)
(* it.  The inodes, and who holds them, are in order in any case.          *)
(*                                                                         *)
(* The lemmas about one step are stated for any handles B of which it is   *)
(* not said what they hold, and any contents X that do not count, so that  *)
(* CompositionProofs can use them beside a rename.  Here B is empty.       *)
(***************************************************************************)
EXTENDS WriteBackTypes

\* A content made of writes that have happened.
Written(c) == \A b \in Blocks : c.blk[b] <= wid

WrittenInv ==
  /\ \A i \in Inodes : Written(data[i])
  /\ \A p \in Paths : (obj[p] # None => Written(obj[p])) /\ (acked[p] # None => Written(acked[p]))
  /\ \A h \in Handles : hnd[h].got # None => Written(hnd[h].got)
  /\ buf # None => Written(buf)

\* A file that is being removed promises nothing.
RemovedInv == \A p \in rm : acked[p] = None

\* A dirty row names the content promised, a clean one means it is uploaded.
\* X says of each path which contents do not count: those without data.
Kept(p, X) ==
  /\ acked[p].len > 0
  /\ IF Dirty(p) THEN Waiting(p) /\ data[link[p]] \notin X[p] ELSE Uploaded(p)

NoData == [p \in Paths |-> {c \in Content : c.len = 0}]

KeptInv == \A p \in Paths \ raced : acked[p] # None => Kept(p, NoData)

\* A linked inode belongs to one path, and to the handles of that path.
LinkedInv ==
  \A p \in Paths : link[p] # None =>
    /\ \A q \in Paths : link[q] = link[p] => q = p
    /\ \A h \in Handles : hnd[h].ino = link[p] => Path(h) = p

\* A handle holds the linked file, a written one has data, and a Flush what it
\* is about to promise.
HeldBy(h, X) ==
  /\ hnd[h].ino = link[Path(h)]
  /\ hnd[h].dirty => data[hnd[h].ino] \notin X[Path(h)]
  /\ hnd[h].pc = "flush" => Covers(data[hnd[h].ino], hnd[h].got) /\ hnd[h].got.len > 0

\* Of the handles B that is not said.
HeldOff(B, X) ==
  \A h \in Handles :
    /\ hnd[h].pc = "flush" => hnd[h].dirty
    /\ hnd[h].ino # None /\ h \notin B /\ Path(h) \notin raced => HeldBy(h, X)

HeldInv == HeldOff({}, NoData)

Uploads == {"upload", "read", "put", "mark", "unmark"}

\* What is listed for upload stays dirty until it is marked, and each file is
\* listed once.
UploadInv ==
  /\ pc \in {"sleep", "upload", "evict"} => cur = None
  /\ \A e, f \in todo : e.path = f.path => e = f
  /\ cur # None => \A e \in todo : e.path # cur.path
  /\ pc \in Uploads => \A e \in todo : e.path \in raced \/ Dirty(e.path) \/ acked[e.path] = None
  /\ pc \in Uploads /\ cur # None => cur.path \in raced \/ Dirty(cur.path) \/ acked[cur.path] = None

\* What was put is in the bucket until it is marked, or it has been removed.
PutInv == pc = "mark" => obj[cur.path] \in {buf, None}

RaceInv ==
  /\ WrittenInv /\ RemovedInv /\ PutInv /\ KeptInv /\ LinkedInv /\ HeldInv /\ UploadInv

-----------------------------------------------------------------------------
(* What the races leave alone: the versions, the removals, the inodes.     *)

\* What was written is written still.
LEMMA WrittenLater ==
  ASSUME TypeInv, wid' \in {wid, wid + 1}, NEW c \in Content, Written(c)
  PROVE  \A b \in Blocks : c.blk[b] <= wid'
BY StorageAssumption DEF Written, Content, Versions, TypeInv, TypeOK, StorageTypeOK

\* The contents of a step are those there were, and new ones that are written.
LEMMA WrittenFrame ==
  ASSUME TypeInv, WrittenInv, wid' \in {wid, wid + 1},
         \A i \in Inodes : data'[i] = data[i] \/ \A b \in Blocks : data'[i].blk[b] <= wid',
         \A p \in Paths : obj'[p] \in {obj[p], buf, None},
         \A p \in Paths : acked'[p] = acked[p] \/ acked'[p] = None
                            \/ \E h \in Handles : acked'[p] = hnd[h].got,
         \A h \in Handles : \/ hnd'[h].got \in {hnd[h].got, None}
                            \/ \E i \in Inodes : hnd'[h].got = data[i]
                            \/ \E p \in Paths : hnd'[h].got = obj[p],
         buf' \in {buf, None} \/ \E i \in Inodes : buf' = data[i]
  PROVE  WrittenInv'
<1> DEFINE Old(c) == c \in Content /\ Written(c)
<1>1. \A c : Old(c) => \A b \in Blocks : c.blk[b] <= wid'
  BY WrittenLater
<1>2. /\ \A i \in Inodes : Old(data[i])
      /\ \A p \in Paths : (obj[p] # None => Old(obj[p])) /\ (acked[p] # None => Old(acked[p]))
      /\ \A h \in Handles : hnd[h].got # None => Old(hnd[h].got)
      /\ buf # None => Old(buf)
  BY DEF WrittenInv, TypeInv, TypeOK, StorageTypeOK, HandlesTypeOK, DaemonTypeOK, Handle
<1> HIDE DEF Old
<1>3. /\ \A i \in Inodes : Written(data[i])'
      /\ \A p \in Paths : (obj'[p] # None => Written(obj[p])') /\ (acked'[p] # None => Written(acked[p])')
      /\ \A h \in Handles : hnd'[h].got # None => Written(hnd[h].got)'
      /\ buf' # None => Written(buf)'
  BY <1>1, <1>2 DEF Written
<1> QED BY <1>3 DEF WrittenInv

LEMMA WriterWritten ==
  ASSUME TypeInv, WrittenInv, Writer, UNCHANGED daemonVars
  PROVE  WrittenInv'
<1> USE DEF daemonVars, storageVars
<1>1. ASSUME NEW n \in Nodes, NEW h \in Handles, NEW i \in Inodes,
             OpenWrite(n, h, i) \/ \E p \in Paths : Create(p, n, h, i)
      PROVE  WrittenInv'
  <2>1. /\ UNCHANGED <<obj, wid, acked, buf>>
        /\ data' \in {data, [data EXCEPT ![i] = Empty]}
    BY <1>1 DEF Create, OpenWrite
  <2>2. \A j \in Inodes : data'[j] = data[j] \/ data'[j] = Empty
    BY <2>1 DEF TypeInv, TypeOK, StorageTypeOK
  <2>3. \A b \in Blocks : Empty.blk[b] <= wid'
    BY <2>1, StorageAssumption DEF Empty, TypeInv, TypeOK, StorageTypeOK, Versions
  <2>4. hnd' = [hnd EXCEPT ![h] = Opened(n, i)]
          \/ hnd' = [hnd EXCEPT ![h] = [Closed EXCEPT !.pc = "open", !.node = n, !.ino = i]]
    BY <1>1 DEF Create, OpenWrite
  <2>5. \A o \in Handles : hnd'[o].got \in {hnd[o].got, None}
    BY <2>4 DEF TypeInv, TypeOK, HandlesTypeOK, Opened, Closed
  <2> QED BY <2>1, <2>2, <2>3, <2>5, WrittenFrame
<1>2. ASSUME NEW n \in Nodes, NEW z \in Sizes, SetattrSize(n, z)
      PROVE  WrittenInv'
  <2>1. /\ UNCHANGED <<obj, data, wid, hnd, buf>>
        /\ acked' = [acked EXCEPT ![node[n].path] = None]
    BY <1>2 DEF SetattrSize
  <2>2. \A p \in Paths : acked'[p] \in {acked[p], None}
    BY <2>1 DEF TypeInv, TypeOK, HandlesTypeOK
  <2> QED BY <2>1, <2>2, WrittenFrame
<1>3. ASSUME NEW h \in Handles, FetchStart(h)
      PROVE  WrittenInv'
  <2>1. UNCHANGED <<obj, data, wid, acked, buf>>
    BY <1>3 DEF FetchStart
  <2>2. PICK g \in {obj[Path(h)], None} : hnd' = [hnd EXCEPT ![h].pc = "fetch", ![h].got = g]
    BY <1>3 DEF FetchStart
  <2>3. Path(h) \in Paths
    BY <1>3, PathType DEF FetchStart
  <2>4. \A o \in Handles : IF o = h THEN hnd'[o].got = g ELSE hnd'[o] = hnd[o]
    BY <2>2 DEF TypeInv, TypeOK, HandlesTypeOK, Handle
  <2>5. \A o \in Handles : \/ hnd'[o].got \in {hnd[o].got, None}
                           \/ \E p \in Paths : hnd'[o].got = obj[p]
    BY <2>3, <2>4
  <2> QED BY <2>1, <2>5, WrittenFrame
<1>4. ASSUME NEW h \in Handles, NEW k \in Sizes, FetchCopy(h, k)
      PROVE  WrittenInv'
  <2> DEFINE g == hnd[h].got
             i == hnd[h].ino
  <2>1. /\ UNCHANGED <<obj, wid, acked, buf>>
        /\ UNCHANGED data \/ (g # None /\ data' = [data EXCEPT ![i] = Overlay(data[i], g, k)])
        /\ hnd' = [hnd EXCEPT ![h].pc = "fetched", ![h].got = None, ![h].once = TRUE]
    BY <1>4 DEF FetchCopy
  <2>2. i \in Inodes
    BY <1>4, FetchCopyEffect DEF TypeInv, TypeOK, HandlesTypeOK, Handle
  <2>3. g # None => \A b \in Blocks : Overlay(data[i], g, k).blk[b] <= wid
    BY <2>2 DEF WrittenInv, Written, Overlay
  <2>4. \A j \in Inodes : data'[j] = data[j] \/ \A b \in Blocks : data'[j].blk[b] <= wid'
    <3> DEFINE c == Overlay(data[i], g, k)
    <3>1. g # None => \A b \in Blocks : c.blk[b] <= wid
      BY <2>3
    <3>2. UNCHANGED data \/ (g # None /\ data' = [data EXCEPT ![i] = c])
      BY <2>1
    <3> HIDE DEF c, g, i
    <3>3. \A j \in Inodes : data'[j] = data[j] \/ (g # None /\ data'[j] = c)
      BY <3>2 DEF TypeInv, TypeOK, StorageTypeOK
    <3> QED BY <2>1, <3>1, <3>3
  <2>5. \A o \in Handles : hnd'[o].got \in {hnd[o].got, None}
    BY <2>1 DEF TypeInv, TypeOK, HandlesTypeOK, Handle
  <2> QED BY <2>1, <2>4, <2>5, WrittenFrame
<1>5. ASSUME NEW h \in Handles, NEW b \in Blocks, Write(h, b)
      PROVE  WrittenInv'
  <2> DEFINE i == hnd[h].ino
             c == WriteBlock(data[i], b, wid + 1)
  <2>1. /\ UNCHANGED <<obj, acked, buf>> /\ wid' = wid + 1
        /\ data' = [data EXCEPT ![i] = c]
        /\ hnd' = [hnd EXCEPT ![h].pc = "open", ![h].once = TRUE, ![h].dirty = TRUE]
    BY <1>5 DEF Write
  <2>2. i \in Inodes
    BY <1>5, WriteEffect DEF TypeInv, TypeOK, HandlesTypeOK, Handle
  <2>3. \A x \in Blocks : c.blk[x] <= wid'
    <3>1. data[i] \in Content /\ Written(data[i]) /\ wid \in Nat
      BY <2>2, StorageAssumption DEF WrittenInv, TypeInv, TypeOK, StorageTypeOK, Versions
    <3> QED BY <2>1, <3>1, StorageAssumption DEF Written, WriteBlock, Content, Versions
  <2> HIDE DEF c, i
  <2>4. \A j \in Inodes : data'[j] = data[j] \/ data'[j] = c
    BY <2>1 DEF TypeInv, TypeOK, StorageTypeOK
  <2>5. \A o \in Handles : hnd'[o].got = hnd[o].got
    BY <2>1 DEF TypeInv, TypeOK, HandlesTypeOK, Handle
  <2> QED BY <2>1, <2>3, <2>4, <2>5, WrittenFrame
<1>6. ASSUME NEW h \in Handles, FlushCommit(h)
      PROVE  WrittenInv'
  <2>1. UNCHANGED <<obj, data, wid, buf>>
        /\ hnd' = [hnd EXCEPT ![h].pc = "open", ![h].dirty = FALSE, ![h].got = None]
    BY <1>6 DEF FlushCommit
  <2>2. \A p \in Paths : acked'[p] \in {acked[p], None, hnd[h].got}
    BY <1>6, FlushCommitEffect
  <2>3. \A o \in Handles : hnd'[o].got \in {hnd[o].got, None}
    BY <2>1 DEF TypeInv, TypeOK, HandlesTypeOK, Handle
  <2> QED BY <2>1, <2>2, <2>3, WrittenFrame
<1> QED BY <1>1, <1>2, <1>3, <1>4, <1>5, <1>6 DEF Writer

LEMMA ClientWritten ==
  ASSUME TypeInv, WrittenInv, Client, UNCHANGED daemonVars
  PROVE  WrittenInv'
<1> USE DEF daemonVars, storageVars
<1>1. UNCHANGED <<data, wid, buf>>
  BY DEF Client, Lookup, AttrRead, AttrHead, AttrPersist, AttrStore, SetattrMtime, OpenRemote, OpenStaged,
     FlushBegin, ReleaseCheck, ReleaseRemove, PersistSize, RemoveObject, RemoveRow
<1>2. \A p \in Paths : obj'[p] \in {obj[p], None} /\ acked'[p] \in {acked[p], None}
  <2>1. \/ UNCHANGED <<obj, acked>>
        \/ \E p \in Paths : obj' = [obj EXCEPT ![p] = None] /\ acked' = [acked EXCEPT ![p] = None]
    BY DEF Client, Lookup, AttrRead, AttrHead, AttrPersist, AttrStore, SetattrMtime, OpenRemote, OpenStaged,
       FlushBegin, ReleaseCheck, ReleaseRemove, PersistSize, RemoveObject, RemoveRow
  <2> QED BY <2>1 DEF TypeInv, TypeOK, StorageTypeOK, HandlesTypeOK
<1>3. \A h \in Handles : \/ hnd'[h].got \in {hnd[h].got, None}
                         \/ \E i \in Inodes : hnd'[h].got = data[i]
  <2>1. ASSUME NEW n \in Nodes, NEW h \in Handles, OpenRemote(n, h) \/ OpenStaged(n, h)
        PROVE  \A o \in Handles : hnd'[o].got \in {hnd[o].got, None}
    BY <2>1 DEF OpenRemote, OpenStaged, Opened, Closed, TypeInv, TypeOK, HandlesTypeOK
  <2>2. ASSUME NEW h \in Handles, FlushBegin(h)
        PROVE  \A o \in Handles : hnd'[o].got = hnd[o].got \/ \E i \in Inodes : hnd'[o].got = data[i]
    <3>1. Continues(h, "flush") /\ hnd[h].ino # None /\ hnd'[h].got = data[hnd[h].ino]
      BY <2>2, FlushBeginEffect
    <3> QED BY <3>1 DEF Continues, OnlyHandle, TypeInv, TypeOK, HandlesTypeOK, Handle
  <2>3. ASSUME NEW h \in Handles, ReleaseCheck(h) \/ ReleaseRemove(h)
        PROVE  \A o \in Handles : hnd'[o].got \in {hnd[o].got, None}
    <3> DEFINE r == [hnd[h] EXCEPT !.pc = "release", !.ino = None]
    <3>1. r.got = hnd[h].got /\ Closed.got = None
      BY DEF Closed, TypeInv, TypeOK, HandlesTypeOK, Handle
    <3>2. hnd' = [hnd EXCEPT ![h] = r] \/ hnd' = [hnd EXCEPT ![h] = Closed]
      BY <2>3 DEF ReleaseCheck, ReleaseRemove
    <3> HIDE DEF r
    <3> QED BY <3>1, <3>2 DEF TypeInv, TypeOK, HandlesTypeOK
  <2>4. CASE UNCHANGED hnd
    BY <2>4
  <2> QED BY <2>1, <2>2, <2>3, <2>4 DEF Client, Lookup, AttrRead, AttrHead, AttrPersist, AttrStore,
          SetattrMtime, PersistSize, RemoveObject, RemoveRow
<1> QED BY <1>1, <1>2, <1>3, WrittenFrame

LEMMA DaemonWritten ==
  ASSUME TypeInv, WrittenInv, DaemonNext, UNCHANGED handleVars
  PROVE  WrittenInv'
<1>1. UNCHANGED <<data, wid, acked, hnd>>
  BY DEF handleVars, storageVars, DaemonNext, ListDirty, OpenStaging, UploadRead, PutOk, PutFail, Mark,
     Unmark, ListClean, Inspect, RemoveStaging, ClearStaging, SweepDone
<1>2. \A p \in Paths : obj'[p] \in {obj[p], buf}
  <2>1. UNCHANGED obj \/ obj' = [obj EXCEPT ![cur.path] = buf]
    BY DEF storageVars, DaemonNext, ListDirty, OpenStaging, UploadRead, PutOk, PutFail, Mark,
       Unmark, ListClean, Inspect, RemoveStaging, ClearStaging, SweepDone
  <2> QED BY <2>1 DEF TypeInv, TypeOK, StorageTypeOK
<1>3. buf' \in {buf, None} \/ \E i \in Inodes : buf' = data[i]
  BY DEF DaemonNext, ListDirty, OpenStaging, UploadRead, PutOk, PutFail, Mark,
     Unmark, ListClean, Inspect, RemoveStaging, ClearStaging, SweepDone, Proceed,
     TypeInv, TypeOK, DaemonTypeOK, DaemonShape
<1> QED BY <1>1, <1>2, <1>3, WrittenFrame

\* Only the daemon puts an object.
LEMMA PutFrame ==
  ASSUME TypeInv, PutInv, UNCHANGED daemonVars, \A p \in Paths : obj'[p] \in {obj[p], None}
  PROVE  PutInv'
<1>1. pc = "mark" => cur.path \in Paths
  BY EntryType DEF TypeInv, DaemonShape
<1> QED BY <1>1 DEF PutInv, daemonVars

LEMMA RequestsPut ==
  ASSUME TypeInv, PutInv, UNCHANGED daemonVars, Writer \/ Client
  PROVE  PutInv'
<1>1. ASSUME NEW p \in Paths, NEW ok \in BOOLEAN, RemoveObject(p, ok)
      PROVE  PutInv'
  <2>1. obj' = [obj EXCEPT ![p] = None]
    BY <1>1 DEF RemoveObject
  <2> QED BY <2>1, PutFrame DEF TypeInv, TypeOK, StorageTypeOK
<1>2. CASE UNCHANGED obj
  BY <1>2, PutFrame
<1>3. CASE Writer
  BY <1>2, <1>3 DEF Writer, Create, OpenWrite, SetattrSize, FetchStart, FetchCopy, Write,
     FlushCommit, storageVars
<1>4. CASE Client
  BY <1>1, <1>2, <1>4
     DEF Client, Lookup, AttrRead, AttrHead, AttrPersist, AttrStore, SetattrMtime, OpenRemote, OpenStaged,
         FlushBegin, ReleaseCheck, ReleaseRemove, PersistSize, RemoveRow, storageVars
<1> QED BY <1>3, <1>4

LEMMA DaemonPut ==
  ASSUME TypeInv, DaemonNext
  PROVE  PutInv'
<1>1. CASE PutOk
  <2>1. obj' = [obj EXCEPT ![cur.path] = buf] /\ UNCHANGED <<cur, buf>> /\ pc = "put"
    BY <1>1 DEF PutOk
  <2>2. cur.path \in Paths
    BY <2>1, EntryType DEF TypeInv, DaemonShape
  <2> QED BY <2>1, <2>2 DEF PutInv, TypeInv, TypeOK, StorageTypeOK
<1>2. CASE pc' # "mark"
  BY <1>2 DEF PutInv
<1> QED BY <1>1, <1>2 DEF DaemonNext, ListDirty, OpenStaging, UploadRead, PutFail, Mark,
     Unmark, ListClean, Inspect, RemoveStaging, ClearStaging, SweepDone, Proceed

\* A removal is under way only where nothing is promised.
LEMMA RemovedFrame ==
  ASSUME RemovedInv,
         \A p \in rm' : acked'[p] = None \/ (p \in rm /\ acked'[p] = acked[p])
  PROVE  RemovedInv'
BY DEF RemovedInv

LEMMA RemovedKept ==
  ASSUME TypeInv, RemovedInv,
         Writer \/ Client \/ (DaemonNext /\ UNCHANGED handleVars) \/ \E p \in Paths : Age(p)
  PROVE  RemovedInv'
<1>1. CASE UNCHANGED <<rm, acked>>
  BY <1>1, RemovedFrame
<1>2. ASSUME NEW n \in Nodes, NEW z \in Sizes, SetattrSize(n, z)
      PROVE  RemovedInv'
  <2>1. UNCHANGED rm /\ acked' = [acked EXCEPT ![node[n].path] = None]
    BY <1>2 DEF SetattrSize
  <2>2. \A p \in Paths : acked'[p] \in {acked[p], None}
    BY <2>1 DEF TypeInv, TypeOK, HandlesTypeOK
  <2> QED BY <2>1, <2>2, RemovedFrame DEF TypeInv, TypeOK, HandlesTypeOK
<1>3. ASSUME NEW h \in Handles, FlushCommit(h)
      PROVE  RemovedInv'
  <2>1. /\ \A q \in Paths : q # Path(h) => acked'[q] = acked[q]
        /\ acked'[Path(h)] = None \/ Path(h) \notin rm
    BY <1>3, FlushCommitEffect
  <2>2. UNCHANGED rm
    BY <1>3 DEF FlushCommit
  <2> QED BY <2>1, <2>2, RemovedFrame DEF TypeInv, TypeOK, HandlesTypeOK
<1>4. ASSUME NEW p \in Paths, NEW ok \in BOOLEAN, RemoveObject(p, ok)
      PROVE  RemovedInv'
  <2>1. acked' = [acked EXCEPT ![p] = None] /\ rm' \subseteq rm \cup {p}
    BY <1>4 DEF RemoveObject
  <2>2. acked'[p] = None /\ \A q \in Paths : q # p => acked'[q] = acked[q]
    BY <2>1 DEF TypeInv, TypeOK, HandlesTypeOK
  <2> QED BY <2>1, <2>2, RemovedFrame DEF TypeInv, TypeOK, HandlesTypeOK
<1>5. ASSUME NEW p \in Paths, RemoveRow(p)
      PROVE  RemovedInv'
  BY <1>5, RemovedFrame DEF RemoveRow
<1>6. CASE Writer
  BY <1>1, <1>2, <1>3, <1>6 DEF Writer, Create, OpenWrite, FetchStart, FetchCopy, Write, storageVars
<1>7. CASE Client
  BY <1>1, <1>4, <1>5, <1>7
     DEF Client, Lookup, AttrRead, AttrHead, AttrPersist, AttrStore, SetattrMtime, OpenRemote, OpenStaged,
         FlushBegin, ReleaseCheck, ReleaseRemove, PersistSize
<1> QED BY <1>1, <1>6, <1>7 DEF Age, handleVars

\* A name is kept or loses its inode, and a handle keeps its inode, loses it,
\* or takes the one that is linked.
LEMMA LinkedFrame ==
  ASSUME LinkedInv,
         \A p \in Paths : link'[p] \in {link[p], None},
         \A h \in Handles :
           \/ hnd'[h].ino = None
           \/ hnd'[h].ino = hnd[h].ino /\ Path(h)' = Path(h)
           \/ Path(h)' \in Paths /\ hnd'[h].ino = link[Path(h)']
  PROVE  LinkedInv'
BY DEF LinkedInv

\* A new handle h on p takes the linked inode, or links a free one.
LEMMA TakeInode ==
  ASSUME TypeInv, LinkedInv, NEW p \in Paths, NEW h \in Handles, NEW i \in Inodes,
         IF link[p] # None THEN i = link[p] ELSE FreeInode(i),
         link' = [link EXCEPT ![p] = i],
         OnlyHandle(h), hnd'[h].ino = i, Path(h)' = p,
         \A o \in Handles : o # h /\ hnd[o].pc # "closed" => Path(o)' = Path(o)
  PROVE  LinkedInv'
<1>1. link'[p] = i /\ (\A q \in Paths : q # p => link'[q] = link[q]) /\ i # None
  BY StorageAssumption DEF TypeInv, TypeOK, StorageTypeOK
<1>2. \A o \in Handles : o # h => hnd'[o].ino = hnd[o].ino /\ (hnd[o].ino # None => Path(o)' = Path(o))
  BY DEF OnlyHandle, TypeInv, HandleShape
<1>3. \A q \in Paths : q # p => link'[q] # i
  BY <1>1 DEF LinkedInv, FreeInode
<1>4. \A o \in Handles : hnd'[o].ino = i => Path(o)' = p
  BY <1>1, <1>2 DEF LinkedInv, FreeInode
<1> QED BY <1>1, <1>2, <1>3, <1>4 DEF LinkedInv

LEMMA CreateLinked ==
  ASSUME TypeInv, LinkedInv, NEW p \in Paths, NEW n \in Nodes, NEW h \in Handles,
         NEW i \in Inodes, Create(p, n, h, i)
  PROVE  /\ LinkedInv' /\ Path(h)' = p
         /\ \A o \in Handles : o # h => hnd'[o] = hnd[o] /\ (hnd[o].pc # "closed" => Path(o)' = Path(o))
<1>1. /\ OnlyNode(n, p) /\ OnlyHandle(h) /\ hnd'[h].node = n /\ hnd'[h].ino = i
  BY CreateEffect
<1>2. /\ IF link[p] # None THEN i = link[p] ELSE FreeInode(i)
      /\ link' = [link EXCEPT ![p] = i] /\ ~InUse(n)
  BY DEF Create
<1>3. /\ Path(h)' = p
      /\ \A o \in Handles : o # h => hnd'[o] = hnd[o] /\ (hnd[o].pc # "closed" => Path(o)' = Path(o))
  BY <1>1, <1>2, PathType DEF OnlyHandle, OnlyNode, InUse, Path
<1> QED BY <1>1, <1>2, <1>3, TakeInode

LEMMA OpenWriteLinked ==
  ASSUME TypeInv, LinkedInv, NEW n \in Nodes, NEW h \in Handles,
         NEW i \in Inodes, OpenWrite(n, h, i)
  PROVE  /\ LinkedInv' /\ node[n].path \in Paths /\ Path(h)' = node[n].path
         /\ \A o \in Handles : o # h => hnd'[o] = hnd[o] /\ Path(o)' = Path(o)
<1> DEFINE p == node[n].path
<1>1. OnNode(n, h) /\ hnd'[h].ino = i /\ node[n] # None
  BY OpenWriteEffect
<1>2. /\ IF link[p] # None THEN i = link[p] ELSE FreeInode(i)
      /\ link' = [link EXCEPT ![p] = i] /\ UNCHANGED node
  BY DEF OpenWrite
<1>3. p \in Paths
  BY <1>1 DEF TypeInv, TypeOK, HandlesTypeOK, Node
<1>4. /\ Path(h)' = p
      /\ \A o \in Handles : o # h => hnd'[o] = hnd[o] /\ Path(o)' = Path(o)
  BY <1>1, <1>2 DEF OnNode, OnlyHandle, Path
<1> HIDE DEF p
<1>5. LinkedInv'
  BY <1>1, <1>2, <1>3, <1>4, TakeInode DEF OnNode
<1> QED BY <1>3, <1>4, <1>5 DEF p

\* The actions of an open handle leave its node and those of others where
\* they are.
LEMMA SamePaths ==
  ASSUME TypeInv, NEW h \in Handles, hnd[h].pc # "closed",
         UNCHANGED node \/ OnlyNode(hnd[h].node, Path(h)),
         OnlyHandle(h), hnd'[h].node = hnd[h].node
  PROVE  \A o \in Handles : hnd[o].pc # "closed" => Path(o)' = Path(o)
BY PathType DEF OnlyNode, OnlyHandle, Path

-----------------------------------------------------------------------------
(* The requests.                                                           *)

\* The races are noted, and perhaps others.
Noted == raced \cup {p \in Paths : Race(p)} \subseteq raced'

LEMMA RaceFree ==
  ASSUME Noted, NEW p \in Paths, p \notin raced'
  PROVE  /\ p \notin raced
         /\ ~CopyRace(p) /\ ~MarkRace(p) /\ ~UnlinkRace(p) /\ ~TruncateRace(p) /\ ~LostFlush(p)
BY DEF Noted, Race

\* Of the handles B nothing is known but that their Flush is a race; what is in
\* X no write makes: it has no data, or it was written before.
Setting(B, X) ==
  /\ WrittenInv /\ RemovedInv /\ LinkedInv /\ HeldOff(B, X)
  /\ \A h \in B : hnd[h].pc = "flush" /\ hnd'[h].pc = "open" => Path(h) \in raced'
  /\ \A p \in Paths, c \in Content : c.len = 0 => c \in X[p]
  /\ \A p \in Paths : \A c \in X[p] : c.len = 0 \/ Written(c)

\* The step does nothing to p that matters for what was promised of it, or
\* leaves it waiting for the daemon.
Keeps(p, X) ==
  \/ acked'[p] = None
  \/ /\ acked'[p] = acked[p] /\ obj'[p] = obj[p]
     /\ Dirty(p)' = Dirty(p)
     /\ Dirty(p) /\ Waiting(p) /\ data[link[p]] \notin X[p]
          => Waiting(p)' /\ data'[link'[p]] \notin X[p]
  \/ Waiting(p)' /\ data'[link'[p]] \notin X[p] /\ acked'[p].len > 0

\* Where the inodes are, who can still break a promise, and what was kept.
Guarded(B, X) ==
  LinkedInv' /\ HeldOff(B, X)' /\ \A p \in Paths : p \notin raced' => Keeps(p, X)

LEMMA KeepsKept ==
  ASSUME NEW X, NEW p \in Paths, Keeps(p, X), acked'[p] # None,
         acked[p] # None => Kept(p, X)
  PROVE  Kept(p, X)'
BY DEF Keeps, Kept, Dirty, Waiting, Uploaded

\* A handle is as it was, and so is what it holds; or it lets go; or it is one
\* to look at.
LEMMA HeldFrame ==
  ASSUME TypeInv, raced \subseteq raced', NEW B, NEW X, HeldOff(B, X),
         \A h \in Handles :
           \/ hnd'[h].ino = None /\ hnd'[h].pc # "flush"
           \/ /\ hnd'[h] = hnd[h]
              /\ hnd[h].ino # None => Path(h)' = Path(h)
              /\ hnd[h].ino # None /\ h \notin B /\ Path(h) \notin raced' /\ HeldBy(h, X) =>
                   /\ link'[Path(h)] = link[Path(h)]
                   /\ hnd[h].dirty => data'[hnd[h].ino] = data[hnd[h].ino]
           \/ /\ hnd'[h].pc = "flush" => hnd'[h].dirty
              /\ hnd'[h].ino # None /\ h \notin B /\ Path(h)' \notin raced' => HeldBy(h, X)'
  PROVE  HeldOff(B, X)'
<1> SUFFICES ASSUME NEW h \in Handles
             PROVE  /\ hnd'[h].pc = "flush" => hnd'[h].dirty
                    /\ hnd'[h].ino # None /\ h \notin B /\ Path(h)' \notin raced' => HeldBy(h, X)'
  BY DEF HeldOff
<1>1. CASE hnd'[h].ino = None /\ hnd'[h].pc # "flush"
  BY <1>1
<1>2. CASE /\ hnd'[h] = hnd[h]
           /\ hnd[h].ino # None => Path(h)' = Path(h)
           /\ hnd[h].ino # None /\ h \notin B /\ Path(h) \notin raced' /\ HeldBy(h, X) =>
                /\ link'[Path(h)] = link[Path(h)]
                /\ hnd[h].dirty => data'[hnd[h].ino] = data[hnd[h].ino]
  <2>1. hnd[h].pc = "flush" => hnd[h].dirty
    BY DEF HeldOff
  <2>2. hnd[h].ino # None /\ h \notin B /\ Path(h) \notin raced' => HeldBy(h, X)
    BY DEF HeldOff
  <2> QED BY <1>2, <2>1, <2>2 DEF HeldBy
<1> QED BY <1>1, <1>2

\* The handles in use, with their paths.
LEMMA UsersPath ==
  ASSUME TypeInv, NEW h \in Handles, hnd[h].ino # None \/ hnd[h].pc = "flush"
  PROVE  Path(h) \in Paths /\ hnd[h].ino \in Inodes /\ hnd[h].pc # "closed"
BY PathType DEF TypeInv, TypeOK, HandlesTypeOK, HandleShape, Handle

LEMMA QuietRaces ==
  ASSUME TypeInv, Noted, NEW B, NEW X, Setting(B, X), Quiet
  PROVE  Guarded(B, X)
<1>1. \A p \in Paths : Keeps(p, X)
  BY DEF Quiet, SameFlags, Keeps, Dirty, Waiting
<1>2. \A h \in Handles : hnd[h].ino # None => Path(h) \in Paths /\ Path(h)' = Path(h)
  BY UsersPath DEF Quiet
<1>3. LinkedInv'
  BY <1>2, LinkedFrame DEF Quiet, Setting
<1>4. HeldOff(B, X)'
  BY <1>2, HeldFrame DEF Quiet, Setting, Noted
<1> QED BY <1>1, <1>3, <1>4 DEF Guarded

\* Only handle h moves, and if it holds a file, it is the one that is linked.
LEMMA HandleRaces ==
  ASSUME TypeInv, Noted, NEW B, NEW X, Setting(B, X), NEW h \in Handles, OnlyHandle(h),
         UNCHANGED <<row, obj, link, data, node, acked>>,
         \/ hnd'[h].ino = None /\ hnd'[h].pc # "flush"
         \/ /\ hnd'[h].ino = hnd[h].ino /\ hnd'[h].node = hnd[h].node
            /\ hnd[h].ino # None /\ hnd'[h].dirty = hnd[h].dirty
            /\ hnd'[h].pc = "flush" => hnd'[h].dirty /\ hnd'[h].got = data[hnd[h].ino]
         \/ /\ Path(h)' \in Paths /\ hnd'[h].ino = link[Path(h)']
            /\ hnd'[h].pc # "flush" /\ ~hnd'[h].dirty
  PROVE  Guarded(B, X)
<1>1. \A p \in Paths : Keeps(p, X)
  BY DEF Keeps, Dirty, Waiting
<1>2. \A o \in Handles : o # h => hnd'[o] = hnd[o] /\ Path(o)' = Path(o)
  BY DEF OnlyHandle, Path
<1>3. hnd'[h].node = hnd[h].node => Path(h)' = Path(h)
  BY DEF Path
<1>4. LinkedInv'
  BY <1>2, <1>3, LinkedFrame DEF Setting
<1>5. \/ hnd'[h].ino = None /\ hnd'[h].pc # "flush"
      \/ /\ hnd'[h].pc = "flush" => hnd'[h].dirty
         /\ hnd'[h].ino # None /\ h \notin B /\ Path(h)' \notin raced' => HeldBy(h, X)'
  <2>1. CASE /\ hnd'[h].ino = hnd[h].ino /\ hnd'[h].node = hnd[h].node
             /\ hnd[h].ino # None /\ hnd'[h].dirty = hnd[h].dirty
             /\ hnd'[h].pc = "flush" => hnd'[h].dirty /\ hnd'[h].got = data[hnd[h].ino]
    <3> SUFFICES ASSUME h \notin B, Path(h) \notin raced'
                 PROVE  HeldBy(h, X)'
      BY <1>3, <2>1
    <3>1. Path(h) \in Paths /\ Path(h) \notin raced /\ data[hnd[h].ino] \in Content
      BY <2>1, UsersPath, RaceFree DEF TypeInv, TypeOK, StorageTypeOK
    <3>2. /\ hnd[h].ino = link[Path(h)]
          /\ hnd[h].dirty => data[hnd[h].ino] \notin X[Path(h)]
      BY <2>1, <3>1 DEF Setting, HeldOff, HeldBy
    <3>3. Covers(data[hnd[h].ino], data[hnd[h].ino])
      BY <3>1, CoversItself
    <3>4. hnd[h].dirty => data[hnd[h].ino].len > 0
      BY <3>1, <3>2, StorageAssumption DEF Setting, Content, Sizes
    <3> QED BY <1>3, <2>1, <3>2, <3>3, <3>4 DEF HeldBy
  <2>2. CASE /\ Path(h)' \in Paths /\ hnd'[h].ino = link[Path(h)']
             /\ hnd'[h].pc # "flush" /\ ~hnd'[h].dirty
    BY <2>2 DEF HeldBy
  <2> QED BY <2>1, <2>2
<1>6. HeldOff(B, X)'
  BY <1>2, <1>5, HeldFrame DEF Setting, Noted
<1> QED BY <1>1, <1>4, <1>6 DEF Guarded

\* Create finds no row; it may empty a file that handles of the old one hold.
LEMMA CreateRaces ==
  ASSUME TypeInv, Noted, NEW B, NEW X, Setting(B, X),
         NEW p \in Paths, NEW n \in Nodes, NEW h \in Handles, NEW i \in Inodes,
         Create(p, n, h, i)
  PROVE  Guarded(B, X)
<1>1. /\ ~row'[p].dirty /\ \A q \in Paths : q # p => row'[q] = row[q]
      /\ hnd'[h].pc = "open" /\ hnd'[h].ino = i /\ ~hnd'[h].dirty
  BY CreateEffect
<1>2. /\ LinkedInv' /\ Path(h)' = p
      /\ \A o \in Handles : o # h => hnd'[o] = hnd[o] /\ (hnd[o].pc # "closed" => Path(o)' = Path(o))
  BY CreateLinked DEF Setting
<1>3. /\ UNCHANGED <<obj, acked>> /\ row[p] = None
      /\ link' = [link EXCEPT ![p] = i] /\ data' = [data EXCEPT ![i] = Empty]
      /\ IF link[p] # None THEN i = link[p] ELSE FreeInode(i)
  BY DEF Create
<1>4. /\ link'[p] = i /\ data'[i] = Empty
      /\ \A q \in Paths : q # p => link'[q] = link[q] /\ link[q] # i
      /\ \A j \in Inodes : j # i => data'[j] = data[j]
  BY <1>3, StorageAssumption DEF Setting, LinkedInv, FreeInode, TypeInv, TypeOK, StorageTypeOK
<1>5. \A q \in Paths : Keeps(q, X)
  <2>1. \A q \in Paths : link[q] # None => link[q] \in Inodes
    BY DEF TypeInv, TypeOK, StorageTypeOK
  <2> QED BY <1>1, <1>3, <1>4, <2>1 DEF Keeps, Dirty, Waiting
<1>6. ASSUME NEW o \in Handles, hnd[o].ino # None, Path(o) \notin raced', HeldBy(o, X)
      PROVE  /\ link'[Path(o)] = link[Path(o)]
             /\ hnd[o].dirty => data'[hnd[o].ino] = data[hnd[o].ino]
  <2>1. Path(o) \in Paths /\ hnd[o].ino \in Inodes /\ hnd[o].ino = link[Path(o)]
    BY <1>6, UsersPath DEF HeldBy
  <2>2. link'[Path(o)] = link[Path(o)]
    BY <1>3, <1>4, <1>6, <2>1
  <2>3. ASSUME hnd[o].dirty, hnd[o].ino = i
        PROVE  FALSE
    <3>1. Path(o) = p /\ link[p] = i
      BY <1>4, <2>1, <2>3
    <3>2. data[i] \in Content /\ data[i] \notin X[p]
      BY <1>6, <2>3, <3>1 DEF HeldBy, TypeInv, TypeOK, StorageTypeOK
    <3>3. data[i].len > 0
      BY <3>2, StorageAssumption DEF Setting, Content, Sizes
    <3>4. o \in Holders(p) /\ ~TruncateRace(p)
      BY <1>6, <2>3, <3>1, RaceFree DEF Holders
    <3> QED BY <1>4, <3>1, <3>3, <3>4 DEF TruncateRace, Empty
  <2> QED BY <1>4, <2>1, <2>2, <2>3
<1>7. HeldOff(B, X)'
  <2>1. \A o \in Handles : hnd[o].ino # None => hnd[o].pc # "closed"
    BY UsersPath
  <2>2. HeldBy(h, X)'
    BY <1>1, <1>2, <1>4 DEF HeldBy
  <2> QED BY <1>1, <1>2, <1>6, <2>1, <2>2, HeldFrame DEF Setting, Noted
<1> QED BY <1>2, <1>5, <1>7 DEF Guarded

LEMMA OpenWriteRaces ==
  ASSUME TypeInv, Noted, NEW B, NEW X, Setting(B, X),
         NEW n \in Nodes, NEW h \in Handles, NEW i \in Inodes, OpenWrite(n, h, i)
  PROVE  Guarded(B, X)
<1> DEFINE p == node[n].path
<1>1. hnd'[h].pc = "open" /\ hnd'[h].ino = i /\ ~hnd'[h].dirty
  BY OpenWriteEffect DEF OnNode
<1>2. /\ LinkedInv' /\ p \in Paths /\ Path(h)' = p
      /\ \A o \in Handles : o # h => hnd'[o] = hnd[o] /\ Path(o)' = Path(o)
  BY OpenWriteLinked DEF Setting
<1>3. /\ UNCHANGED <<row, obj, acked>>
      /\ link' = [link EXCEPT ![p] = i]
      /\ IF link[p] # None THEN i = link[p] /\ UNCHANGED data
         ELSE FreeInode(i) /\ data' = [data EXCEPT ![i] = Empty]
  BY DEF OpenWrite
<1> HIDE DEF p
<1>4. /\ link'[p] = i /\ \A q \in Paths : q # p => link'[q] = link[q]
      /\ \A j \in Inodes : (\E q \in Paths : j = link[q]) \/ (\E o \in Handles : j = hnd[o].ino)
           => data'[j] = data[j]
  BY <1>2, <1>3 DEF FreeInode, TypeInv, TypeOK, StorageTypeOK
<1>5. \A q \in Paths : Keeps(q, X)
  <2>1. \A q \in Paths : link[q] # None => link[q] \in Inodes /\ link'[q] = link[q]
    BY <1>3, <1>4 DEF TypeInv, TypeOK, StorageTypeOK
  <2> QED BY <1>3, <1>4, <2>1 DEF Keeps, Dirty, Waiting
<1>6. ASSUME NEW o \in Handles, hnd[o].ino # None, HeldBy(o, X)
      PROVE  link'[Path(o)] = link[Path(o)] /\ data'[hnd[o].ino] = data[hnd[o].ino]
  <2>1. Path(o) \in Paths /\ hnd[o].ino \in Inodes /\ hnd[o].ino = link[Path(o)]
    BY <1>6, UsersPath DEF HeldBy
  <2> QED BY <1>3, <1>4, <1>6, <2>1
<1>7. HeldOff(B, X)'
  <2>1. HeldBy(h, X)'
    BY <1>1, <1>2, <1>4 DEF HeldBy
  <2> QED BY <1>1, <1>2, <1>6, <2>1, HeldFrame DEF Setting, Noted
<1> QED BY <1>2, <1>5, <1>7 DEF Guarded

LEMMA SetattrSizeRaces ==
  ASSUME TypeInv, Noted, NEW B, NEW X, Setting(B, X),
         NEW n \in Nodes, NEW z \in Sizes, SetattrSize(n, z)
  PROVE  Guarded(B, X)
<1> DEFINE p == node[n].path
<1>1. SameFlags
  BY SetattrSizeEffect
<1>2. /\ UNCHANGED <<obj, link, data, hnd, node>> /\ acked' = [acked EXCEPT ![p] = None]
  BY DEF SetattrSize
<1>3. \A q \in Paths : acked'[q] \in {acked[q], None}
  BY <1>2 DEF TypeInv, TypeOK, HandlesTypeOK
<1>4. \A q \in Paths : Keeps(q, X)
  BY <1>1, <1>2, <1>3 DEF SameFlags, Keeps, Dirty, Waiting
<1>5. \A h \in Handles : hnd[h].ino # None => Path(h) \in Paths /\ Path(h)' = Path(h)
  BY <1>2, PathType DEF Path, TypeInv, HandleShape
<1> HIDE DEF p
<1>6. LinkedInv'
  BY <1>2, <1>5, LinkedFrame DEF Setting
<1>7. HeldOff(B, X)'
  BY <1>2, <1>5, HeldFrame DEF Setting, Noted
<1> QED BY <1>4, <1>6, <1>7 DEF Guarded

\* A body copied over data that is promised, or about to be, is a CopyRace.
LEMMA FetchCopyRaces ==
  ASSUME TypeInv, Noted, NEW B, NEW X, Setting(B, X),
         NEW h \in Handles, NEW k \in Sizes, FetchCopy(h, k)
  PROVE  Guarded(B, X)
<1> DEFINE i == hnd[h].ino
           g == hnd[h].got
<1>1. Continues(h, "fetched") /\ hnd[h].pc = "fetch" /\ i # None /\ hnd'[h].dirty = hnd[h].dirty
  BY FetchCopyEffect DEF FetchCopy
<1>2. /\ UNCHANGED <<row, obj, link, node, acked>>
      /\ UNCHANGED data \/ data' = [data EXCEPT ![i] = Overlay(data[i], g, k)]
  BY DEF FetchCopy
<1>3. /\ \A j \in Inodes : j # i => data'[j] = data[j]
      /\ data'[i] = data[i] => data' = data
  BY <1>2 DEF TypeInv, TypeOK, StorageTypeOK
<1>4. \A o \in Handles : (o # h => hnd'[o] = hnd[o]) /\ Path(o)' = Path(o)
  BY <1>1, <1>2 DEF Continues, OnlyHandle, Path
<1> HIDE DEF i, g
<1>5. LinkedInv'
  BY <1>1, <1>2, <1>4, LinkedFrame DEF Setting, Continues
<1>6. ASSUME NEW p \in Paths, p \notin raced', link[p] = i,
             Dirty(p) \/ \E o \in Holders(p) : hnd[o].dirty
      PROVE  data' = data
  <2>1. Path(h) = p
    BY <1>1, <1>6 DEF Setting, LinkedInv, i
  <2>2. hnd'[h].pc = "fetched" /\ ~CopyRace(p)
    BY <1>1, <1>6, RaceFree DEF Continues
  <2> QED BY <1>1, <1>6, <2>1, <2>2 DEF CopyRace
<1>7. \A p \in Paths : p \notin raced' => Keeps(p, X)
  BY <1>2, <1>3, <1>6 DEF Keeps, Dirty, Waiting, TypeInv, TypeOK, StorageTypeOK
<1>8. ASSUME NEW o \in Handles, hnd[o].ino # None, Path(o) \notin raced', HeldBy(o, X), hnd[o].dirty
      PROVE  data'[hnd[o].ino] = data[hnd[o].ino]
  <2>1. Path(o) \in Paths /\ hnd[o].ino \in Inodes /\ hnd[o].ino = link[Path(o)]
    BY <1>8, UsersPath DEF HeldBy
  <2>2. CASE hnd[o].ino = i
    <3>1. o \in Holders(Path(o))
      BY <1>8, <2>1 DEF Holders
    <3> QED BY <1>6, <1>8, <2>1, <2>2, <3>1
  <2> QED BY <1>3, <2>1, <2>2
<1>9. hnd'[h].pc # "flush" /\ (h \notin B /\ Path(h) \notin raced' => HeldBy(h, X)')
  <2>1. hnd'[h].pc # "flush" /\ hnd'[h].ino = hnd[h].ino /\ hnd[h].ino # None
    BY <1>1 DEF Continues, i
  <2>2. h \notin B /\ Path(h) \notin raced' => HeldBy(h, X)
    BY <2>1 DEF Setting, HeldOff, Noted
  <2> QED BY <1>1, <1>2, <1>4, <1>8, <2>1, <2>2 DEF HeldBy
<1>10. HeldOff(B, X)'
  BY <1>2, <1>4, <1>8, <1>9, HeldFrame DEF Setting, Noted
<1> QED BY <1>5, <1>7, <1>10 DEF Guarded

\* A write covers what was written before it.
LEMMA CoversWritten ==
  ASSUME TypeInv, NEW c \in Content, NEW f \in Content, NEW b \in Blocks,
         Covers(c, f), Written(f)
  PROVE  Covers(WriteBlock(c, b, wid + 1), f)
BY StorageAssumption
   DEF Covers, Written, WriteBlock, Content, Versions, Blocks, Sizes, TypeInv, TypeOK, StorageTypeOK

\* A write makes a content that was not there.
LEMMA WriteNew ==
  ASSUME TypeInv, NEW c \in Content, NEW b \in Blocks
  PROVE  /\ WriteBlock(c, b, wid + 1).len > 0
         /\ ~Written(WriteBlock(c, b, wid + 1))
<1>1. wid \in Nat /\ c.len \in Nat /\ b \in Nat
  BY StorageAssumption DEF TypeInv, TypeOK, StorageTypeOK, Versions, Content, Sizes, Blocks
<1>2. WriteBlock(c, b, wid + 1).len > 0
  BY <1>1 DEF WriteBlock
<1>3. WriteBlock(c, b, wid + 1).blk[b] = wid + 1
  BY DEF WriteBlock, Content
<1> QED BY <1>1, <1>2, <1>3 DEF Written

LEMMA WriteRaces ==
  ASSUME TypeInv, Noted, NEW B, NEW X, Setting(B, X),
         NEW h \in Handles, NEW b \in Blocks, Write(h, b)
  PROVE  Guarded(B, X)
<1> DEFINE i == hnd[h].ino
           c == WriteBlock(data[i], b, wid + 1)
<1>1. /\ Continues(h, "open") /\ i # None /\ hnd[h].pc # "closed" /\ hnd[h].pc # "flush"
      /\ OnlyNode(hnd[h].node, Path(h)) /\ data' = [data EXCEPT ![i] = c]
  BY WriteEffect
<1>2. UNCHANGED <<row, obj, link, acked>>
  BY DEF Write
<1>3. i \in Inodes /\ data[i] \in Content
  BY <1>1 DEF TypeInv, TypeOK, StorageTypeOK, HandlesTypeOK, Handle
<1>4. \A j \in Inodes, f \in Content :
        Covers(data[j], f) /\ Written(f) => Covers(data'[j], f)
  <2>1. \A f \in Content : Covers(data[i], f) /\ Written(f) => Covers(c, f)
    BY <1>3, CoversWritten
  <2> HIDE DEF c
  <2> QED BY <1>1, <2>1 DEF TypeInv, TypeOK, StorageTypeOK
<1>5. \A j \in Inodes, p \in Paths : data[j] \notin X[p] \/ j = i => data'[j] \notin X[p]
  <2>1. c.len > 0 /\ ~Written(c)
    BY <1>3, WriteNew
  <2> HIDE DEF c
  <2>2. \A p \in Paths : c \notin X[p]
    BY <2>1, StorageAssumption DEF Setting
  <2> QED BY <1>1, <2>2 DEF TypeInv, TypeOK, StorageTypeOK
<1> HIDE DEF i, c
<1>6. \A o \in Handles : hnd[o].pc # "closed" => Path(o)' = Path(o) /\ Path(o) \in Paths
  BY <1>1, SamePaths, PathType DEF Continues
<1>7. \A o \in Handles : o # h => hnd'[o] = hnd[o]
  BY <1>1 DEF Continues, OnlyHandle
<1>8. \A o \in Handles : hnd[o].ino # None \/ hnd[o].pc = "flush" =>
        hnd[o].pc # "closed" /\ hnd[o].ino \in Inodes
  BY UsersPath
<1>9. LinkedInv'
  BY <1>1, <1>2, <1>6, <1>7, <1>8, LinkedFrame DEF Setting, Continues
<1>10. \A p \in Paths : Keeps(p, X)
  <2>1. \A p \in Paths : Waiting(p) /\ acked[p] # None => Waiting(p)'
    BY <1>2, <1>4 DEF Waiting, Setting, WrittenInv, TypeInv, TypeOK, StorageTypeOK, HandlesTypeOK
  <2>2. \A p \in Paths : Waiting(p) => link[p] \in Inodes
    BY DEF Waiting, TypeInv, TypeOK, StorageTypeOK
  <2> QED BY <1>2, <1>5, <2>1, <2>2 DEF Keeps, Dirty
<1>11. ASSUME NEW o \in Handles, hnd[o].ino # None, o \notin B, Path(o)' \notin raced'
       PROVE  HeldBy(o, X)'
  <2>1. Path(o) \in Paths /\ Path(o) \notin raced /\ Path(o)' = Path(o) /\ hnd[o].ino \in Inodes
    BY <1>6, <1>8, <1>11, RaceFree
  <2>2. HeldBy(o, X)
    BY <1>11, <2>1 DEF Setting, HeldOff
  <2>3. hnd[o].pc = "flush" => hnd[o].got \in Content /\ Written(hnd[o].got)
    BY DEF Setting, WrittenInv, TypeInv, TypeOK, HandlesTypeOK, HandleShape, Handle
  <2>4. hnd[o].pc = "flush" => hnd[o].dirty
    BY DEF Setting, HeldOff
  <2>5. CASE o = h
    BY <1>1, <1>2, <1>5, <2>1, <2>2, <2>5 DEF HeldBy, Continues, i
  <2>6. CASE o # h
    BY <1>2, <1>4, <1>5, <1>7, <2>1, <2>2, <2>3, <2>4, <2>6 DEF HeldBy
  <2> QED BY <2>5, <2>6
<1>12. HeldOff(B, X)'
  <2>1. \A o \in Handles : hnd'[o].ino = hnd[o].ino /\ (hnd'[o].pc = "flush" => hnd'[o].dirty)
    BY <1>1, <1>7 DEF Continues, Setting, HeldOff
  <2> QED BY <1>11, <2>1, HeldFrame DEF Setting, Noted
<1> QED BY <1>9, <1>10, <1>12 DEF Guarded

\* Unless the row is lost, it is dirty and names what the handle holds.
LEMMA FlushCommitRaces ==
  ASSUME TypeInv, Noted, NEW B, NEW X, Setting(B, X), NEW h \in Handles, FlushCommit(h)
  PROVE  Guarded(B, X)
<1> DEFINE p == Path(h)
           i == hnd[h].ino
<1>1. /\ Continues(h, "open") /\ i # None /\ ~hnd'[h].dirty
      /\ OnlyNode(hnd[h].node, p)
      /\ acked'[p] \in {None, hnd[h].got}
      /\ \A q \in Paths : q # p => acked'[q] = acked[q] /\ row'[q] = row[q]
  BY FlushCommitEffect
<1>2. UNCHANGED <<obj, link, data>> /\ hnd[h].pc = "flush"
  BY DEF FlushCommit
<1>3. \A o \in Handles : hnd[o].pc # "closed" => Path(o)' = Path(o) /\ Path(o) \in Paths
  BY <1>1, <1>2, SamePaths, PathType DEF Continues
<1>4. \A o \in Handles : o # h => hnd'[o] = hnd[o]
  BY <1>1 DEF Continues, OnlyHandle
<1>5. \A o \in Handles : hnd[o].ino # None \/ hnd[o].pc = "flush" => hnd[o].pc # "closed"
  BY UsersPath
<1>6. p \in Paths
  BY <1>2, <1>3
<1>7. p \notin raced' => row'[p] # None /\ row'[p].dirty /\ row'[p].staged
  <2>1. SUFFICES ASSUME p \notin raced'
                 PROVE  row'[p] # None /\ row'[p].dirty /\ row'[p].staged
    OBVIOUS
  <2>2. row'[p] = UpdateEntry(row[p], FlushEntry(h))
    BY <1>1, <1>2, <1>6, <2>1, RaceFree DEF LostFlush, Continues
  <2>3. row[p] \in Row \cup {None} /\ FlushEntry(h) \in Row /\ FlushEntry(h).dirty /\ FlushEntry(h).staged
    BY <1>2, <1>6, FlushEntryType DEF TypeInv, TypeOK, StorageTypeOK
  <2> QED BY <2>2, <2>3, UpdateEntryType, StorageAssumption
<1>8. p \notin raced' =>
        i = link[p] /\ data[i] \notin X[p] /\ Covers(data[i], hnd[h].got) /\ hnd[h].got.len > 0
  <2>1. p \notin raced' => h \notin B /\ p \notin raced
    BY <1>1, <1>2, <1>6, RaceFree DEF Setting, Continues
  <2> QED BY <1>1, <1>2, <2>1 DEF Setting, HeldOff, HeldBy
<1> HIDE DEF i, p
<1>9. LinkedInv'
  BY <1>1, <1>2, <1>3, <1>4, <1>5, LinkedFrame DEF Setting, Continues
<1>10. \A q \in Paths : q \notin raced' => Keeps(q, X)
  <2>1. ASSUME NEW q \in Paths, q \notin raced', q = p
        PROVE  Keeps(q, X)
    BY <1>1, <1>2, <1>7, <1>8, <2>1 DEF Keeps, Waiting
  <2>2. ASSUME NEW q \in Paths, q # p
        PROVE  Keeps(q, X)
    BY <1>1, <1>2, <2>2 DEF Keeps, Dirty, Waiting
  <2> QED BY <2>1, <2>2
<1>11. HeldOff(B, X)'
  <2>1. hnd'[h].pc # "flush" /\ hnd'[h].ino = hnd[h].ino /\ Path(h)' = Path(h) /\ hnd[h].ino # None
    BY <1>1, <1>2, <1>3 DEF Continues, i
  <2>2. h \notin B /\ Path(h) \notin raced' => HeldBy(h, X)'
    <3>1. h \notin B /\ Path(h) \notin raced' => HeldBy(h, X)
      BY <2>1 DEF Setting, HeldOff, Noted
    <3> QED BY <1>1, <1>2, <2>1, <3>1 DEF HeldBy
  <2> QED BY <1>2, <1>3, <1>4, <1>5, <2>1, <2>2, HeldFrame DEF Setting, Noted
<1> QED BY <1>9, <1>10, <1>11 DEF Guarded

\* The daemon or a Release takes a name away: the row is clean and nobody holds
\* the file open, or it is a race.
LEMMA UnlinkFree ==
  ASSUME TypeInv, Noted, NEW p \in Paths, link' = [link EXCEPT ![p] = None]
  PROVE  p \notin raced' => link[p] = None \/ (~Dirty(p) /\ Holders(p) = {})
<1>1. link'[p] = None
  BY DEF TypeInv, TypeOK, StorageTypeOK
<1> QED BY <1>1, RaceFree DEF UnlinkRace

LEMMA UnlinkFrame ==
  ASSUME TypeInv, raced \subseteq raced', NEW B, NEW X, LinkedInv, HeldOff(B, X), NEW p \in Paths,
         link' = [link EXCEPT ![p] = None],
         p \notin raced' => link[p] = None \/ (~Dirty(p) /\ Holders(p) = {}),
         UNCHANGED <<row, obj, data, acked>>,
         \A o \in Handles : hnd'[o].ino # None \/ hnd'[o].pc = "flush" =>
           hnd'[o] = hnd[o] /\ Path(o)' = Path(o)
  PROVE  Guarded(B, X)
<1>1. link'[p] = None /\ \A q \in Paths : q # p => link'[q] = link[q]
  BY DEF TypeInv, TypeOK, StorageTypeOK
<1>2. LinkedInv'
  BY <1>1, LinkedFrame
<1>3. \A q \in Paths : q \notin raced' => Keeps(q, X)
  BY <1>1 DEF Keeps, Dirty, Waiting
<1>4. ASSUME NEW o \in Handles, hnd[o].ino # None, Path(o) \notin raced', HeldBy(o, X)
      PROVE  link'[Path(o)] = link[Path(o)]
  <2>1. Path(o) \in Paths /\ hnd[o].ino = link[Path(o)]
    BY <1>4, UsersPath DEF HeldBy
  <2>2. Path(o) # p
    BY <1>4, <2>1 DEF Holders
  <2> QED BY <1>1, <2>1, <2>2
<1>5. HeldOff(B, X)'
  BY <1>4, HeldFrame
<1> QED BY <1>2, <1>3, <1>5 DEF Guarded

LEMMA ReleaseRemoveRaces ==
  ASSUME TypeInv, Noted, NEW B, NEW X, Setting(B, X), NEW h \in Handles, ReleaseRemove(h)
  PROVE  Guarded(B, X)
<1>1. /\ OnlyHandle(h) /\ hnd'[h].ino = None /\ hnd'[h].pc = "closed" /\ Path(h) \in Paths
  BY ReleaseRemoveEffect
<1>2. UNCHANGED <<row, obj, data, node, acked>> /\ link' = [link EXCEPT ![Path(h)] = None]
  BY DEF ReleaseRemove
<1>3. \A o \in Handles : o # h => hnd'[o] = hnd[o] /\ Path(o)' = Path(o)
  BY <1>1, <1>2 DEF OnlyHandle, Path
<1> QED BY <1>1, <1>2, <1>3, UnlinkFree, UnlinkFrame DEF Setting, Noted

\* Removing a file withdraws what was promised of it.
LEMMA RemoveRaces ==
  ASSUME TypeInv, Noted, NEW B, NEW X, Setting(B, X), NEW p \in Paths,
         RemoveRow(p) \/ \E ok \in BOOLEAN : RemoveObject(p, ok)
  PROVE  Guarded(B, X)
<1>1. UNCHANGED <<link, data, node, hnd>>
  BY DEF RemoveRow, RemoveObject
<1>2. ASSUME RemoveRow(p)
      PROVE  \A q \in Paths : Keeps(q, X)
  <2>1. UNCHANGED <<obj, acked>> /\ p \in rm /\ Store(p, None)
    BY <1>2 DEF RemoveRow
  <2>2. None \in Row \cup {None} /\ StorageTypeOK
    BY DEF TypeInv, TypeOK
  <2>3. \A q \in Paths : q # p => row'[q] = row[q]
    BY <2>1, <2>2, StoreEffect
  <2> QED BY <1>1, <2>1, <2>3 DEF Setting, RemovedInv, Keeps, Dirty, Waiting
<1>3. ASSUME NEW ok \in BOOLEAN, RemoveObject(p, ok)
      PROVE  \A q \in Paths : Keeps(q, X)
  <2>1. /\ UNCHANGED row
        /\ obj' = [obj EXCEPT ![p] = None] /\ acked' = [acked EXCEPT ![p] = None]
    BY <1>3 DEF RemoveObject
  <2>2. /\ acked'[p] = None
        /\ \A q \in Paths : q # p => acked'[q] = acked[q] /\ obj'[q] = obj[q]
    BY <2>1 DEF TypeInv, TypeOK, StorageTypeOK, HandlesTypeOK
  <2> QED BY <1>1, <2>1, <2>2 DEF Keeps, Dirty, Waiting
<1>4. \A q \in Paths : Keeps(q, X)
  BY <1>2, <1>3
<1>5. \A h \in Handles : Path(h)' = Path(h)
  BY <1>1 DEF Path
<1>6. LinkedInv'
  BY <1>1, <1>5, LinkedFrame DEF Setting
<1>7. HeldOff(B, X)'
  BY <1>1, <1>5, HeldFrame DEF Setting, Noted
<1> QED BY <1>4, <1>6, <1>7 DEF Guarded

LEMMA WriterRaces ==
  ASSUME TypeInv, Noted, NEW B, NEW X, Setting(B, X), Writer
  PROVE  Guarded(B, X)
<1>1. ASSUME NEW h \in Handles, FetchStart(h)
      PROVE  Guarded(B, X)
  <2>1. Continues(h, "fetch") /\ hnd[h].ino # None /\ hnd'[h].dirty = hnd[h].dirty
    BY <1>1, FetchStartEffect
  <2>2. UNCHANGED <<row, obj, link, data, node, acked>>
    BY <1>1 DEF FetchStart, storageVars
  <2> QED BY <2>1, <2>2, HandleRaces DEF Continues
<1> QED BY <1>1, CreateRaces, OpenWriteRaces, SetattrSizeRaces, FetchCopyRaces, WriteRaces,
           FlushCommitRaces DEF Writer

LEMMA ClientRaces ==
  ASSUME TypeInv, Noted, NEW B, NEW X, Setting(B, X), Client
  PROVE  Guarded(B, X)
<1>1. CASE Quiet
  BY <1>1, QuietRaces
<1>2. ASSUME NEW n \in Nodes, NEW h \in Handles, OpenRemote(n, h) \/ OpenStaged(n, h)
      PROVE  Guarded(B, X)
  <2>1. /\ OnNode(n, h) /\ node[n] # None
        /\ hnd'[h].ino = None \/ hnd'[h].ino = link[node[n].path]
    BY <1>2, OpenRemoteEffect, OpenStagedEffect
  <2>2. UNCHANGED <<row, obj, link, data, node, acked>>
    BY <1>2 DEF OpenRemote, OpenStaged, storageVars
  <2>3. Path(h)' = node[n].path /\ node[n].path \in Paths
    BY <2>1, <2>2 DEF OnNode, Path, TypeInv, TypeOK, HandlesTypeOK, Node
  <2> QED BY <2>1, <2>2, <2>3, HandleRaces DEF OnNode
<1>3. ASSUME NEW h \in Handles, FlushBegin(h)
      PROVE  Guarded(B, X)
  <2>1. /\ Continues(h, "flush") /\ hnd'[h].dirty /\ hnd[h].dirty /\ hnd[h].ino # None
        /\ hnd'[h].got = data[hnd[h].ino]
    BY <1>3, FlushBeginEffect
  <2>2. UNCHANGED <<row, obj, link, data, node, acked>>
    BY <1>3 DEF FlushBegin, storageVars
  <2>3. hnd'[h].dirty = hnd[h].dirty
    BY <1>3, <2>1 DEF FlushBegin, TypeInv, TypeOK, HandlesTypeOK, Handle
  <2> QED BY <2>1, <2>2, <2>3, HandleRaces DEF Continues
<1>4. ASSUME NEW h \in Handles, ReleaseCheck(h)
      PROVE  Guarded(B, X)
  <2>1. OnlyHandle(h) /\ hnd'[h].ino = None /\ hnd'[h].pc # "flush"
    BY <1>4, ReleaseCheckEffect
  <2>2. UNCHANGED <<row, obj, link, data, node, acked>>
    BY <1>4 DEF ReleaseCheck, storageVars
  <2> QED BY <2>1, <2>2, HandleRaces
<1> QED BY <1>1, <1>2, <1>3, <1>4, QuietEffect, ReleaseRemoveRaces, RemoveRaces DEF Client

-----------------------------------------------------------------------------
(* The daemon.                                                             *)

\* Handles and inodes are none of the daemon's business.
LEMMA HoldsLast ==
  ASSUME TypeInv, raced \subseteq raced', NEW B, NEW X, LinkedInv, HeldOff(B, X),
         UNCHANGED <<link, data, handleVars>>
  PROVE  LinkedInv' /\ HeldOff(B, X)'
<1>1. \A h \in Handles : Path(h)' = Path(h) /\ hnd'[h] = hnd[h]
  BY DEF handleVars, Path
<1>2. LinkedInv'
  BY <1>1, LinkedFrame
<1>3. HeldOff(B, X)'
  BY <1>1, HeldFrame
<1> QED BY <1>2, <1>3

\* The daemon puts a file that waits, or breaks no promise; and it marks what it
\* has put, or what is not there to be counted.
LEMMA DaemonKeeps ==
  ASSUME TypeInv, Noted, NEW B, NEW X, Setting(B, X), DaemonNext, UNCHANGED handleVars,
         \A p \in Paths : p \notin raced' => obj'[p] = obj[p] \/ Dirty(p) \/ acked[p] = None,
         pc = "mark" /\ obj[cur.path] \notin {buf, None} => buf \in X[cur.path]
  PROVE  /\ LinkedInv' /\ HeldOff(B, X)'
         /\ \A p \in Paths : p \notin raced' /\ acked[p] # None /\ Kept(p, X) => Kept(p, X)'
<1> DEFINE Goal == /\ LinkedInv' /\ HeldOff(B, X)'
                   /\ \A p \in Paths : p \notin raced' /\ acked[p] # None /\ Kept(p, X) => Kept(p, X)'
<1>1. UNCHANGED <<node, hnd, acked>> /\ raced \subseteq raced' /\ LinkedInv /\ HeldOff(B, X)
  BY DEF handleVars, Noted, Setting
<1>2. cur # None => cur.path \in Paths
  BY EntryType
<1>3. CASE UNCHANGED storageVars
  BY <1>1, <1>3, HoldsLast DEF Kept, Dirty, Waiting, Uploaded, storageVars
<1>4. CASE UNCHANGED <<row, link, data>>
  BY <1>1, <1>4, HoldsLast DEF Kept, Dirty, Waiting, Uploaded
<1>5. CASE Mark \/ Unmark
  <2>1. /\ UNCHANGED <<obj, link, data>> /\ pc \in {"mark", "unmark"} /\ cur # None
    BY <1>5 DEF Mark, Unmark, TypeInv, DaemonShape
  <2> PICK p \in Paths : p = cur.path
    BY <1>2, <2>1
  <2>2. /\ \A q \in Paths : q # p => row'[q] = row[q]
        /\ (row'[p] = None) = (row[p] = None)
        /\ row[p] # None =>
             \/ ~row'[p].dirty /\ row'[p].staged = row[p].staged
             \/ DBFaults /\ row'[p] = row[p]
    BY <1>5, MarkEffect
  <2>3. ASSUME p \notin raced', acked[p] # None, Kept(p, X)
        PROVE  Kept(p, X)'
    <3>1. ~MarkRace(p)
      BY <2>3, RaceFree
    <3>2. CASE Dirty(p) /\ ~Dirty(p)'
      <4>1. /\ row'[p] # None /\ ~row'[p].dirty
            /\ link[p] # None /\ Covers(data[link[p]], acked[p]) /\ data[link[p]] \notin X[p]
        BY <2>2, <2>3, <3>2 DEF Kept, Dirty, Waiting
      <4>2. data[link[p]] = buf /\ (buf = None \/ obj[p] # None)
        BY <3>1, <3>2, <4>1 DEF MarkRace
      <4>3. buf # None
        BY <4>1, <4>2, StorageAssumption DEF TypeInv, TypeOK, StorageTypeOK
      <4>4. pc = "mark"
        BY <2>1, <4>3 DEF TypeInv, DaemonShape
      <4>5. obj[p] = buf
        BY <4>1, <4>2, <4>3, <4>4
      <4> QED BY <1>1, <2>1, <2>3, <3>2, <4>1, <4>2, <4>3, <4>5 DEF Kept, Uploaded
    <3>3. CASE Dirty(p) /\ Dirty(p)'
      BY <1>1, <2>1, <2>2, <2>3, <3>3 DEF Kept, Dirty, Waiting
    <3>4. CASE ~Dirty(p)
      BY <1>1, <2>1, <2>2, <2>3, <3>4 DEF Kept, Dirty, Uploaded
    <3> QED BY <3>2, <3>3, <3>4
  <2>4. ASSUME NEW q \in Paths, q # p, acked[q] # None, Kept(q, X)
        PROVE  Kept(q, X)'
    BY <1>1, <2>1, <2>2, <2>4 DEF Kept, Dirty, Waiting, Uploaded
  <2> QED BY <1>1, <2>1, <2>3, <2>4, HoldsLast
<1>6. CASE RemoveStaging
  <2>1. /\ UNCHANGED <<row, obj, data>> /\ pc = "remove"
        /\ link' = [link EXCEPT ![cur.path] = None]
    BY <1>6 DEF RemoveStaging
  <2>2. cur.path \in Paths
    BY <1>2, <2>1 DEF TypeInv, DaemonShape
  <2>3. \A h \in Handles : hnd'[h] = hnd[h] /\ Path(h)' = Path(h)
    BY <1>1 DEF Path
  <2>4. Guarded(B, X)
    BY <1>1, <2>1, <2>2, <2>3, UnlinkFree, UnlinkFrame
  <2> QED BY <1>1, <2>4, KeepsKept DEF Guarded
<1>7. CASE ClearStaging
  <2>1. UNCHANGED <<obj, link, data>>
    BY <1>7 DEF ClearStaging
  <2> PICK p \in Paths : p = cur.path
    BY <1>7, ClearStagingEffect
  <2>2. /\ \A q \in Paths : q # p => row'[q] = row[q]
        /\ (row'[p] = None) = (row[p] = None)
        /\ row[p] # None => row'[p].dirty = row[p].dirty
    BY <1>7, ClearStagingEffect
  <2>3. p \notin raced' /\ Dirty(p) /\ row[p].staged => row'[p].staged
    BY <2>2, RaceFree DEF UnlinkRace, Dirty
  <2> QED BY <1>1, <2>1, <2>2, <2>3, HoldsLast DEF Kept, Dirty, Waiting, Uploaded
<1>8. CASE PutOk \/ PutFail
  BY <1>4, <1>8 DEF PutOk, PutFail
<1> QED BY <1>3, <1>5, <1>6, <1>7, <1>8
        DEF DaemonNext, ListDirty, ListClean, UploadRead, SweepDone, OpenStaging, Inspect

\* What the daemon has listed, it may upload.
Due(p) == p \in raced \/ Dirty(p) \/ acked[p] = None

LEMMA DaemonUploads ==
  ASSUME TypeInv, UploadInv, raced \subseteq raced', DaemonNext, UNCHANGED handleVars
  PROVE  UploadInv'
<1>1. UNCHANGED acked
  BY DEF handleVars
<1>2. UNCHANGED row => \A p \in Paths : Due(p) => Due(p)'
  BY <1>1 DEF Due, Dirty
<1>3. /\ pc \in {"sleep", "upload", "evict"} => cur = None
      /\ \A e, f \in todo : e.path = f.path => e = f
      /\ cur # None => \A e \in todo : e.path # cur.path
      /\ pc \in Uploads => \A e \in todo : Due(e.path)
      /\ pc \in Uploads /\ cur # None => Due(cur.path)
      /\ \A e \in todo : e.path \in Paths
      /\ cur # None => cur.path \in Paths
  BY EntryType DEF UploadInv, Due
<1>4. CASE ListDirty
  <2>1. /\ UNCHANGED <<row, cur>> /\ pc = "sleep" /\ pc' = "upload"
        /\ \A e \in todo' : \E p \in Paths : row[p] # None /\ row[p].dirty /\ e = Listed(p)
    BY <1>4 DEF ListDirty, storageVars
  <2>2. \A e \in todo' : e.path \in Paths /\ e = Listed(e.path) /\ Dirty(e.path)'
    BY <2>1 DEF Listed, Dirty
  <2> QED BY <1>3, <2>1, <2>2 DEF UploadInv
<1>5. CASE ListClean
  <2>1. /\ UNCHANGED cur /\ pc = "upload" /\ pc' = "evict"
        /\ \A e \in todo' : \E p \in Paths : e = Listed(p)
    BY <1>5 DEF ListClean
  <2>2. \A e \in todo' : e = Listed(e.path)
    BY <2>1 DEF Listed
  <2> QED BY <1>3, <2>1, <2>2 DEF UploadInv, Uploads
<1>6. ASSUME NEW e \in todo, OpenStaging(e)
      PROVE  UploadInv'
  <2>1. /\ UNCHANGED row /\ cur' = e /\ todo' = todo \ {e} /\ pc = "upload"
        /\ pc' \in {"read", "unmark"}
    BY <1>6 DEF OpenStaging, storageVars
  <2>2. \A f \in todo' : f.path # e.path
    BY <1>3, <2>1
  <2>3. Due(e.path)' /\ \A f \in todo' : Due(f.path)'
    BY <1>2, <1>3, <2>1 DEF Uploads
  <2> QED BY <1>3, <2>1, <2>2, <2>3 DEF UploadInv, Due
<1>7. CASE UploadRead
  <2>1. UNCHANGED <<row, todo, cur>> /\ pc = "read" /\ pc' = "put"
    BY <1>7 DEF UploadRead, storageVars
  <2>2. (cur' # None => Due(cur.path)') /\ \A f \in todo' : Due(f.path)'
    BY <1>2, <1>3, <2>1 DEF Uploads
  <2> QED BY <1>3, <2>1, <2>2 DEF UploadInv, Due
<1>8. CASE SweepDone
  <2>1. /\ UNCHANGED <<todo, cur>> /\ pc = "evict" /\ pc' = "sleep" /\ todo = {}
    BY <1>8 DEF SweepDone
  <2> QED BY <1>3, <2>1 DEF UploadInv, Uploads
<1>9. ASSUME NEW e \in todo, Inspect(e)
      PROVE  UploadInv'
  <2>1. /\ todo' = todo \ {e} /\ pc = "evict"
        /\ \/ pc' \in {"clear", "remove"} /\ cur' = e
           \/ UNCHANGED <<pc, cur>>
    BY <1>9 DEF Inspect
  <2> QED BY <1>3, <2>1 DEF UploadInv, Uploads
<1>10. CASE PutOk \/ PutFail
  <2>1. /\ UNCHANGED <<row, todo>> /\ pc = "put"
        /\ \/ pc' = "mark" /\ UNCHANGED cur
           \/ pc' = "upload" /\ cur' = None
    BY <1>10 DEF PutOk, PutFail, Proceed
  <2>2. \A p \in Paths : Due(p) => Due(p)'
    BY <1>2, <2>1
  <2> QED BY <1>3, <2>1, <2>2 DEF UploadInv, Uploads, Due
<1>11. CASE Mark \/ Unmark
  <2>1. /\ UNCHANGED todo /\ pc \in {"mark", "unmark"} /\ pc' = "upload" /\ cur' = None
    BY <1>11 DEF Mark, Unmark, Proceed
  <2>2. cur # None
    BY <2>1 DEF TypeInv, DaemonShape
  <2>3. \A q \in Paths : q # cur.path => (Due(q) => Due(q)')
    BY <1>1, <1>11, MarkEffect DEF Due, Dirty
  <2> QED BY <1>3, <2>1, <2>2, <2>3 DEF UploadInv, Due, Uploads
<1>12. CASE RemoveStaging
  <2>1. UNCHANGED <<todo, cur>> /\ pc = "remove" /\ pc' = "clear"
    BY <1>12 DEF RemoveStaging
  <2> QED BY <1>3, <2>1 DEF UploadInv, Uploads
<1>13. CASE ClearStaging
  <2>1. UNCHANGED todo /\ pc = "clear" /\ pc' = "evict" /\ cur' = None
    BY <1>13 DEF ClearStaging, Proceed
  <2> QED BY <1>3, <2>1 DEF UploadInv, Uploads
<1> QED BY <1>4, <1>5, <1>6, <1>7, <1>8, <1>9, <1>10, <1>11, <1>12, <1>13 DEF DaemonNext

-----------------------------------------------------------------------------
(* The invariant: every handle holds what is linked, and nothing but an    *)
(* empty file is excused.                                                  *)

\* Where the promises are, and who can still break them.
GuardInv == KeptInv /\ LinkedInv /\ HeldInv /\ UploadInv

LEMMA RaceSetting == ASSUME RaceInv PROVE Setting({}, NoData)
BY DEF RaceInv, HeldInv, Setting, NoData

LEMMA KeepsFrame ==
  ASSUME TypeInv, RaceInv, raced \subseteq raced', UNCHANGED daemonVars,
         Guarded({}, NoData)
  PROVE  GuardInv'
<1>1. \A p \in Paths : p \notin raced' => Keeps(p, NoData)
  BY DEF Guarded
<1>2. KeptInv'
  BY <1>1, KeepsKept DEF RaceInv, KeptInv
<1>3. \A p \in Paths : p \in raced \/ Dirty(p) \/ acked[p] = None
                         => p \in raced' \/ Dirty(p)' \/ acked'[p] = None
  BY <1>1 DEF Keeps, Dirty, Waiting
<1>4. UploadInv'
  BY <1>3, EntryType DEF RaceInv, UploadInv, daemonVars
<1> QED BY <1>2, <1>4 DEF GuardInv, Guarded, HeldInv

LEMMA DaemonRaces ==
  ASSUME TypeInv, RaceInv, Noted, DaemonNext, UNCHANGED handleVars
  PROVE  GuardInv'
<1>1. \A p \in Paths : p \notin raced' => obj'[p] = obj[p] \/ Dirty(p) \/ acked[p] = None
  <2>1. \/ UNCHANGED obj
        \/ pc = "put" /\ obj' = [obj EXCEPT ![cur.path] = buf]
    BY DEF storageVars, DaemonNext, ListDirty, OpenStaging, UploadRead, PutOk, PutFail, Mark,
       Unmark, ListClean, Inspect, RemoveStaging, ClearStaging, SweepDone
  <2>2. pc = "put" => cur.path \in raced \/ Dirty(cur.path) \/ acked[cur.path] = None
    BY DEF RaceInv, UploadInv, Uploads, TypeInv, DaemonShape
  <2> QED BY <2>1, <2>2 DEF Noted, TypeInv, TypeOK, StorageTypeOK
<1>2. pc = "mark" /\ obj[cur.path] \notin {buf, None} => buf \in NoData[cur.path]
  BY DEF RaceInv, PutInv
<1>3. /\ LinkedInv' /\ HeldOff({}, NoData)'
      /\ \A p \in Paths : p \notin raced' /\ acked[p] # None /\ Kept(p, NoData) => Kept(p, NoData)'
  BY <1>1, <1>2, RaceSetting, DaemonKeeps
<1>4. KeptInv'
  BY <1>3 DEF RaceInv, KeptInv, Noted, handleVars
<1>5. UploadInv'
  BY DaemonUploads DEF RaceInv, Noted
<1> QED BY <1>3, <1>4, <1>5 DEF GuardInv, HeldInv

-----------------------------------------------------------------------------
(* The clock, the crash, and the whole.                                    *)

LEMMA AgeRaces ==
  ASSUME TypeInv, RaceInv, Noted, NEW p \in Paths, Age(p)
  PROVE  RaceInv'
<1>1. Quiet
  BY QuietEffect
<1>2. UNCHANGED daemonVars
  BY DEF Age
<1>3. GuardInv'
  BY <1>1, <1>2, RaceSetting, QuietRaces, KeepsFrame DEF Noted
<1>4. RemovedInv'
  BY RemovedKept DEF RaceInv
<1>5. WrittenInv' /\ PutInv'
  BY <1>2, WrittenFrame, PutFrame DEF RaceInv, Age, handleVars, daemonVars
<1> QED BY <1>3, <1>4, <1>5 DEF RaceInv, GuardInv

\* After a crash nobody holds a file and nothing is listed.
LEMMA CrashRaces ==
  ASSUME TypeInv, RaceInv, raced \subseteq raced', Crash
  PROVE  RaceInv'
<1>1. /\ UNCHANGED <<row, obj, link, data, wid, acked>> /\ rm' = {}
      /\ \A h \in Handles : hnd'[h] = Closed
      /\ pc' = "sleep" /\ todo' = {} /\ cur' = None /\ buf' = None
  BY DEF Crash, storageVars
<1>2. WrittenInv'
  BY <1>1, WrittenFrame DEF RaceInv, Closed
<1>3. RemovedInv'
  BY <1>1, RemovedFrame DEF RaceInv
<1>4. KeptInv'
  BY <1>1 DEF RaceInv, KeptInv, Kept, Dirty, Waiting, Uploaded
<1>5. LinkedInv'
  BY <1>1, LinkedFrame DEF RaceInv, Closed
<1>6. HeldInv' /\ UploadInv' /\ PutInv'
  BY <1>1 DEF HeldInv, HeldOff, UploadInv, Uploads, Closed, PutInv
<1> QED BY <1>2, <1>3, <1>4, <1>5, <1>6 DEF RaceInv

LEMMA RaceInit == Init => RaceInv
<1> SUFFICES ASSUME Init PROVE RaceInv
  OBVIOUS
<1>1. PICK synced \in SUBSET Paths : StorageInit(synced) /\ HandlesInit(synced)
  BY DEF Init
<1>2. SyncedContent \in Content /\ SyncedContent # None /\ SyncedRow # None
  <2>1. SyncedRow \in Row /\ SyncedContent \in Content
    BY StorageAssumption DEF SyncedRow, SyncedContent, Row, Content, Sizes, Versions
  <2> QED BY <2>1, StorageAssumption
<1>3. Written(SyncedContent) /\ Written(Empty)
  BY <1>1 DEF Written, SyncedContent, Empty, StorageInit
<1>4. /\ pc = "sleep" /\ todo = {} /\ cur = None /\ buf = None
      /\ \A h \in Handles : hnd[h] = Closed
  BY <1>1 DEF Init, DaemonInit, HandlesInit
<1>5. WrittenInv
  BY <1>1, <1>3, <1>4 DEF WrittenInv, StorageInit, HandlesInit, Closed
<1>6. RemovedInv
  BY <1>1, <1>2 DEF RemovedInv, StorageInit, HandlesInit
<1>7. KeptInv
  <2>1. \A p \in Paths : ~Dirty(p) /\ (acked[p] # None => obj[p] = SyncedContent /\ acked[p] = SyncedContent)
    BY <1>1 DEF Dirty, SyncedRow, StorageInit, HandlesInit
  <2>2. SyncedContent.len > 0
    BY StorageAssumption DEF SyncedContent
  <2> QED BY <1>2, <2>1, <2>2, CoversItself DEF KeptInv, Kept, Uploaded
<1>8. LinkedInv
  BY <1>1 DEF LinkedInv, StorageInit
<1>9. HeldInv /\ UploadInv /\ PutInv
  BY <1>4 DEF HeldInv, HeldOff, UploadInv, Uploads, Closed, PutInv
<1> QED BY <1>5, <1>6, <1>7, <1>8, <1>9 DEF RaceInv

LEMMA RaceKept ==
  ASSUME TypeInv, RaceInv, Noted, Requests \/ WriteBackStep \/ Clock
  PROVE  RaceInv'
<1>1. CASE Requests
  <2>1. UNCHANGED daemonVars /\ (Writer \/ Client)
    BY <1>1 DEF Requests
  <2>2. WrittenInv' /\ RemovedInv' /\ PutInv'
    BY <2>1, WriterWritten, ClientWritten, RemovedKept, RequestsPut DEF RaceInv
  <2>3. Guarded({}, NoData)
    BY <2>1, RaceSetting, WriterRaces, ClientRaces
  <2>4. GuardInv'
    BY <2>1, <2>3, KeepsFrame DEF Noted
  <2> QED BY <2>2, <2>4 DEF RaceInv, GuardInv
<1>2. CASE WriteBackStep
  <2>1. DaemonNext /\ UNCHANGED handleVars
    BY <1>2 DEF WriteBackStep
  <2> QED BY <2>1, DaemonWritten, RemovedKept, DaemonPut, DaemonRaces DEF RaceInv, GuardInv
<1>3. CASE Clock
  BY <1>3, AgeRaces DEF Clock
<1> QED BY <1>1, <1>2, <1>3

LEMMA RaceStutter ==
  ASSUME RaceInv, UNCHANGED vars
  PROVE  RaceInv'
BY DEF vars, storageVars, handleVars, daemonVars, RaceInv, WrittenInv, Written, RemovedInv,
       KeptInv, Kept, Dirty, Waiting, Uploaded, LinkedInv, HeldInv, HeldOff, HeldBy, Path,
       UploadInv, PutInv

LEMMA RaceStep ==
  ASSUME TypeInv, RaceInv, [Next]_vars
  PROVE  RaceInv'
<1>1. NoteRaces => Noted /\ raced \subseteq raced'
  BY DEF NoteRaces, Noted
<1> QED BY <1>1, RaceKept, CrashRaces, RaceStutter DEF Next

LEMMA InvUnlessRaced == ASSUME RaceInv PROVE DurableUnlessRaced
BY DEF RaceInv, KeptInv, Kept, DurableUnlessRaced, Safe

\* Under any workload, whether the database fails or not, and for any number of
\* files, nodes, handles, inodes, writes and crashes: what a close promised is
\* in the bucket, or in a staging file that a dirty row names, unless one of
\* the five races has happened on that file.
THEOREM UnlessRaced == Spec => []DurableUnlessRaced
<1>1. Init => TypeInv /\ RaceInv
  BY TypeInit, RaceInit
<1>2. (TypeInv /\ RaceInv) /\ [Next]_vars => (TypeInv /\ RaceInv)'
  BY TypeStep, RaceStep
<1>3. TypeInv /\ RaceInv => DurableUnlessRaced
  BY InvUnlessRaced
<1> QED BY <1>1, <1>2, <1>3, PTL DEF Spec
=============================================================================
