------------------------- MODULE CompositionProofs -------------------------
(***************************************************************************)
(* Durability of the write-back cache in its two compositions, for any     *)
(* number of files, nodes, handles, inodes, writes and crashes.            *)
(*                                                                         *)
(* Beside the synchronisation from the bucket, which examines, updates and *)
(* deletes rows at any time, the invariant is that of WriteBackRaces, and  *)
(* two facts about a run: it has an object where it uses one, and the row  *)
(* whose staging file it takes was clean when it was read.                 *)
(*                                                                         *)
(* Beside a rename, whose handler calls the database and the bucket one    *)
(* after the other, a promise moves from name to name.  The lemmas of      *)
(* WriteBackRaces are used with the handles that the rename leaves under   *)
(* another name (Strays) off, and with the contents that the daemon has    *)
(* uploaded under a name that is overwritten before it marks the row       *)
(* (Outdated) not counting.  The invariant adds what becomes of a promise  *)
(* while no row names its content (Carries), and what the rename knows of  *)
(* its two names at each of its steps (MovingInv).                         *)
(***************************************************************************)
EXTENDS Gateway, Rename, WriteBackRaces

-----------------------------------------------------------------------------
(* Beside the synchronisation.                                             *)

\* Where the locals of a run are used, they have been set.
RunInv ==
  /\ S!SyncTypeOK
  /\ syncPc \in {"drop", "upsert"} => item \in S!Item
  /\ syncPc = "drop" => ~existing.dirty

GatewayInv == TypeInv /\ RaceInv /\ RunInv

-----------------------------------------------------------------------------
\* At the end of a run nothing is left of it.
LEMMA RunOverInv == ASSUME S!RunOver PROVE RunInv'
BY DEF S!RunOver, RunInv, S!SyncTypeOK, S!SyncPcs

\* A run keeps its locals in order.  The row it has read is clean.
LEMMA RunStep ==
  ASSUME TypeInv, RunInv, NEW newer \in BOOLEAN, S!SyncStep(newer)
  PROVE  RunInv'
<1>1. CASE S!SyncStart \/ S!PageDone
  BY <1>1 DEF S!SyncStart, S!PageDone, RunInv, S!SyncTypeOK, S!SyncPcs
<1>2. CASE S!ListFails \/ S!SyncDone
  BY <1>2, RunOverInv DEF S!ListFails, S!SyncDone
<1>3. CASE S!DropStaging
  BY <1>3 DEF S!DropStaging, RunInv, S!SyncTypeOK, S!SyncPcs
<1>4. CASE S!Reconcile
  <2>1. CASE S!RunOver
    BY <2>1, RunOverInv
  <2>2. CASE ~S!RunOver
    BY <1>4, <2>2 DEF S!Reconcile, RunInv, S!SyncTypeOK, S!SyncPcs
  <2> QED BY <2>1, <2>2
<1>5. ASSUME NEW P \in SUBSET unlisted, S!ListPage(P)
      PROVE  RunInv'
  <2>1. page' \subseteq S!Item
    BY <1>5 DEF S!ListPage, S!Item, S!Sizes, Sizes, TypeInv, TypeOK, StorageTypeOK, Content,
       RunInv, S!SyncTypeOK
  <2> QED BY <1>5, <2>1 DEF S!ListPage, RunInv, S!SyncTypeOK, S!SyncPcs
<1>6. ASSUME NEW e \in page, S!Examine(e, newer)
      PROVE  RunInv'
  <2>1. e \in S!Item /\ e.path \in Paths
    BY DEF RunInv, S!SyncTypeOK, S!Item
  <2>2. /\ page' = page \ {e} /\ keys' = keys \cup {e.path}
        /\ UNCHANGED <<unlisted, doomed>> /\ syncPc = "entry"
    BY <1>6 DEF S!Examine
  <2>3. \/ UNCHANGED <<syncPc, item, existing>>
        \/ /\ syncPc' = "drop" /\ item' = e /\ existing' = row[e.path]
           /\ row[e.path] # None /\ ~row[e.path].dirty
        \/ syncPc' = "upsert" /\ item' = e /\ UNCHANGED existing
    BY <1>6 DEF S!Examine, S!LeftAlone
  <2>4. row[e.path] # None => row[e.path] \in S!Row
    BY <2>1 DEF TypeInv, TypeOK, StorageTypeOK, Row, S!Row, Sizes, S!Sizes
  <2> QED BY <2>1, <2>2, <2>3, <2>4 DEF RunInv, S!SyncTypeOK, S!SyncPcs
<1>7. ASSUME NEW old \in BOOLEAN, S!Upsert(old)
      PROVE  RunInv'
  <2>1. CASE S!RunOver
    BY <2>1, RunOverInv
  <2>2. CASE ~S!RunOver
    BY <1>7, <2>2 DEF S!Upsert, RunInv, S!SyncTypeOK, S!SyncPcs
  <2> QED BY <2>1, <2>2
<1>8. ASSUME NEW p \in doomed, S!DeleteRow(p)
      PROVE  RunInv'
  BY <1>8 DEF S!DeleteRow, RunInv, S!SyncTypeOK, S!SyncPcs
<1> QED BY <1>1, <1>2, <1>3, <1>4, <1>5, <1>6, <1>7, <1>8 DEF S!SyncStep

-----------------------------------------------------------------------------
\* A row that a run stores stays clean or dirty as it was, and loses nothing.
LEMMA UpsertEffect ==
  ASSUME TypeInv, RunInv, NEW old \in BOOLEAN, S!Upsert(old)
  PROVE  /\ UNCHANGED <<obj, link, data, wid>>
         /\ row' \in [Paths -> Row \cup {None}]
         /\ \A p \in Paths : /\ Dirty(p)' = Dirty(p)
                             /\ Dirty(p) /\ row[p].staged => row'[p].staged
<1>1. UNCHANGED <<obj, link, data, wid>> /\ syncPc = "upsert"
  BY DEF S!Upsert
<1>2. CASE UNCHANGED row
  BY <1>1, <1>2 DEF Dirty, TypeInv, TypeOK, StorageTypeOK
<1>3. CASE ~UNCHANGED row
  <2> DEFINE r == S!UpdateEntry(row[item.path], S!SyncEntry(item.size, old))
  <2>1. item.path \in Paths /\ item.size \in Sizes
    BY <1>1 DEF RunInv, S!Item, S!Sizes, Sizes
  <2>2. PICK p \in Paths : p = item.path
    BY <2>1
  <2>3. row' = [row EXCEPT ![p] = r]
    BY <1>3, <2>2 DEF S!Upsert
  <2>4. /\ r \in Row /\ r.dirty = Dirty(p)
        /\ Dirty(p) /\ row[p].staged => r.staged
    BY <2>1, <2>2 DEF S!UpdateEntry, S!SyncEntry, Dirty, Row, TypeInv, TypeOK, StorageTypeOK
  <2> HIDE DEF r
  <2>5. row'[p] = r /\ r # None /\ \A q \in Paths : q # p => row'[q] = row[q]
    BY <2>3, <2>4, StorageAssumption DEF TypeInv, TypeOK, StorageTypeOK
  <2>6. row' \in [Paths -> Row \cup {None}]
    BY <2>3, <2>4 DEF TypeInv, TypeOK, StorageTypeOK
  <2> QED BY <1>1, <2>4, <2>5, <2>6 DEF Dirty
<1> QED BY <1>2, <1>3

\* A run touches a row or takes a name away, and nothing else.
LEMMA SyncEffect ==
  ASSUME TypeInv, RunInv, NEW newer \in BOOLEAN, S!SyncStep(newer)
  PROVE  /\ UNCHANGED <<obj, data, wid>>
         /\ row' \in [Paths -> Row \cup {None}] /\ link' \in [Paths -> Inodes \cup {None}]
<1>1. CASE UNCHANGED storageVars
  BY <1>1 DEF storageVars, TypeInv, TypeOK, StorageTypeOK
<1>2. CASE S!DropStaging
  BY <1>2 DEF S!DropStaging, TypeInv, TypeOK, StorageTypeOK
<1>3. ASSUME NEW old \in BOOLEAN, S!Upsert(old)
      PROVE  /\ UNCHANGED <<obj, data, wid>>
             /\ row' \in [Paths -> Row \cup {None}] /\ link' \in [Paths -> Inodes \cup {None}]
  BY <1>3, UpsertEffect DEF TypeInv, TypeOK, StorageTypeOK
<1>4. ASSUME NEW p \in doomed, S!DeleteRow(p)
      PROVE  /\ UNCHANGED <<obj, data, wid>>
             /\ row' \in [Paths -> Row \cup {None}] /\ link' \in [Paths -> Inodes \cup {None}]
  BY <1>4 DEF S!DeleteRow, S!Store, TypeInv, TypeOK, StorageTypeOK
<1> QED BY <1>1, <1>2, <1>3, <1>4
        DEF S!SyncStep, S!SyncStart, S!ListFails, S!PageDone, S!Reconcile, S!SyncDone,
            S!ListPage, S!Examine, S!storageVars, storageVars

\* What a run may break of the promises on p is noted as a race on p.
NotedSync == raced' = raced \cup {p \in Paths : SyncRace(p)}

LEMMA DropRaces ==
  ASSUME GatewayInv, S!DropStaging, NotedSync, UNCHANGED <<handleVars, daemonVars>>
  PROVE  GuardInv'
<1>1. /\ syncPc = "drop" /\ item.path \in Paths /\ ~existing.dirty
      /\ UNCHANGED <<row, obj, data>> /\ link' = [link EXCEPT ![item.path] = None]
  BY DEF S!DropStaging, GatewayInv, RunInv, S!Item
<1>2. PICK p \in Paths : p = item.path
  BY <1>1
<1>3. link'[p] = None
  BY <1>1, <1>2 DEF GatewayInv, TypeInv, TypeOK, StorageTypeOK
<1>4. p \notin raced' => link[p] = None \/ (~Dirty(p) /\ Holders(p) = {})
  BY <1>1, <1>3 DEF NotedSync, SyncRace, DropRace
<1>5. \A o \in Handles : hnd'[o] = hnd[o] /\ Path(o)' = Path(o)
  BY DEF handleVars, Path
<1>6. raced \subseteq raced' /\ acked' = acked
  BY DEF NotedSync, handleVars
<1>7. TypeInv /\ RaceInv /\ LinkedInv /\ HeldOff({}, NoData)
  BY DEF GatewayInv, RaceInv, HeldInv
<1>8. Guarded({}, NoData)
  BY <1>1, <1>2, <1>4, <1>5, <1>6, <1>7, UnlinkFrame
<1> QED BY <1>6, <1>7, <1>8, KeepsFrame

LEMMA SyncRaces ==
  ASSUME GatewayInv, NEW newer \in BOOLEAN, S!SyncStep(newer), NotedSync,
         UNCHANGED <<handleVars, daemonVars>>
  PROVE  GuardInv'
<1>1. TypeInv /\ RaceInv /\ RunInv /\ raced \subseteq raced' /\ acked' = acked
  BY DEF GatewayInv, NotedSync, handleVars
<1>0. ASSUME UNCHANGED <<link, data>>,
             \A p \in Paths : p \notin raced' => Keeps(p, NoData)
      PROVE  GuardInv'
  <2>1. LinkedInv' /\ HeldOff({}, NoData)'
    BY <1>0, <1>1, HoldsLast DEF RaceInv, HeldInv
  <2>2. Guarded({}, NoData)
    BY <1>0, <2>1 DEF Guarded
  <2> QED BY <1>1, <2>2, KeepsFrame
<1>2. CASE UNCHANGED storageVars
  <2>1. \A p \in Paths : Keeps(p, NoData)
    BY <1>1, <1>2 DEF storageVars, Keeps, Dirty, Waiting
  <2> QED BY <1>0, <1>2, <2>1 DEF storageVars
<1>3. ASSUME NEW old \in BOOLEAN, S!Upsert(old)
      PROVE  GuardInv'
  <2>1. \A p \in Paths : Keeps(p, NoData)
    BY <1>1, <1>3, UpsertEffect DEF Keeps, Dirty, Waiting
  <2> QED BY <1>0, <1>1, <1>3, <2>1, UpsertEffect
<1>4. ASSUME NEW p \in doomed, S!DeleteRow(p)
      PROVE  GuardInv'
  <2>1. /\ UNCHANGED <<obj, link, data>> /\ syncPc = "delete" /\ p \in Paths
        /\ row' = [row EXCEPT ![p] = None] \/ UNCHANGED row
    BY <1>1, <1>4 DEF S!DeleteRow, S!Store, RunInv, S!SyncTypeOK
  <2>2. /\ row'[p] \in {row[p], None}
        /\ \A q \in Paths : q # p => row'[q] = row[q]
    BY <1>1, <2>1 DEF TypeInv, TypeOK, StorageTypeOK
  <2>3. p \notin raced' => Dirty(p)' = Dirty(p) /\ (Dirty(p) => row'[p] = row[p])
    BY <2>1, <2>2 DEF NotedSync, SyncRace, PurgeRace, Dirty
  <2>4. \A q \in Paths : q \notin raced' => Keeps(q, NoData)
    BY <1>1, <2>1, <2>2, <2>3 DEF Keeps, Dirty, Waiting
  <2> QED BY <1>0, <2>1, <2>4
<1> QED BY <1>2, <1>3, <1>4, DropRaces
        DEF S!SyncStep, S!SyncStart, S!ListFails, S!PageDone, S!Reconcile, S!SyncDone,
            S!ListPage, S!Examine, S!storageVars, storageVars

-----------------------------------------------------------------------------
LEMMA SynchroniseInv ==
  ASSUME GatewayInv, Synchronise, NotedSync
  PROVE  GatewayInv'
<1>1. PICK newer \in BOOLEAN : S!SyncStep(newer)
  BY DEF Synchronise
<1>2. UNCHANGED <<handleVars, daemonVars, phase, crashes>> /\ TypeInv /\ RunInv /\ RaceInv
  BY DEF Synchronise, GatewayInv
<1>3. /\ UNCHANGED <<obj, data, wid>>
      /\ row' \in [Paths -> Row \cup {None}] /\ link' \in [Paths -> Inodes \cup {None}]
  BY <1>1, <1>2, SyncEffect
<1>4. TypeInv'
  <2>1. StorageTypeOK' /\ raced' \subseteq Paths
    BY <1>2, <1>3 DEF TypeInv, TypeOK, StorageTypeOK, NotedSync
  <2>2. HandlesTypeOK' /\ HandleShape' /\ DaemonTypeOK' /\ DaemonShape'
    BY <1>2 DEF TypeInv, TypeOK, HandlesTypeOK, HandleShape, DaemonTypeOK, DaemonShape,
       handleVars, daemonVars
  <2> QED BY <1>2, <2>1, <2>2 DEF TypeInv, TypeOK
<1>5. WrittenInv' /\ RemovedInv' /\ PutInv'
  BY <1>2, <1>3, WrittenFrame, RemovedFrame, PutFrame DEF RaceInv, handleVars, daemonVars
<1>6. GuardInv'
  BY <1>1, <1>2, SyncRaces
<1>7. RunInv'
  BY <1>1, <1>2, RunStep
<1> QED BY <1>4, <1>5, <1>6, <1>7 DEF GatewayInv, RaceInv, GuardInv

LEMMA GatewayStep ==
  ASSUME GatewayInv, [GatewayNext]_gatewayVars
  PROVE  GatewayInv'
<1>1. TypeInv /\ RaceInv /\ RunInv
  BY DEF GatewayInv
<1>2. UNCHANGED syncState => RunInv'
  BY <1>1 DEF syncState, RunInv, S!SyncTypeOK
<1>3. CASE (Requests \/ WriteBackStep \/ Clock) /\ NoteRaces /\ UNCHANGED syncState
  <2>1. Noted /\ raced' \subseteq Paths
    BY <1>1, <1>3 DEF NoteRaces, Noted, TypeInv, TypeOK
  <2> QED BY <1>1, <1>2, <1>3, <2>1, TypeKept, RaceKept DEF GatewayInv
<1>4. CASE Synchronise /\ raced' = raced \cup {p \in Paths : SyncRace(p)}
  BY <1>4, SynchroniseInv DEF NotedSync
<1>5. CASE Restart /\ UNCHANGED raced
  BY <1>1, <1>5, TypeKept, CrashRaces, RunOverInv DEF Restart, GatewayInv, TypeInv, TypeOK
<1>6. CASE UNCHANGED gatewayVars
  <2>1. UNCHANGED vars /\ UNCHANGED syncState
    BY <1>6 DEF gatewayVars
  <2> QED BY <1>1, <1>2, <2>1, TypeStep, RaceStutter DEF GatewayInv
<1> QED BY <1>3, <1>4, <1>5, <1>6 DEF GatewayNext

\* Beside a synchronisation that reads a row, and later takes its staging file,
\* stores it or deletes it: what a close promised is in the bucket or waits for
\* the daemon, unless one of the five races of the write-back cache, the
\* deletion of a dirty row, or the loss of a staging file that has become dirty
\* or is held open, has happened on that file.
THEOREM GatewayUnlessRaced == GatewaySpec => []DurableUnlessRaced
<1>1. GatewayInit => GatewayInv
  BY TypeInit, RaceInit DEF GatewayInit, GatewayInv, RunInv, S!SyncInit, S!SyncTypeOK, S!SyncPcs
<1>2. GatewayInv /\ [GatewayNext]_gatewayVars => GatewayInv'
  BY GatewayStep
<1>3. GatewayInv => DurableUnlessRaced
  BY InvUnlessRaced DEF GatewayInv
<1> QED BY <1>1, <1>2, <1>3, PTL DEF GatewaySpec

-----------------------------------------------------------------------------
(* With a rename: the invariant.                                           *)

\* The row has left the old path, and the content is not at the new one.
InTransit(p) == mv # None /\ mv.from = p /\ mv.at \in {"copy", "open", "put"}

\* The steps after the row has moved.
Moved == {"copy", "open", "put", "delete", "size"}

\* The handles whose path is not the name of their file, or will not be.
Strays ==
  {h \in Handles :
     /\ hnd[h].node # None
     /\ \/ hnd[h].node \in misnamed
        \/ mv # None /\ mv.at \in Moved /\ Path(h) \in {mv.from, mv.to}}

\* The contents that do not count: without data, or uploaded under the name and
\* copied over before they are marked.
Outdated ==
  [p \in Paths |->
     {c \in Content :
        \/ c.len = 0
        \/ pc = "mark" /\ cur.path = p /\ obj[p] \notin {buf, None} /\ c = buf}]

\* The rename will find the edits that wait.
Hand(p) ==
  /\ mv.pending /\ link[p] # None /\ Covers(data[link[p]], acked[p])
  /\ mv.at = "put" => link[p] = mv.ino

\* What was promised of a file in transit is uploaded, or will be found.
Carries(p) ==
  acked[p].len > 0 /\ row[p] = None /\ ((mv.at = "copy" /\ Uploaded(p)) \/ Hand(p))

KeptAt(p) == IF InTransit(p) THEN Carries(p) ELSE Kept(p, Outdated)

\* A file in transit is carried, every other one is kept.
KeptR == \A p \in Paths \ raced : acked[p] # None => KeptAt(p)

\* What a rename that is under way knows of its two names.
MovingInv ==
  mv # None =>
    /\ rm = {} /\ mv.from # mv.to
    /\ mv.at = "put" => mv.ino \in Inodes
    /\ mv.from \notin raced =>
         /\ mv.at \in {"replace", "row", "unrow"} /\ Dirty(mv.from) => mv.pending
         /\ mv.at \in {"unrow", "copy", "open", "put"} => ~Dirty(mv.to) /\ ~mv.entry.dirty
         /\ mv.at \in {"delete", "size"} => acked[mv.from] = None
    /\ mv.at = "size" /\ mv.to \notin raced => ~mv.entry.dirty

MoveTypeOK == mv \in Move \cup {None} /\ misnamed \subseteq Nodes

\* The invariant of a rename.
RenameInv ==
  /\ TypeInv /\ MoveTypeOK
  /\ WrittenInv /\ RemovedInv /\ LinkedInv
  /\ HeldOff(Strays, Outdated) /\ KeptR /\ MovingInv

\* Requests beside a rename, the daemon and the clock.
Aside == Requests \/ WriteBackStep \/ Clock

Flushes(p) ==
  \E h \in Handles : hnd[h].pc = "flush" /\ hnd'[h].pc = "open" /\ Path(h) = p

-----------------------------------------------------------------------------
(* What requests do to a file that is not closed.                          *)

\* A request uploads nothing: at most it deletes an object.
LEMMA RequestsObjects ==
  ASSUME TypeInv, Writer \/ Client
  PROVE  \A p \in Paths : obj'[p] \in {obj[p], None}
<1>1. ASSUME NEW p \in Paths, NEW ok \in BOOLEAN, RemoveObject(p, ok)
      PROVE  \A q \in Paths : obj'[q] \in {obj[q], None}
  BY <1>1 DEF RemoveObject, TypeInv, TypeOK, StorageTypeOK
<1>2. CASE Writer
  BY <1>2 DEF Writer, Create, OpenWrite, SetattrSize, FetchStart, FetchCopy, Write,
     FlushCommit, storageVars
<1>3. CASE Client
  BY <1>1, <1>3
     DEF Client, Lookup, AttrRead, AttrHead, AttrPersist, AttrStore, SetattrMtime, OpenRemote, OpenStaged,
         FlushBegin, ReleaseCheck, ReleaseRemove, PersistSize, RemoveRow, storageVars
<1> QED BY <1>2, <1>3

\* A handle that is not closed keeps its node, and the node its path.
LEMMA NodesLast ==
  ASSUME TypeInv, Aside, NEW o \in Handles, hnd[o].pc # "closed"
  PROVE  hnd'[o].pc = "closed" \/ (hnd'[o].node = hnd[o].node /\ Path(o)' = Path(o))
<1>1. CASE Quiet
  BY <1>1 DEF Quiet
<1>2. CASE UNCHANGED <<node, hnd>>
  BY <1>2 DEF Path
<1>3. ASSUME NEW p \in Paths, NEW n \in Nodes, NEW h \in Handles, NEW i \in Inodes, Create(p, n, h, i)
      PROVE  hnd'[o].node = hnd[o].node /\ Path(o)' = Path(o)
  <2>1. OnlyNode(n, p) /\ OnlyHandle(h)
    BY <1>3, CreateEffect
  <2>2. ~InUse(n) /\ hnd[h].pc = "closed"
    BY <1>3 DEF Create
  <2> QED BY <2>1, <2>2, PathType DEF OnlyNode, OnlyHandle, InUse, Path
<1>4. ASSUME NEW n \in Nodes, NEW z \in Sizes, SetattrSize(n, z)
      PROVE  hnd'[o].node = hnd[o].node /\ Path(o)' = Path(o)
  BY <1>4, SetattrSizeEffect, PathType DEF SetattrSize, OnlyNode, Path
<1>5. ASSUME NEW n \in Nodes, NEW h \in Handles, OnNode(n, h), hnd[h].pc = "closed", UNCHANGED node
      PROVE  hnd'[o].node = hnd[o].node /\ Path(o)' = Path(o)
  BY <1>5 DEF OnNode, OnlyHandle, Path
<1>6. ASSUME NEW h \in Handles, NEW c, Continues(h, c), hnd[h].pc # "closed",
             UNCHANGED node \/ OnlyNode(hnd[h].node, Path(h))
      PROVE  hnd'[o].node = hnd[o].node /\ Path(o)' = Path(o)
  BY <1>6, SamePaths DEF Continues, OnlyHandle
<1>7. ASSUME NEW h \in Handles, ReleaseCheck(h) \/ ReleaseRemove(h)
      PROVE  hnd'[o].pc = "closed" \/ (hnd'[o].node = hnd[o].node /\ Path(o)' = Path(o))
  <2>1. OnlyHandle(h) /\ (hnd'[h].pc = "closed" \/ hnd'[h].node = hnd[h].node)
    BY <1>7, ReleaseCheckEffect, ReleaseRemoveEffect
  <2>2. UNCHANGED node
    BY <1>7 DEF ReleaseCheck, ReleaseRemove
  <2> QED BY <2>1, <2>2 DEF OnlyHandle, Path
<1>8. CASE Writer
  <2>1. ASSUME NEW n \in Nodes, NEW h \in Handles, NEW i \in Inodes, OpenWrite(n, h, i)
        PROVE  hnd'[o].node = hnd[o].node /\ Path(o)' = Path(o)
    BY <1>5, <2>1, OpenWriteEffect DEF OpenWrite
  <2>2. ASSUME NEW h \in Handles, FetchStart(h)
        PROVE  hnd'[o].node = hnd[o].node /\ Path(o)' = Path(o)
    BY <1>6, <2>2, FetchStartEffect DEF FetchStart
  <2>3. ASSUME NEW h \in Handles, NEW k \in Sizes, FetchCopy(h, k)
        PROVE  hnd'[o].node = hnd[o].node /\ Path(o)' = Path(o)
    BY <1>6, <2>3, FetchCopyEffect DEF FetchCopy
  <2>4. ASSUME NEW h \in Handles, NEW b \in Blocks, Write(h, b)
        PROVE  hnd'[o].node = hnd[o].node /\ Path(o)' = Path(o)
    BY <1>6, <2>4, WriteEffect
  <2>5. ASSUME NEW h \in Handles, FlushCommit(h)
        PROVE  hnd'[o].node = hnd[o].node /\ Path(o)' = Path(o)
    BY <1>6, <2>5, FlushCommitEffect DEF FlushCommit
  <2> QED BY <1>3, <1>4, <1>8, <2>1, <2>2, <2>3, <2>4, <2>5 DEF Writer
<1>9. CASE Client
  <2>1. ASSUME NEW n \in Nodes, NEW h \in Handles, OpenRemote(n, h) \/ OpenStaged(n, h)
        PROVE  hnd'[o].node = hnd[o].node /\ Path(o)' = Path(o)
    BY <1>5, <2>1, OpenRemoteEffect, OpenStagedEffect DEF OpenRemote, OpenStaged
  <2>2. ASSUME NEW h \in Handles, FlushBegin(h)
        PROVE  hnd'[o].node = hnd[o].node /\ Path(o)' = Path(o)
    BY <1>6, <2>2, FlushBeginEffect DEF FlushBegin
  <2>3. ASSUME NEW p \in Paths, RemoveRow(p) \/ \E ok \in BOOLEAN : RemoveObject(p, ok)
        PROVE  UNCHANGED <<node, hnd>>
    BY <2>3 DEF RemoveRow, RemoveObject
  <2> QED BY <1>1, <1>2, <1>7, <1>9, <2>1, <2>2, <2>3, QuietEffect DEF Client
<1> QED BY <1>1, <1>2, <1>8, <1>9, QuietEffect DEF Aside, Requests, WriteBackStep, Clock, handleVars

\* A file that is not flushed, or that has no row, gets no new promise.
LEMMA PromiseLast ==
  ASSUME TypeInv, Aside, NEW p \in Paths, ~Flushes(p)
  PROVE  /\ acked'[p] \in {acked[p], None}
         /\ row[p] = None => acked'[p] = acked[p]
         /\ Dirty(p)' => Dirty(p)
         /\ row[p] = None /\ ~DirectoryOp => row'[p] = None
<1> DEFINE Goal == /\ acked'[p] \in {acked[p], None}
                   /\ row[p] = None => acked'[p] = acked[p]
                   /\ Dirty(p)' => Dirty(p)
                   /\ row[p] = None /\ ~DirectoryOp => row'[p] = None
<1>1. CASE UNCHANGED <<row, acked>>
  BY <1>1 DEF Dirty
<1>2. CASE SameFlags /\ UNCHANGED acked
  BY <1>2 DEF Dirty, SameFlags
<1>3. ASSUME NEW q \in Paths, NEW n \in Nodes, NEW h \in Handles, NEW i \in Inodes, Create(q, n, h, i)
      PROVE  Goal
  BY <1>3, CreateEffect DEF Create, Dirty, DirectoryOp
<1>4. ASSUME NEW n \in Nodes, NEW z \in Sizes, SetattrSize(n, z)
      PROVE  Goal
  <2>1. /\ SameFlags /\ row[node[n].path] # None
        /\ acked' = [acked EXCEPT ![node[n].path] = None]
    BY <1>4, SetattrSizeEffect DEF SetattrSize
  <2> QED BY <2>1 DEF SameFlags, Dirty, TypeInv, TypeOK, HandlesTypeOK
<1>5. ASSUME NEW h \in Handles, FlushCommit(h)
      PROVE  Goal
  <2>1. Path(h) # p
    BY <1>5, FlushCommitEffect DEF FlushCommit, Flushes, Continues
  <2> QED BY <1>5, <2>1, FlushCommitEffect DEF Dirty
<1>6. ASSUME NEW q \in Paths, NEW ok \in BOOLEAN, RemoveObject(q, ok)
      PROVE  Goal
  BY <1>6 DEF RemoveObject, Dirty, TypeInv, TypeOK, HandlesTypeOK
<1>7. ASSUME NEW q \in Paths, RemoveRow(q)
      PROVE  Goal
  <2>1. UNCHANGED acked /\ Store(q, None)
    BY <1>7 DEF RemoveRow
  <2>2. row'[p] \in {row[p], None}
    BY <2>1, StoreEffect DEF TypeInv, TypeOK
  <2> QED BY <2>1, <2>2 DEF Dirty
<1>8. CASE Writer
  BY <1>1, <1>3, <1>4, <1>5, <1>8
     DEF Writer, OpenWrite, FetchStart, FetchCopy, Write, storageVars
<1>9. CASE Client
  BY <1>1, <1>2, <1>6, <1>7, <1>9, QuietEffect
     DEF Client, Quiet, OpenRemote, OpenStaged, FlushBegin, ReleaseCheck, ReleaseRemove, storageVars
<1>10. CASE DaemonNext /\ UNCHANGED handleVars
  <2>1. ASSUME Mark \/ Unmark
        PROVE  Goal
    BY <1>10, <2>1, MarkEffect DEF Dirty, handleVars
  <2>2. CASE ClearStaging
    BY <1>10, <2>2, ClearStagingEffect DEF Dirty, handleVars
  <2> QED BY <1>1, <1>10, <2>1, <2>2
          DEF DaemonNext, ListDirty, OpenStaging, UploadRead, PutOk, PutFail, ListClean, Inspect,
              RemoveStaging, SweepDone, storageVars, handleVars
<1>11. CASE Clock
  BY <1>2, <1>11, QuietEffect DEF Clock, Quiet
<1> QED BY <1>8, <1>9, <1>10, <1>11 DEF Aside, Requests, WriteBackStep

-----------------------------------------------------------------------------
(* Beside a rename.                                                        *)

\* The strays and the outdated contents are a setting of the lemmas of
\* WriteBackRaces: what a stray writes, and what is outdated, is noted.
LEMMA OthersSetting ==
  ASSUME RenameInv, Others, NEW B, NEW X, B = Strays, X = Outdated
  PROVE  Noted /\ raced' \subseteq Paths /\ Setting(B, X)
<1>1. raced' = raced \cup {p \in Paths : Race(p) \/ TakenAway(p) \/ LateUpload(p) \/ StaleFlush(p)}
  BY DEF Others
<1>2. Noted /\ raced' \subseteq Paths
  BY <1>1 DEF Noted, RenameInv, TypeInv, TypeOK
<1>3. ASSUME NEW h \in B, hnd[h].pc = "flush", hnd'[h].pc = "open"
      PROVE  Path(h) \in raced'
  <2>1. h \in Handles /\ Path(h) \in Paths
    BY <1>3, UsersPath DEF Strays, RenameInv
  <2>2. StaleFlush(Path(h))
    BY <1>3, <2>1 DEF StaleFlush, Strays
  <2> QED BY <1>1, <2>1, <2>2
<1>4. /\ \A p \in Paths, c \in Content : c.len = 0 => c \in X[p]
      /\ \A p \in Paths : \A c \in X[p] : c.len = 0 \/ Written(c)
  BY DEF Outdated, RenameInv, TypeInv, DaemonShape, WrittenInv
<1> QED BY <1>2, <1>3, <1>4 DEF Setting, RenameInv

\* So a step beside a rename keeps what those lemmas keep, for the strays and the
\* outdated contents there were before it.
LEMMA OthersKept ==
  ASSUME RenameInv, Others, NEW B, NEW X, B = Strays, X = Outdated
  PROVE  /\ LinkedInv' /\ HeldOff(B, X)'
         /\ \A p \in Paths :
              p \notin raced' /\ acked'[p] # None /\ (acked[p] # None => Kept(p, X)) => Kept(p, X)'
<1>1. TypeInv /\ Noted /\ Setting(B, X)
  BY OthersSetting DEF RenameInv
<1>2. CASE Guarded(B, X)
  BY <1>2, KeepsKept DEF Guarded
<1>3. CASE Requests
  BY <1>1, <1>2, <1>3, WriterRaces, ClientRaces DEF Requests
<1>4. CASE Clock
  BY <1>1, <1>2, <1>4, QuietEffect, QuietRaces DEF Clock
<1>5. CASE WriteBackStep
  <2>1. DaemonNext /\ UNCHANGED handleVars
    BY <1>5 DEF WriteBackStep
  <2>2. \A p \in Paths : p \notin raced' => obj'[p] = obj[p] \/ Dirty(p) \/ acked[p] = None
    BY DEF Others, LateUpload
  <2>3. pc = "mark" /\ obj[cur.path] \notin {buf, None} => buf \in X[cur.path]
    BY EntryType DEF Outdated, RenameInv, TypeInv, TypeOK, DaemonTypeOK, DaemonShape
  <2>4. UNCHANGED acked
    BY <2>1 DEF handleVars
  <2> QED BY <1>1, <2>1, <2>2, <2>3, <2>4, DaemonKeeps
<1> QED BY <1>3, <1>4, <1>5 DEF Others

\* Nothing becomes outdated by a step of others.
LEMMA OutdatedLast ==
  ASSUME TypeInv, Aside, NEW p \in Paths
  PROVE  Outdated[p]' \subseteq Outdated[p]
<1>1. CASE UNCHANGED daemonVars /\ obj'[p] \in {obj[p], None}
  BY <1>1 DEF daemonVars, Outdated
<1>2. CASE DaemonNext
  BY <1>2, DaemonPut DEF PutInv, Outdated
<1>3. CASE Clock
  BY <1>1, <1>3 DEF Clock, Age
<1> QED BY <1>1, <1>2, <1>3, RequestsObjects DEF Aside, Requests, WriteBackStep

\* A stray that still holds a file is one.
LEMMA StraysLast ==
  ASSUME RenameInv, Others, NEW o \in Strays, hnd'[o].pc # "closed"
  PROVE  o \in Strays'
<1>1. TypeInv /\ Aside /\ mv' = mv /\ o \in Handles /\ hnd[o].node # None
  BY DEF RenameInv, Others, Aside, Strays
<1>2. hnd[o].pc # "closed"
  BY <1>1 DEF TypeInv, HandleShape
<1>3. hnd'[o].node = hnd[o].node /\ Path(o)' = Path(o)
  BY <1>1, <1>2, NodesLast
<1>4. InUse(hnd[o].node)
  BY <1>1 DEF InUse
<1>5. ~Rebound(hnd[o].node)
  BY <1>4 DEF Rebound, Lookup, Create
<1>6. hnd[o].node \in misnamed => hnd[o].node \in misnamed'
  BY <1>5 DEF Others
<1> QED BY <1>1, <1>3, <1>6 DEF Strays

\* And for those there are after it.
LEMMA OthersHeld ==
  ASSUME RenameInv, Others, TypeInv'
  PROVE  LinkedInv' /\ HeldOff(Strays, Outdated)'
<1>1. PICK B : B = Strays
  OBVIOUS
<1>2. PICK X : X = Outdated
  OBVIOUS
<1>3. LinkedInv' /\ HeldOff(B, X)'
  BY <1>1, <1>2, OthersKept
<1>4. ASSUME NEW o \in Handles, hnd'[o].ino # None, o \notin Strays'
      PROVE  o \notin B /\ Path(o)' \in Paths
  <2>1. hnd'[o].pc # "closed"
    BY <1>4 DEF TypeInv, HandleShape
  <2>2. hnd'[o].node \in Nodes /\ node'[hnd'[o].node] # None
    BY <2>1 DEF TypeInv, HandleShape
  <2>3. Path(o)' \in Paths
    BY <2>2 DEF Path, TypeInv, TypeOK, HandlesTypeOK, Node
  <2> QED BY <1>1, <1>4, <2>1, <2>3, StraysLast
<1>5. \A p \in Paths : Outdated[p]' \subseteq X[p]
  BY <1>2, OutdatedLast DEF Others, Aside, RenameInv
<1> QED BY <1>3, <1>4, <1>5 DEF HeldOff, HeldBy

\* A staging file that is not taken away, nor copied over, has what it had.
LEMMA FileLast ==
  ASSUME TypeInv, WrittenInv, Aside, ~DirectoryOp,
         NEW p \in Paths, link[p] # None, link'[p] # None,
         acked[p] # None, Covers(data[link[p]], acked[p]),
         (\E h \in Handles : hnd[h].pc = "fetch" /\ hnd'[h].pc = "fetched")
           => data'[link[p]] = data[link[p]]
  PROVE  link'[p] = link[p] /\ Covers(data'[link[p]], acked[p])
<1> DEFINE Goal == link'[p] = link[p] /\ Covers(data'[link[p]], acked[p])
<1>1. link[p] \in Inodes /\ data[link[p]] \in Content /\ acked[p] \in Content /\ Written(acked[p])
  BY DEF TypeInv, TypeOK, StorageTypeOK, HandlesTypeOK, WrittenInv
<1>2. CASE UNCHANGED <<link, data>>
  BY <1>2
<1>3. ASSUME NEW n \in Nodes, NEW h \in Handles, NEW i \in Inodes, OpenWrite(n, h, i)
      PROVE  Goal
  <2> DEFINE q == node[n].path
  <2>1. /\ link' = [link EXCEPT ![q] = i]
        /\ IF link[q] # None THEN i = link[q] /\ UNCHANGED data
           ELSE FreeInode(i) /\ data' = [data EXCEPT ![i] = Empty]
    BY <1>3 DEF OpenWrite
  <2> HIDE DEF q
  <2>2. link'[p] = link[p]
    BY <2>1 DEF TypeInv, TypeOK, StorageTypeOK
  <2>3. data'[link[p]] = data[link[p]]
    BY <1>1, <2>1 DEF FreeInode, TypeInv, TypeOK, StorageTypeOK
  <2> QED BY <2>2, <2>3
<1>4. ASSUME NEW h \in Handles, NEW k \in Sizes, FetchCopy(h, k)
      PROVE  Goal
  <2>1. hnd[h].pc = "fetch" /\ UNCHANGED link
    BY <1>4 DEF FetchCopy
  <2>2. hnd'[h].pc = "fetched"
    BY <1>4, FetchCopyEffect DEF Continues
  <2> QED BY <2>1, <2>2
<1>5. ASSUME NEW h \in Handles, NEW b \in Blocks, Write(h, b)
      PROVE  Goal
  <2> DEFINE c == WriteBlock(data[link[p]], b, wid + 1)
  <2>1. Covers(c, acked[p])
    BY <1>1, CoversWritten
  <2>2. data' = [data EXCEPT ![hnd[h].ino] = WriteBlock(data[hnd[h].ino], b, wid + 1)]
    BY <1>5, WriteEffect
  <2>3. data'[link[p]] \in {data[link[p]], c}
    BY <1>1, <2>2 DEF TypeInv, TypeOK, StorageTypeOK
  <2>4. UNCHANGED link
    BY <1>5 DEF Write
  <2> HIDE DEF c
  <2> QED BY <2>1, <2>3, <2>4
<1>6. ASSUME NEW q, link' = [link EXCEPT ![q] = None], UNCHANGED data
      PROVE  Goal
  BY <1>6 DEF TypeInv, TypeOK, StorageTypeOK
<1>7. CASE Writer
  BY <1>2, <1>3, <1>4, <1>5, <1>7
     DEF Writer, DirectoryOp, SetattrSize, FetchStart, FlushCommit, storageVars
<1>8. CASE Client
  BY <1>2, <1>6, <1>8, QuietEffect
     DEF Client, Quiet, OpenRemote, OpenStaged, FlushBegin, ReleaseCheck, ReleaseRemove,
         RemoveObject, RemoveRow, storageVars
<1>9. CASE DaemonNext
  BY <1>2, <1>6, <1>9
     DEF DaemonNext, ListDirty, OpenStaging, UploadRead, PutOk, PutFail, Mark, Unmark, ListClean,
         Inspect, RemoveStaging, ClearStaging, SweepDone, storageVars
<1>10. CASE Clock
  BY <1>2, <1>10, QuietEffect DEF Clock, Quiet
<1> QED BY <1>7, <1>8, <1>9, <1>10 DEF Aside, Requests, WriteBackStep

\* A close under the old or the new name of a rename is noted on both.
LEMMA StaleNames ==
  ASSUME RenameInv, Others, mv # None, NEW p \in {mv.from, mv.to}, p \notin raced'
  PROVE  /\ p \in Paths /\ p \notin raced /\ mv.from \in Paths /\ mv.to \in Paths
         /\ ~Flushes(mv.from) /\ ~Flushes(mv.to)
<1>1. mv.from \in Paths /\ mv.to \in Paths
  BY DEF RenameInv, MoveTypeOK, Move
<1>2. p \notin raced /\ ~StaleFlush(p)
  BY <1>1 DEF Others
<1> QED BY <1>1, <1>2 DEF StaleFlush, Flushes

\* While the content of a file is in the hands of the handler, nobody takes it
\* away without being noted.
LEMMA TransitLast ==
  ASSUME RenameInv, Others, NEW p \in Paths, p \notin raced', InTransit(p), acked'[p] # None
  PROVE  Carries(p)'
<1>1. /\ TypeInv /\ WrittenInv /\ Aside /\ mv' = mv /\ mv # None /\ mv.from = p
      /\ ~DirectoryOp /\ ~TakenAway(p) /\ ~LateUpload(p)
  BY DEF RenameInv, Others, Aside, InTransit
<1>2. ~Flushes(p) /\ p \notin raced
  BY <1>1, StaleNames
<1>3. Carries(p) /\ acked[p] # None /\ acked'[p] = acked[p]
  <2>1. acked[p] # None
    BY <1>1, <1>2, PromiseLast
  <2> QED BY <1>1, <1>2, <2>1, PromiseLast DEF RenameInv, KeptR, KeptAt, Carries
<1>4. row[p] = None /\ row'[p] = None
  BY <1>1, <1>2, <1>3, PromiseLast DEF Carries
<1>5. Uploaded(p) => Uploaded(p)'
  BY <1>1, <1>3, <1>4 DEF LateUpload, Dirty, Uploaded
<1>6. Hand(p) => Hand(p)'
  <2>1. SUFFICES ASSUME Hand(p) PROVE Hand(p)'
    OBVIOUS
  <2>2. mv.pending /\ link[p] # None /\ Covers(data[link[p]], acked[p])
    BY <2>1 DEF Hand
  <2>3. /\ link'[p] # None
        /\ (\E h \in Handles : hnd[h].pc = "fetch" /\ hnd'[h].pc = "fetched")
             => data'[link[p]] = data[link[p]]
    BY <1>1, <2>2 DEF TakenAway
  <2>4. link'[p] = link[p] /\ Covers(data'[link[p]], acked[p])
    BY <1>1, <1>3, <2>2, <2>3, FileLast
  <2> QED BY <1>1, <1>3, <2>1, <2>2, <2>4 DEF Hand
<1> QED BY <1>1, <1>3, <1>4, <1>5, <1>6 DEF Carries

\* Each promise is kept or carried after a step beside a rename.
LEMMA OthersPromises ==
  ASSUME RenameInv, Others
  PROVE  KeptR'
<1> SUFFICES ASSUME NEW p \in Paths, p \notin raced', acked'[p] # None
             PROVE  KeptAt(p)'
  BY DEF KeptR
<1> USE DEF KeptAt
<1>1. InTransit(p)' = InTransit(p) /\ p \notin raced
  BY DEF Others, InTransit
<1>2. CASE InTransit(p)
  BY <1>1, <1>2, TransitLast
<1>3. CASE ~InTransit(p)
  <2>1. PICK B : B = Strays
    OBVIOUS
  <2>2. PICK X : X = Outdated
    OBVIOUS
  <2>3. acked[p] # None => Kept(p, X)
    BY <1>1, <1>3, <2>2 DEF RenameInv, KeptR
  <2>4. Kept(p, X)'
    BY <2>1, <2>2, <2>3, OthersKept
  <2>5. Outdated[p]' \subseteq X[p]
    BY <2>2, OutdatedLast DEF Others, Aside, RenameInv
  <2> QED BY <1>1, <1>3, <2>4, <2>5 DEF Kept
<1> QED BY <1>2, <1>3

\* A rename goes on knowing what it knew of its names.
LEMMA OthersMoving ==
  ASSUME RenameInv, Others
  PROVE  MovingInv' /\ MoveTypeOK'
<1>1. mv' = mv /\ misnamed' \subseteq misnamed /\ TypeInv /\ Aside
  BY DEF Others, RenameInv, Aside
<1>2. MoveTypeOK'
  BY <1>1 DEF RenameInv, MoveTypeOK
<1>3. SUFFICES ASSUME mv # None PROVE MovingInv'
  BY <1>1, <1>2 DEF MovingInv
<1>4. rm' = {}
  <2>1. rm = {} /\ ~DirectoryOp
    BY <1>3 DEF RenameInv, MovingInv, Others
  <2> QED BY <1>1, <2>1
          DEF Aside, Requests, WriteBackStep, Clock, Age, handleVars, DirectoryOp, Writer, Client,
              OpenWrite, SetattrSize, FetchStart, FetchCopy, Write, FlushCommit,
              AttrRead, AttrHead, AttrPersist, AttrStore, SetattrMtime, OpenRemote, OpenStaged, FlushBegin,
              ReleaseCheck, ReleaseRemove, PersistSize, RemoveRow
<1>5. ASSUME mv.from \notin raced'
      PROVE  /\ mv.from \notin raced
             /\ Dirty(mv.from)' => Dirty(mv.from)
             /\ Dirty(mv.to)' => Dirty(mv.to)
             /\ acked[mv.from] = None => acked'[mv.from] = None
  BY <1>1, <1>3, <1>5, StaleNames, PromiseLast
<1>6. mv.to \notin raced' => mv.to \notin raced
  BY DEF Others
<1> QED BY <1>1, <1>3, <1>4, <1>5, <1>6 DEF RenameInv, MovingInv

\* A step beside a rename preserves the invariant.
LEMMA OthersInv ==
  ASSUME RenameInv, Others
  PROVE  RenameInv'
<1>1. PICK B : B = Strays
  OBVIOUS
<1>2. PICK X : X = Outdated
  OBVIOUS
<1>3. Noted /\ raced' \subseteq Paths
  BY <1>1, <1>2, OthersSetting
<1>4. TypeInv'
  BY <1>3, TypeKept DEF Others, RenameInv
<1>5. WrittenInv' /\ RemovedInv'
  <2>1. TypeInv /\ WrittenInv /\ RemovedInv
    BY DEF RenameInv
  <2>2. CASE Requests
    BY <2>1, <2>2, WriterWritten, ClientWritten, RemovedKept DEF Requests
  <2>3. CASE WriteBackStep
    BY <2>1, <2>3, DaemonWritten, RemovedKept DEF WriteBackStep
  <2>4. CASE Clock
    BY <2>1, <2>4, WrittenFrame, RemovedKept DEF Clock, Age, handleVars, daemonVars
  <2> QED BY <2>2, <2>3, <2>4 DEF Others
<1> QED BY <1>4, <1>5, OthersHeld, OthersPromises, OthersMoving DEF RenameInv

-----------------------------------------------------------------------------
(* The steps of the rename.                                                *)

\* What the files and the daemon keep.
LEMMA MoveFrame ==
  ASSUME RenameInv, MoveStep
  PROVE  /\ UNCHANGED <<link, data, wid, node, hnd, rm, daemonVars, phase, crashes>>
         /\ rm = {} /\ raced' \subseteq Paths
         /\ \A p \in raced : p \in raced' \/ (mv # None /\ mv.at \in Moved /\ p = mv.to)
<1>1. UNCHANGED <<link, data, wid, node, hnd, rm, daemonVars, phase, crashes>>
  BY DEF MoveStep, RenameStep, RenameStart, RenameReplace, RenameRow, RenameUnrow, RenameRefused,
     Copy, CopyFails, CopyMissing, DeleteOld, OpenOld, PutOld, PutOldFails, SizeOld, storageVars
<1>2. rm = {}
  BY DEF MoveStep, RenameStep, RenameStart, RenameReplace, RenameRow, RenameUnrow, RenameRefused,
     Copy, CopyFails, CopyMissing, DeleteOld, OpenOld, PutOld, PutOldFails, SizeOld, At,
     RenameInv, MovingInv
<1>3. /\ raced' = Carried \cup {p \in Paths : ReplaceRace(p) \/ KeptRow(p) \/ StaleCopy(p) \/ FailedMove(p)}
      /\ raced \subseteq Paths /\ (mv # None => mv.to \in Paths)
  BY DEF MoveStep, RenameInv, TypeInv, TypeOK, MoveTypeOK, Move
<1>4. raced' \subseteq Paths
  BY <1>3 DEF Carried, At
<1>5. \A p \in raced : p \in raced' \/ (mv # None /\ mv.at \in Moved /\ p = mv.to)
  BY <1>3 DEF Carried, At, Moved
<1> QED BY <1>1, <1>2, <1>4, <1>5

\* A rename that has its two names in hand leaves their nodes behind.
Strayed ==
  mv # None /\ mv.at \in Moved =>
    \/ mv' = None /\ misnamed' = misnamed \cup NodesOf({mv.from, mv.to})
    \/ mv' # None /\ mv'.at \in Moved /\ mv'.from = mv.from /\ mv'.to = mv.to

\* What a step of a rename has to show: it makes up no content, puts objects at
\* the new path only, and keeps each promise.
LEMMA MoveCore ==
  ASSUME RenameInv, MoveStep,
         row' \in [Paths -> Row \cup {None}],
         obj' \in [Paths -> Content \cup {None}],
         acked' \in [Paths -> Content \cup {None}],
         \A p \in Paths : \/ obj'[p] = None \/ \E q \in Paths : obj'[p] = obj[q]
                          \/ \E i \in Inodes : obj'[p] = data[i],
         \A p \in Paths : acked'[p] = None \/ \E q \in Paths : acked'[p] = acked[q],
         \A p \in Paths : \/ obj'[p] \in {obj[p], None}
                          \/ mv # None /\ mv.at \in Moved /\ p = mv.to,
         MoveTypeOK', misnamed \subseteq misnamed', Strayed,
         KeptR', MovingInv'
  PROVE  RenameInv'
<1>1. /\ UNCHANGED <<link, data, wid, node, head, hnd, pend, rm, daemonVars, phase, crashes>>
      /\ rm = {} /\ raced' \subseteq Paths
      /\ \A p \in raced : p \in raced' \/ (mv # None /\ mv.at \in Moved /\ p = mv.to)
  BY MoveFrame DEF MoveStep
<1>2. TypeInv /\ WrittenInv /\ LinkedInv /\ HeldOff(Strays, Outdated)
  BY DEF RenameInv
<1>3. TypeInv'
  <2>1. StorageTypeOK' /\ phase' = phase /\ crashes' = crashes
    BY <1>1, <1>2 DEF TypeInv, TypeOK, StorageTypeOK
  <2>2. HandlesTypeOK' /\ HandleShape' /\ DaemonTypeOK' /\ DaemonShape'
    BY <1>1, <1>2 DEF TypeInv, TypeOK, HandlesTypeOK, HandleShape, DaemonTypeOK, DaemonShape, daemonVars
  <2> QED BY <1>1, <1>2, <2>1, <2>2 DEF TypeInv, TypeOK
<1>4. WrittenInv' /\ RemovedInv'
  BY <1>1, <1>2 DEF WrittenInv, Written, RemovedInv, daemonVars
<1>5. \A h \in Handles : hnd'[h] = hnd[h] /\ Path(h)' = Path(h)
  BY <1>1 DEF Path
<1>6. LinkedInv'
  BY <1>1, <1>2, <1>5, LinkedFrame
<1>7. ASSUME NEW h \in Handles, hnd[h].node # None
      PROVE  /\ h \in Strays => h \in Strays'
             /\ mv # None /\ mv.at \in Moved /\ Path(h) \in {mv.from, mv.to} => h \in Strays'
  <2>1. hnd[h].node \in Nodes /\ node[hnd[h].node] # None
    BY <1>2, <1>7 DEF TypeInv, HandleShape
  <2>2. Path(h) \in {mv.from, mv.to} => hnd[h].node \in NodesOf({mv.from, mv.to})
    BY <2>1 DEF NodesOf, Path
  <2> QED BY <1>5, <1>7, <2>2 DEF Strays, Strayed
<1>8. HeldOff(Strays, Outdated)'
  <2>1. SUFFICES ASSUME NEW h \in Handles, hnd[h].ino # None, h \notin Strays', Path(h) \notin raced'
                 PROVE  HeldBy(h, Outdated)'
    BY <1>2, <1>5 DEF HeldOff
  <2>2. hnd[h].node # None /\ Path(h) \in Paths
    BY <1>2, <2>1, UsersPath, PathType, HandlesAssumption
  <2>3. h \notin Strays /\ ~(mv # None /\ mv.at \in Moved /\ Path(h) = mv.to)
    BY <1>7, <2>1, <2>2
  <2>4. HeldBy(h, Outdated)
    BY <1>1, <1>2, <2>1, <2>3 DEF HeldOff
  <2>5. obj'[Path(h)] \in {obj[Path(h)], None}
    BY <2>2, <2>3
  <2>6. Outdated[Path(h)]' \subseteq Outdated[Path(h)]
    <3> PICK p \in Paths : p = Path(h)
      BY <2>2
    <3>1. Outdated[p]' \subseteq Outdated[p]
      BY <1>1, <2>5 DEF Outdated, daemonVars
    <3> QED BY <1>5, <3>1
  <2> QED BY <1>1, <1>5, <2>4, <2>6 DEF HeldBy
<1> QED BY <1>3, <1>4, <1>6, <1>8 DEF RenameInv

\* The next step of the same rename.
LEMMA GoToEffect ==
  ASSUME mv \in Move, NEW s \in Steps, GoTo(s)
  PROVE  /\ mv' \in Move /\ mv' # None /\ mv'.at = s
         /\ mv'.from = mv.from /\ mv'.to = mv.to /\ mv'.entry = mv.entry
         /\ mv'.ino = mv.ino /\ mv'.size = mv.size /\ mv'.pending = mv.pending
BY RenameAssumption DEF GoTo, Move

\* The promise of the old name is the promise of the new one.
LEMMA HandOverEffect ==
  ASSUME TypeInv, mv \in Move, mv.from # mv.to, HandOver
  PROVE  /\ acked' \in [Paths -> Content \cup {None}]
         /\ acked'[mv.to] = acked[mv.from] /\ acked'[mv.from] = None
         /\ \A q \in Paths : q \notin {mv.from, mv.to} => acked'[q] = acked[q]
         /\ \A q \in Paths : acked'[q] = None \/ \E r \in Paths : acked'[q] = acked[r]
<1>1. mv.from \in Paths /\ mv.to \in Paths
  BY DEF Move
<1>2. acked \in [Paths -> Content \cup {None}]
  BY DEF TypeInv, TypeOK, HandlesTypeOK
<1>3. acked' = [acked EXCEPT ![mv.to] = acked[mv.from], ![mv.from] = None]
  BY DEF HandOver
<1> QED BY <1>1, <1>2, <1>3

\* What the rename that opened the staging file i, of size n, remembers.
LEMMA OpenEffect ==
  ASSUME mv \in Move, NEW i \in Inodes, NEW n \in Sizes,
         mv' = [mv EXCEPT !.at = "put", !.ino = i, !.size = n]
  PROVE  /\ mv' \in Move /\ mv' # None /\ mv'.at = "put"
         /\ mv'.from = mv.from /\ mv'.to = mv.to /\ mv'.entry = mv.entry
         /\ mv'.ino = i /\ mv'.pending = mv.pending
<1>1. mv' = [at |-> "put", from |-> mv.from, to |-> mv.to, entry |-> mv.entry,
             ino |-> i, size |-> n, pending |-> mv.pending]
  BY DEF Move
<1>2. mv' \in Move
  BY <1>1 DEF Move, Steps
<1> QED BY <1>1, <1>2, RenameAssumption

\* The rename leaves alone a file that it does not name, or not yet.
LEMMA KeptRest ==
  ASSUME RenameInv, MoveStep, NEW p \in Paths, p \notin raced, acked'[p] # None,
         row'[p] = row[p], obj'[p] = obj[p], acked'[p] = acked[p],
         ~InTransit(p)
  PROVE  Kept(p, Outdated)'
<1>1. UNCHANGED <<link, data, daemonVars>>
  BY MoveFrame
<1>2. Kept(p, Outdated)
  BY DEF RenameInv, KeptR, KeptAt
<1>3. Outdated[p]' = Outdated[p]
  BY <1>1 DEF Outdated, daemonVars
<1> QED BY <1>1, <1>2, <1>3 DEF Kept, Dirty, Waiting, Uploaded

\* The rename that is running, with its names.
LEMMA MoveTyped ==
  ASSUME RenameInv, mv # None
  PROVE  /\ mv \in Move /\ mv.from \in Paths /\ mv.to \in Paths /\ mv.from # mv.to
         /\ mv.entry \in Row /\ mv.size \in Sizes /\ rm = {}
BY DEF RenameInv, MoveTypeOK, MovingInv, Move

\* When the new name has come to mean the file, the promise of the old name is
\* uploaded under it.
LEMMA HandedOver ==
  ASSUME RenameInv, MoveStep, mv # None, mv.at \in {"copy", "open", "put"}, HandOver,
         UNCHANGED row,
         mv' = None \/ mv'.at \in {"delete", "size"},
         \A q \in Paths : q # mv.to => obj'[q] = obj[q],
         mv.to \notin raced' /\ mv.from \notin raced /\ acked[mv.from] # None /\ Carries(mv.from)
           => obj'[mv.to] # None /\ Covers(obj'[mv.to], acked[mv.from])
  PROVE  KeptR'
<1>1. /\ mv \in Move /\ mv.from \in Paths /\ mv.to \in Paths /\ mv.from # mv.to
      /\ TypeInv
  BY MoveTyped DEF RenameInv
<1>2. /\ acked'[mv.to] = acked[mv.from] /\ acked'[mv.from] = None
      /\ \A q \in Paths : q \notin {mv.from, mv.to} => acked'[q] = acked[q]
  BY <1>1, HandOverEffect
<1>3. \A q \in Paths : ~InTransit(q)'
  BY DEF InTransit
<1>4. \A q \in Paths \ raced' : q \notin raced \/ q = mv.to
  BY MoveFrame
<1>5. ASSUME NEW p \in Paths, p = mv.to, p \notin raced', acked'[p] # None
      PROVE  Kept(p, Outdated)'
  <2>1. mv.from \notin raced
    BY <1>1, <1>5 DEF MoveStep, Carried, At
  <2>2. Carries(mv.from) /\ ~Dirty(p)
    BY <1>1, <1>2, <1>5, <2>1 DEF RenameInv, KeptR, KeptAt, InTransit, MovingInv
  <2>3. obj'[p] # None /\ Covers(obj'[p], acked'[p]) /\ acked'[p].len > 0
    BY <1>2, <1>5, <2>1, <2>2 DEF Carries
  <2> QED BY <2>2, <2>3 DEF Kept, Dirty, Uploaded
<1>6. ASSUME NEW q \in Paths, q \notin raced', acked'[q] # None, q # mv.to
      PROVE  Kept(q, Outdated)'
  <2>1. q # mv.from /\ q \notin raced /\ acked'[q] = acked[q] /\ obj'[q] = obj[q] /\ row'[q] = row[q]
    BY <1>2, <1>4, <1>6
  <2>2. ~InTransit(q)
    BY <2>1 DEF InTransit
  <2> QED BY <1>6, <2>1, <2>2, KeptRest
<1> QED BY <1>3, <1>5, <1>6 DEF KeptR, KeptAt

\* What happens to a name that is not raced is none of the races.
LEMMA MoveFree ==
  ASSUME MoveStep, NEW p \in Paths, p \notin raced'
  PROVE  /\ ~ReplaceRace(p) /\ ~KeptRow(p) /\ ~StaleCopy(p) /\ ~FailedMove(p)
         /\ mv = None \/ mv.at \notin {"copy", "open", "put"} => p \notin raced
BY DEF MoveStep, Carried, At

\* A rename that starts remembers whether edits wait.
LEMMA StartMove ==
  ASSUME RenameInv, MoveStep, NEW p \in Paths, NEW q \in Paths, RenameStart(p, q)
  PROVE  RenameInv'
<1>1. /\ mv = None /\ p # q /\ row[p] # None /\ rm = {}
      /\ UNCHANGED <<row, obj, acked, misnamed>>
  BY DEF RenameStart, storageVars
<1>2. /\ mv'.at = "replace" /\ mv'.from = p /\ mv'.to = q /\ mv'.pending = row[p].dirty
      /\ mv' \in Move
  <2>1. row[p] \in Row /\ row[p].dirty \in BOOLEAN /\ 0 \in Sizes
    BY <1>1, StorageAssumption DEF RenameInv, TypeInv, TypeOK, StorageTypeOK, Row, Sizes
  <2>2. mv' = [at |-> "replace", from |-> p, to |-> q, entry |-> row[p],
               ino |-> None, size |-> 0, pending |-> row[p].dirty]
    BY DEF RenameStart
  <2> QED BY <2>1, <2>2 DEF Move, Steps
<1>3. MovingInv' /\ MoveTypeOK'
  BY <1>1, <1>2, MoveFrame DEF MovingInv, Dirty, RenameInv, MoveTypeOK
<1>4. KeptR'
  BY <1>1, <1>2, MoveFree, KeptRest DEF KeptR, KeptAt, InTransit
<1>5. row \in [Paths -> Row \cup {None}] /\ obj \in [Paths -> Content \cup {None}]
      /\ acked \in [Paths -> Content \cup {None}]
  BY DEF RenameInv, TypeInv, TypeOK, StorageTypeOK, HandlesTypeOK
<1>6. Strayed
  BY <1>1 DEF Strayed
<1> QED BY <1>1, <1>3, <1>4, <1>5, <1>6, MoveCore

\* The row at the new path goes: what it waited with is raced.
LEMMA ReplaceMove ==
  ASSUME RenameInv, MoveStep, RenameReplace
  PROVE  RenameInv'
<1>1. /\ mv # None /\ mv.at = "replace" /\ GoTo("row") /\ row' = [row EXCEPT ![mv.to] = None]
      /\ UNCHANGED <<obj, acked, misnamed>>
  BY DEF RenameReplace, At
<1>2. /\ mv \in Move /\ mv.from \in Paths /\ mv.to \in Paths /\ mv.from # mv.to /\ rm = {}
  BY <1>1, MoveTyped
<1>3. /\ mv' \in Move /\ mv' # None /\ mv'.at = "row" /\ mv'.from = mv.from /\ mv'.to = mv.to
      /\ mv'.pending = mv.pending
  BY <1>1, <1>2, GoToEffect DEF Steps
<1>4. /\ row' \in [Paths -> Row \cup {None}] /\ row'[mv.to] = None
      /\ \A q \in Paths : q # mv.to => row'[q] = row[q]
  BY <1>1, <1>2 DEF RenameInv, TypeInv, TypeOK, StorageTypeOK
<1>5. UNCHANGED <<link, data, rm, daemonVars>>
  BY MoveFrame
<1>6. \A q \in Paths : ~InTransit(q) /\ ~InTransit(q)'
  BY <1>1, <1>3 DEF InTransit
<1>7. ASSUME NEW q \in Paths, q \notin raced', acked'[q] # None
      PROVE  Kept(q, Outdated)'
  <2>1. q \notin raced /\ ~ReplaceRace(q)
    BY <1>1, <1>7, MoveFree
  <2>2. CASE q = mv.to
    <3>1. ~Dirty(q)
      BY <1>1, <1>4, <2>1, <2>2 DEF ReplaceRace, At
    <3>2. Kept(q, Outdated)
      BY <1>1, <1>6, <1>7, <2>1 DEF RenameInv, KeptR, KeptAt
    <3> QED BY <1>1, <1>4, <2>2, <3>1, <3>2 DEF Kept, Dirty, Uploaded
  <2>3. CASE q # mv.to
    BY <1>1, <1>4, <1>6, <1>7, <2>1, <2>3, KeptRest
  <2> QED BY <2>2, <2>3
<1>8. KeptR'
  BY <1>6, <1>7 DEF KeptR, KeptAt
<1>9. MovingInv'
  <2>1. mv.from \notin raced' => mv.from \notin raced
    BY <1>1, <1>2, MoveFree
  <2>2. Dirty(mv.from)' => Dirty(mv.from)
    BY <1>2, <1>3, <1>4 DEF Dirty
  <2> QED BY <1>1, <1>2, <1>3, <1>5, <2>1, <2>2 DEF RenameInv, MovingInv
<1>10. MoveTypeOK' /\ Strayed
  BY <1>1, <1>3 DEF RenameInv, MoveTypeOK, Strayed, Moved
<1>11. obj \in [Paths -> Content \cup {None}] /\ acked \in [Paths -> Content \cup {None}]
  BY DEF RenameInv, TypeInv, TypeOK, StorageTypeOK, HandlesTypeOK
<1> QED BY <1>1, <1>4, <1>8, <1>9, <1>10, <1>11, MoveCore

\* Nothing waits at the new path, or it is raced; and the new row is clean.
LEMMA RowMove ==
  ASSUME RenameInv, MoveStep, RenameRow
  PROVE  RenameInv'
<1> DEFINE r == UpdateEntry(row[mv.to], NewRow(mv.entry))
<1>1. /\ mv # None /\ mv.at = "row" /\ row' = [row EXCEPT ![mv.to] = r]
      /\ mv' = [mv EXCEPT !.at = "unrow", !.entry = r]
      /\ UNCHANGED <<obj, acked, misnamed>>
  BY DEF RenameRow, At
<1>2. /\ mv \in Move /\ mv.from \in Paths /\ mv.to \in Paths /\ mv.from # mv.to /\ rm = {}
      /\ mv.entry \in Row
  BY <1>1, MoveTyped
<1>3. row[mv.to] \in Row \cup {None} /\ NewRow(mv.entry) \in Row /\ ~NewRow(mv.entry).dirty
  BY <1>2 DEF NewRow, Row, RenameInv, TypeInv, TypeOK, StorageTypeOK
<1>4. r \in Row /\ (~Dirty(mv.to) => ~r.dirty)
  <2>1. r \in Row
    BY <1>3, UpdateEntryType
  <2>2. ~Dirty(mv.to) => ~r.dirty
    BY <1>3 DEF UpdateEntry, Dirty
  <2> QED BY <2>1, <2>2
<1> HIDE DEF r
<1>5. /\ mv' \in Move /\ mv' # None /\ mv'.at = "unrow" /\ mv'.from = mv.from /\ mv'.to = mv.to
      /\ mv'.pending = mv.pending /\ mv'.entry = r
  BY <1>1, <1>2, <1>4, RenameAssumption DEF Move, Steps
<1>6. /\ row' \in [Paths -> Row \cup {None}] /\ row'[mv.to] = r
      /\ \A q \in Paths : q # mv.to => row'[q] = row[q]
  BY <1>1, <1>2, <1>4 DEF RenameInv, TypeInv, TypeOK, StorageTypeOK
<1>7. UNCHANGED <<link, data, rm, daemonVars>>
  BY MoveFrame
<1>8. \A q \in Paths : ~InTransit(q) /\ ~InTransit(q)'
  BY <1>1, <1>5 DEF InTransit
<1>9. ASSUME NEW q \in Paths, q \notin raced'
      PROVE  /\ q \notin raced
             /\ q \in {mv.from, mv.to} => ~Dirty(mv.to)
  BY <1>1, <1>9, MoveFree DEF KeptRow, At
<1>10. ASSUME NEW q \in Paths, q \notin raced', acked'[q] # None
       PROVE  Kept(q, Outdated)'
  <2>1. CASE q = mv.to
    <3>1. ~Dirty(q) /\ q \notin raced
      BY <1>9, <1>10, <2>1
    <3>2. Kept(q, Outdated)
      BY <1>1, <1>8, <1>10, <3>1 DEF RenameInv, KeptR, KeptAt
    <3> QED BY <1>1, <1>4, <1>6, <2>1, <3>1, <3>2 DEF Kept, Dirty, Uploaded
  <2>2. CASE q # mv.to
    BY <1>1, <1>6, <1>8, <1>9, <1>10, <2>2, KeptRest
  <2> QED BY <2>1, <2>2
<1>11. KeptR'
  BY <1>8, <1>10 DEF KeptR, KeptAt
<1>12. MovingInv'
  <2>1. mv.from \notin raced' => mv.from \notin raced /\ ~Dirty(mv.to)
    BY <1>2, <1>9
  <2>2. Dirty(mv.from)' => Dirty(mv.from)
    BY <1>2, <1>5, <1>6 DEF Dirty
  <2>3. ~Dirty(mv.to) => ~Dirty(mv.to)'
    BY <1>4, <1>5, <1>6 DEF Dirty
  <2> QED BY <1>1, <1>2, <1>4, <1>5, <1>7, <2>1, <2>2, <2>3 DEF RenameInv, MovingInv
<1>13. MoveTypeOK' /\ Strayed
  BY <1>1, <1>5 DEF RenameInv, MoveTypeOK, Strayed, Moved
<1>14. obj \in [Paths -> Content \cup {None}] /\ acked \in [Paths -> Content \cup {None}]
  BY DEF RenameInv, TypeInv, TypeOK, StorageTypeOK, HandlesTypeOK
<1> QED BY <1>1, <1>6, <1>11, <1>12, <1>13, <1>14, MoveCore

\* From now on the edits of the old path wait in the hands of the rename.
LEMMA UnrowMove ==
  ASSUME RenameInv, MoveStep, RenameUnrow
  PROVE  RenameInv'
<1>1. /\ mv # None /\ mv.at = "unrow" /\ GoTo("copy") /\ row' = [row EXCEPT ![mv.from] = None]
      /\ UNCHANGED <<obj, acked, misnamed>>
  BY DEF RenameUnrow, At
<1>2. /\ mv \in Move /\ mv.from \in Paths /\ mv.to \in Paths /\ mv.from # mv.to /\ rm = {}
  BY <1>1, MoveTyped
<1>3. /\ mv' \in Move /\ mv' # None /\ mv'.at = "copy" /\ mv'.from = mv.from /\ mv'.to = mv.to
      /\ mv'.pending = mv.pending /\ mv'.entry = mv.entry
  BY <1>1, <1>2, GoToEffect DEF Steps
<1>4. /\ row' \in [Paths -> Row \cup {None}] /\ row'[mv.from] = None
      /\ \A q \in Paths : q # mv.from => row'[q] = row[q]
  BY <1>1, <1>2 DEF RenameInv, TypeInv, TypeOK, StorageTypeOK
<1>5. UNCHANGED <<link, data, rm, daemonVars>>
  BY MoveFrame
<1>6. \A q \in Paths : q \notin raced' => q \notin raced
  BY <1>1, MoveFree
<1>7. ASSUME NEW q \in Paths, q \notin raced', acked'[q] # None, q = mv.from
      PROVE  Carries(q)'
  <2>1. Kept(q, Outdated) /\ (Dirty(q) => mv.pending)
    BY <1>1, <1>2, <1>6, <1>7 DEF RenameInv, KeptR, KeptAt, InTransit, MovingInv
  <2>2. acked'[q].len > 0 /\ row'[q] = None /\ (Uploaded(q) => Uploaded(q)')
    BY <1>1, <1>4, <1>7, <2>1 DEF Kept, Uploaded
  <2>3. Dirty(q) => Hand(q)'
    BY <1>1, <1>3, <1>5, <2>1 DEF Kept, Waiting, Hand
  <2> QED BY <1>3, <2>1, <2>2, <2>3 DEF Carries, Kept
<1>8. ASSUME NEW q \in Paths, q \notin raced', acked'[q] # None, q # mv.from
      PROVE  Kept(q, Outdated)'
  BY <1>1, <1>4, <1>6, <1>8, KeptRest DEF InTransit
<1>9. KeptR'
  BY <1>3, <1>7, <1>8 DEF KeptR, KeptAt, InTransit
<1>10. MovingInv'
  <2>1. ~Dirty(mv.to) => ~Dirty(mv.to)'
    BY <1>2, <1>3, <1>4 DEF Dirty
  <2> QED BY <1>1, <1>2, <1>3, <1>5, <1>6, <2>1 DEF RenameInv, MovingInv
<1>11. MoveTypeOK' /\ Strayed
  BY <1>1, <1>3 DEF RenameInv, MoveTypeOK, Strayed, Moved
<1>12. obj \in [Paths -> Content \cup {None}] /\ acked \in [Paths -> Content \cup {None}]
  BY DEF RenameInv, TypeInv, TypeOK, StorageTypeOK, HandlesTypeOK
<1> QED BY <1>1, <1>4, <1>9, <1>10, <1>11, <1>12, MoveCore

\* A refused call leaves the edits with the row they wait in.
LEMMA RefusedMove ==
  ASSUME RenameInv, MoveStep, RenameRefused
  PROVE  RenameInv'
<1>1. /\ mv # None /\ mv.at \in {"replace", "row", "unrow"}
      /\ mv' = None \/ (mv.at = "replace" /\ GoTo("row"))
      /\ UNCHANGED <<row, obj, acked, misnamed>>
  BY DEF RenameRefused, At, storageVars
<1>2. /\ mv \in Move /\ mv.from \in Paths /\ mv.to \in Paths /\ mv.from # mv.to /\ rm = {}
  BY <1>1, MoveTyped
<1>3. \/ mv' = None
      \/ /\ mv.at = "replace" /\ mv' \in Move /\ mv' # None /\ mv'.at = "row"
         /\ mv'.from = mv.from /\ mv'.to = mv.to /\ mv'.pending = mv.pending
  BY <1>1, <1>2, GoToEffect DEF Steps
<1>4. UNCHANGED <<link, data, rm, daemonVars>>
  BY MoveFrame
<1>5. \A q \in Paths : q \notin raced' => q \notin raced
  BY <1>1, MoveFree
<1>6. KeptR'
  BY <1>1, <1>3, <1>5, KeptRest DEF KeptR, KeptAt, InTransit
<1>7. MovingInv'
  BY <1>1, <1>2, <1>3, <1>4, <1>5 DEF RenameInv, MovingInv, Dirty
<1>8. MoveTypeOK' /\ Strayed
  BY <1>1, <1>3 DEF RenameInv, MoveTypeOK, Strayed, Moved
<1>9. row \in [Paths -> Row \cup {None}] /\ obj \in [Paths -> Content \cup {None}]
      /\ acked \in [Paths -> Content \cup {None}]
  BY DEF RenameInv, TypeInv, TypeOK, StorageTypeOK, HandlesTypeOK
<1> QED BY <1>1, <1>6, <1>7, <1>8, <1>9, MoveCore

-----------------------------------------------------------------------------
(* The content moves.                                                      *)

\* The object at the new path becomes content c, which there is.
LEMMA MovedObject ==
  ASSUME RenameInv, mv # None, NEW c,
         (\E q \in Paths : c = obj[q]) \/ (\E i \in Inodes : c = data[i]), c # None,
         obj' = [obj EXCEPT ![mv.to] = c]
  PROVE  /\ obj' \in [Paths -> Content \cup {None}]
         /\ obj'[mv.to] = c /\ \A q \in Paths : q # mv.to => obj'[q] = obj[q]
         /\ \A q \in Paths : \/ obj'[q] = None \/ \E r \in Paths : obj'[q] = obj[r]
                             \/ \E i \in Inodes : obj'[q] = data[i]
<1>1. mv.to \in Paths
  BY MoveTyped
<1>2. obj \in [Paths -> Content \cup {None}] /\ data \in [Inodes -> Content]
  BY DEF RenameInv, TypeInv, TypeOK, StorageTypeOK
<1>3. c \in Content
  BY <1>2
<1> QED BY <1>1, <1>2, <1>3

\* Where the handler gives up with the promise of the old name, the new name is
\* raced, or there was none.
LEMMA GiveUpMove ==
  ASSUME RenameInv, MoveStep, mv # None, mv.at \in {"copy", "open", "put"}, GiveUp,
         UNCHANGED row,
         \/ UNCHANGED obj
         \/ \E c : /\ (\E q \in Paths : c = obj[q]) \/ (\E i \in Inodes : c = data[i])
                   /\ c # None /\ obj' = [obj EXCEPT ![mv.to] = c],
         mv.from \in raced \/ acked[mv.from] = None \/ mv.to \in raced' \/ ~Carries(mv.from)
  PROVE  RenameInv'
<1>1. /\ mv' = None /\ misnamed' = misnamed \cup NodesOf({mv.from, mv.to}) /\ HandOver
  BY DEF GiveUp, Return
<1>2. /\ mv \in Move /\ mv.from \in Paths /\ mv.to \in Paths /\ mv.from # mv.to
      /\ TypeInv
  BY MoveTyped DEF RenameInv
<1>3. /\ acked' \in [Paths -> Content \cup {None}]
      /\ \A q \in Paths : acked'[q] = None \/ \E r \in Paths : acked'[q] = acked[r]
  BY <1>1, <1>2, HandOverEffect
<1>4. /\ row \in [Paths -> Row \cup {None}]
      /\ obj' \in [Paths -> Content \cup {None}]
      /\ \A q \in Paths : q # mv.to => obj'[q] = obj[q]
      /\ \A q \in Paths : \/ obj'[q] = None \/ \E r \in Paths : obj'[q] = obj[r]
                          \/ \E i \in Inodes : obj'[q] = data[i]
  BY <1>2, MovedObject DEF TypeInv, TypeOK, StorageTypeOK
<1>5. KeptR'
  BY <1>1, <1>4, HandedOver
<1>6. MovingInv' /\ Strayed /\ MoveTypeOK'
  BY <1>1 DEF MovingInv, Strayed, MoveTypeOK, RenameInv, NodesOf
<1> QED BY <1>1, <1>3, <1>4, <1>5, <1>6, MoveCore DEF Moved

\* The object that is copied is what was promised, or the new name is raced.
LEMMA CopyMove ==
  ASSUME RenameInv, MoveStep, Copy
  PROVE  RenameInv'
<1>1. /\ mv # None /\ mv.at = "copy" /\ HandOver /\ GoTo("delete") /\ obj[mv.from] # None
      /\ obj' = [obj EXCEPT ![mv.to] = obj[mv.from]]
      /\ UNCHANGED <<row, misnamed>>
  BY DEF Copy, At
<1>2. /\ mv \in Move /\ mv.from \in Paths /\ mv.to \in Paths /\ mv.from # mv.to
      /\ TypeInv /\ rm = {}
  BY <1>1, MoveTyped DEF RenameInv
<1>3. /\ mv' \in Move /\ mv' # None /\ mv'.at = "delete" /\ mv'.from = mv.from /\ mv'.to = mv.to
  BY <1>1, <1>2, GoToEffect DEF Steps
<1>4. /\ acked' \in [Paths -> Content \cup {None}] /\ acked'[mv.from] = None
      /\ \A q \in Paths : acked'[q] = None \/ \E r \in Paths : acked'[q] = acked[r]
  BY <1>1, <1>2, HandOverEffect
<1>5. /\ row \in [Paths -> Row \cup {None}]
      /\ obj' \in [Paths -> Content \cup {None}] /\ obj'[mv.to] = obj[mv.from]
      /\ \A q \in Paths : q # mv.to => obj'[q] = obj[q]
      /\ \A q \in Paths : \/ obj'[q] = None \/ \E r \in Paths : obj'[q] = obj[r]
                          \/ \E i \in Inodes : obj'[q] = data[i]
  BY <1>1, <1>2, MovedObject DEF TypeInv, TypeOK, StorageTypeOK
<1>6. ASSUME mv.to \notin raced', Carries(mv.from)
      PROVE  obj'[mv.to] # None /\ Covers(obj'[mv.to], acked[mv.from])
  <2>1. ~StaleCopy(mv.to)
    BY <1>2, <1>6, MoveFree
  <2>2. CASE Uploaded(mv.from)
    BY <1>1, <1>5, <2>2 DEF Uploaded
  <2>3. CASE Hand(mv.from)
    BY <1>1, <1>5, <2>1, <2>3 DEF Hand, StaleCopy, At
  <2> QED BY <1>1, <1>6, <2>2, <2>3 DEF Carries
<1>7. KeptR'
  BY <1>1, <1>3, <1>5, <1>6, HandedOver
<1>8. MovingInv' /\ Strayed /\ MoveTypeOK'
  BY <1>1, <1>2, <1>3, <1>4, MoveFrame DEF MovingInv, Strayed, MoveTypeOK, RenameInv, Moved
<1> QED BY <1>1, <1>4, <1>5, <1>7, <1>8, MoveCore DEF Moved

\* A copy or an upload that fails is noted on the new name.
LEMMA CopyFailsMove ==
  ASSUME RenameInv, MoveStep, CopyFails \/ PutOldFails
  PROVE  RenameInv'
<1>1. /\ mv # None /\ mv.at \in {"copy", "put"} /\ GiveUp /\ mv' = None /\ UNCHANGED row
  BY DEF CopyFails, PutOldFails, At, GiveUp, Return
<1>2. mv.to \in Paths /\ mv.from \in Paths
  BY <1>1, MoveTyped
<1>3. mv.to \in raced'
  BY <1>1, <1>2, MoveFree DEF FailedMove, At
<1>4. \/ UNCHANGED obj
      \/ \E c : /\ (\E q \in Paths : c = obj[q]) \/ (\E i \in Inodes : c = data[i])
                /\ c # None /\ obj' = [obj EXCEPT ![mv.to] = c]
  <2>1. CASE CopyFails
    BY <1>2, <2>1 DEF CopyFails
  <2>2. CASE PutOldFails
    <3>1. mv.ino \in Inodes /\ data[mv.ino] # None
      BY <1>1, <2>2, StorageAssumption
         DEF PutOldFails, At, RenameInv, MovingInv, TypeInv, TypeOK, StorageTypeOK
    <3> QED BY <2>2, <3>1 DEF PutOldFails
  <2> QED BY <2>1, <2>2
<1> QED BY <1>1, <1>3, <1>4, GiveUpMove

\* There is no object: what was promised, if anything, waits in the staging file.
LEMMA MissingMove ==
  ASSUME RenameInv, MoveStep, CopyMissing
  PROVE  RenameInv'
<1>1. /\ mv # None /\ mv.at = "copy" /\ GoTo("open") /\ obj[mv.from] = None
      /\ UNCHANGED <<row, obj, link, data, acked, misnamed>>
  BY DEF CopyMissing, At, storageVars
<1>2. /\ mv \in Move /\ mv.from \in Paths /\ mv.to \in Paths /\ mv.from # mv.to /\ rm = {}
  BY <1>1, MoveTyped
<1>3. /\ mv' \in Move /\ mv' # None /\ mv'.at = "open" /\ mv'.from = mv.from /\ mv'.to = mv.to
      /\ mv'.pending = mv.pending /\ mv'.entry = mv.entry
  BY <1>1, <1>2, GoToEffect DEF Steps
<1>4. \A q \in Paths : InTransit(q)' = InTransit(q)
  BY <1>1, <1>3 DEF InTransit
<1>5. raced \subseteq raced'
  BY <1>1, <1>3 DEF MoveStep, Carried, At
<1>6. ASSUME NEW q \in Paths, q \notin raced', acked'[q] # None, InTransit(q)
      PROVE  Carries(q)'
  <2>1. Carries(q)
    BY <1>1, <1>5, <1>6 DEF RenameInv, KeptR, KeptAt
  <2>2. q = mv.from /\ ~Uploaded(q)
    BY <1>1, <1>6 DEF InTransit, Uploaded
  <2>3. Hand(q)'
    BY <1>1, <1>3, <2>1, <2>2 DEF Carries, Hand
  <2> QED BY <1>1, <2>1, <2>3 DEF Carries
<1>7. KeptR'
  BY <1>1, <1>4, <1>5, <1>6, KeptRest DEF KeptR, KeptAt
<1>8. MovingInv' /\ Strayed /\ MoveTypeOK'
  BY <1>1, <1>2, <1>3, <1>5, MoveFrame DEF MovingInv, Strayed, MoveTypeOK, RenameInv, Moved, Dirty
<1>9. row \in [Paths -> Row \cup {None}] /\ obj \in [Paths -> Content \cup {None}]
      /\ acked \in [Paths -> Content \cup {None}]
  BY DEF RenameInv, TypeInv, TypeOK, StorageTypeOK, HandlesTypeOK
<1> QED BY <1>1, <1>7, <1>8, <1>9, MoveCore

\* The old name promises nothing any more, or it is raced.
LEMMA DeleteMove ==
  ASSUME RenameInv, MoveStep, DeleteOld
  PROVE  RenameInv'
<1>1. /\ mv # None /\ mv.at = "delete" /\ mv' = None
      /\ misnamed' = misnamed \cup NodesOf({mv.from, mv.to})
      /\ UNCHANGED obj \/ obj' = [obj EXCEPT ![mv.from] = None]
      /\ UNCHANGED <<row, acked>>
  BY DEF DeleteOld, Return, At
<1>2. mv.from \in Paths
  BY <1>1, MoveTyped
<1>3. /\ obj \in [Paths -> Content \cup {None}] /\ row \in [Paths -> Row \cup {None}]
      /\ acked \in [Paths -> Content \cup {None}]
  BY DEF RenameInv, TypeInv, TypeOK, StorageTypeOK, HandlesTypeOK
<1>4. /\ obj' \in [Paths -> Content \cup {None}]
      /\ \A q \in Paths : obj'[q] \in {obj[q], None} /\ (q # mv.from => obj'[q] = obj[q])
  BY <1>1, <1>2, <1>3
<1>5. \A q \in Paths : q \notin raced' => q \notin raced
  BY <1>1, MoveFree
<1>6. \A q \in Paths : ~InTransit(q) /\ ~InTransit(q)'
  BY <1>1 DEF InTransit
<1>7. ASSUME NEW q \in Paths, q \notin raced', acked'[q] # None
      PROVE  Kept(q, Outdated)'
  <2>1. q # mv.from
    BY <1>1, <1>5, <1>7 DEF RenameInv, MovingInv
  <2> QED BY <1>1, <1>4, <1>5, <1>6, <1>7, <2>1, KeptRest
<1>8. KeptR'
  BY <1>6, <1>7 DEF KeptR, KeptAt
<1>9. MovingInv' /\ Strayed /\ MoveTypeOK'
  BY <1>1 DEF MovingInv, Strayed, MoveTypeOK, RenameInv, NodesOf
<1> QED BY <1>1, <1>3, <1>4, <1>8, <1>9, MoveCore

\* A staging file that covers a promise is not empty.
LEMMA OpenMove ==
  ASSUME RenameInv, MoveStep, OpenOld
  PROVE  RenameInv'
<1> DEFINE i == link[mv.from]
<1>1. /\ mv # None /\ mv.at = "open"
      /\ UNCHANGED <<row, obj, link, data>>
      /\ IF i # None /\ data[i].len > 0
           THEN mv' = [mv EXCEPT !.at = "put", !.ino = i, !.size = data[i].len] /\ UNCHANGED <<acked, misnamed>>
           ELSE GiveUp
  BY DEF OpenOld, At, storageVars
<1>2. /\ mv \in Move /\ mv.from \in Paths /\ mv.to \in Paths /\ mv.from # mv.to /\ rm = {}
  BY <1>1, MoveTyped
<1>3. CASE ~(i # None /\ data[i].len > 0)
  <2>1. mv.from \notin raced /\ acked[mv.from] # None => acked[mv.from] \in Content
    BY <1>2 DEF RenameInv, TypeInv, TypeOK, HandlesTypeOK
  <2>2. i # None => data[i] \in Content
    BY <1>2 DEF RenameInv, TypeInv, TypeOK, StorageTypeOK
  <2>3. ASSUME mv.from \notin raced, acked[mv.from] # None, Carries(mv.from)
        PROVE  FALSE
    <3>1. i # None /\ data[i].len >= acked[mv.from].len /\ acked[mv.from].len > 0
      BY <1>1, <2>3 DEF Carries, Hand, Covers
    <3>2. acked[mv.from].len \in Nat /\ data[i].len \in Nat
      BY <2>1, <2>2, <2>3, <3>1, StorageAssumption DEF Content, Sizes
    <3> QED BY <1>3, <3>1, <3>2
  <2> QED BY <1>1, <1>3, <2>3, GiveUpMove
<1>4. CASE i # None /\ data[i].len > 0
  <2>1. i \in Inodes /\ data[i].len \in Sizes
    BY <1>2, <1>4 DEF RenameInv, TypeInv, TypeOK, StorageTypeOK, Content
  <2>2. /\ mv' \in Move /\ mv' # None /\ mv'.at = "put" /\ mv'.from = mv.from /\ mv'.to = mv.to
        /\ mv'.pending = mv.pending /\ mv'.entry = mv.entry /\ mv'.ino = i
    BY <1>1, <1>2, <1>4, <2>1, OpenEffect
  <2>3. UNCHANGED <<acked, misnamed>> /\ raced \subseteq raced'
    BY <1>1, <1>4, <2>2 DEF MoveStep, Carried, At
  <2>4. \A q \in Paths : InTransit(q)' = InTransit(q)
    BY <1>1, <2>2 DEF InTransit
  <2>5. ASSUME NEW q \in Paths, q \notin raced', acked'[q] # None, InTransit(q)
        PROVE  Carries(q)'
    <3>1. Carries(q)
      BY <2>3, <2>5 DEF RenameInv, KeptR, KeptAt
    <3>2. q = mv.from /\ Hand(q)
      BY <1>1, <2>5, <3>1 DEF InTransit, Carries
    <3>3. Hand(q)'
      BY <1>1, <2>2, <2>3, <3>2 DEF Hand
    <3> QED BY <1>1, <2>3, <3>1, <3>3 DEF Carries
  <2>6. KeptR'
    BY <1>1, <2>3, <2>4, <2>5, KeptRest DEF KeptR, KeptAt
  <2>7. MovingInv' /\ Strayed /\ MoveTypeOK'
    BY <1>1, <1>2, <2>1, <2>2, <2>3, MoveFrame DEF MovingInv, Strayed, MoveTypeOK, RenameInv, Moved, Dirty
  <2>8. row \in [Paths -> Row \cup {None}] /\ obj \in [Paths -> Content \cup {None}]
        /\ acked \in [Paths -> Content \cup {None}]
    BY DEF RenameInv, TypeInv, TypeOK, StorageTypeOK, HandlesTypeOK
  <2> QED BY <1>1, <2>3, <2>6, <2>7, <2>8, MoveCore
<1> QED BY <1>3, <1>4

\* The staging file that is put is the one that was promised.
LEMMA PutMove ==
  ASSUME RenameInv, MoveStep, PutOld
  PROVE  RenameInv'
<1>1. /\ mv # None /\ mv.at = "put" /\ HandOver /\ GoTo("size")
      /\ obj' = [obj EXCEPT ![mv.to] = data[mv.ino]]
      /\ UNCHANGED <<row, misnamed>>
  BY DEF PutOld, At
<1>2. /\ mv \in Move /\ mv.from \in Paths /\ mv.to \in Paths /\ mv.from # mv.to
      /\ TypeInv /\ rm = {}
  BY <1>1, MoveTyped DEF RenameInv
<1>3. /\ mv' \in Move /\ mv' # None /\ mv'.at = "size" /\ mv'.from = mv.from /\ mv'.to = mv.to
      /\ mv'.entry = mv.entry
  BY <1>1, <1>2, GoToEffect DEF Steps
<1>4. /\ acked' \in [Paths -> Content \cup {None}] /\ acked'[mv.from] = None
      /\ \A q \in Paths : acked'[q] = None \/ \E r \in Paths : acked'[q] = acked[r]
  BY <1>1, <1>2, HandOverEffect DEF RenameInv
<1>5. mv.ino \in Inodes /\ data[mv.ino] # None
  BY <1>1, StorageAssumption DEF RenameInv, MovingInv, TypeInv, TypeOK, StorageTypeOK
<1>6. /\ row \in [Paths -> Row \cup {None}]
      /\ obj' \in [Paths -> Content \cup {None}] /\ obj'[mv.to] = data[mv.ino]
      /\ \A q \in Paths : q # mv.to => obj'[q] = obj[q]
      /\ \A q \in Paths : \/ obj'[q] = None \/ \E r \in Paths : obj'[q] = obj[r]
                          \/ \E i \in Inodes : obj'[q] = data[i]
  BY <1>1, <1>2, <1>5, MovedObject DEF TypeInv, TypeOK, StorageTypeOK
<1>7. Carries(mv.from) => obj'[mv.to] # None /\ Covers(obj'[mv.to], acked[mv.from])
  BY <1>1, <1>5, <1>6 DEF Carries, Hand
<1>8. KeptR'
  BY <1>1, <1>3, <1>6, <1>7, HandedOver
<1>9. MovingInv' /\ Strayed /\ MoveTypeOK'
  <2>1. mv.to \notin raced' => ~mv.entry.dirty
    BY <1>1, <1>2, <1>3 DEF MoveStep, Carried, At, RenameInv, MovingInv
  <2> QED BY <1>1, <1>2, <1>3, <1>4, <2>1, MoveFrame DEF MovingInv, Strayed, MoveTypeOK, RenameInv, Moved
<1> QED BY <1>1, <1>4, <1>6, <1>8, <1>9, MoveCore DEF Moved

\* The new row stays as it was but for its size.
LEMMA SizeMove ==
  ASSUME RenameInv, MoveStep, SizeOld
  PROVE  RenameInv'
<1> DEFINE e == [mv.entry EXCEPT !.size = mv.size]
           r == UpdateEntry(row[mv.to], e)
<1>1. /\ mv # None /\ mv.at = "size" /\ mv' = None
      /\ misnamed' = misnamed \cup NodesOf({mv.from, mv.to})
      /\ Store(mv.to, r)
      /\ UNCHANGED <<obj, acked>>
  BY DEF SizeOld, Return, At
<1>2. /\ mv.to \in Paths /\ mv.entry \in Row /\ mv.size \in Sizes
  BY <1>1, MoveTyped
<1>3. /\ obj \in [Paths -> Content \cup {None}] /\ row \in [Paths -> Row \cup {None}]
      /\ acked \in [Paths -> Content \cup {None}]
  BY DEF RenameInv, TypeInv, TypeOK, StorageTypeOK, HandlesTypeOK
<1>4. e \in Row /\ e.dirty = mv.entry.dirty
  BY <1>2 DEF Row
<1>5. /\ r \in Row
      /\ r.dirty = (Dirty(mv.to) \/ mv.entry.dirty)
      /\ Dirty(mv.to) /\ row[mv.to].staged => r.staged
  <2>1. row[mv.to] \in Row \cup {None}
    BY <1>2, <1>3
  <2>2. r \in Row
    BY <1>4, <2>1, UpdateEntryType
  <2>3. /\ r.dirty = (Dirty(mv.to) \/ mv.entry.dirty)
        /\ Dirty(mv.to) /\ row[mv.to].staged => r.staged
    BY <1>4, <2>1 DEF UpdateEntry, Dirty, Row
  <2> QED BY <2>2, <2>3
<1> HIDE DEF e, r
<1>6. /\ row' \in [Paths -> Row \cup {None}]
      /\ row'[mv.to] \in {r, row[mv.to]}
      /\ \A q \in Paths : q # mv.to => row'[q] = row[q]
  BY <1>1, <1>2, <1>5, StoreEffect DEF RenameInv, TypeInv, TypeOK
<1>7. UNCHANGED <<link, data, daemonVars>>
  BY MoveFrame
<1>8. \A q \in Paths : q \notin raced' => q \notin raced
  BY <1>1, MoveFree
<1>9. \A q \in Paths : ~InTransit(q) /\ ~InTransit(q)'
  BY <1>1 DEF InTransit
<1>10. ASSUME NEW q \in Paths, q \notin raced', acked'[q] # None
       PROVE  Kept(q, Outdated)'
  <2>1. CASE q = mv.to
    <3>1. Kept(q, Outdated) /\ ~mv.entry.dirty
      BY <1>1, <1>8, <1>9, <1>10, <2>1 DEF RenameInv, KeptR, KeptAt, MovingInv
    <3>2. Dirty(q)' = Dirty(q) /\ (Dirty(q) /\ row[q].staged => row'[q].staged)
      BY <1>5, <1>6, <2>1, <3>1, StorageAssumption DEF Dirty
    <3>3. Outdated[q]' = Outdated[q]
      BY <1>1, <1>7 DEF Outdated, daemonVars
    <3> QED BY <1>1, <1>7, <3>1, <3>2, <3>3 DEF Kept, Waiting, Uploaded, Dirty
  <2>2. CASE q # mv.to
    BY <1>1, <1>6, <1>8, <1>9, <1>10, <2>2, KeptRest
  <2> QED BY <2>1, <2>2
<1>11. KeptR'
  BY <1>9, <1>10 DEF KeptR, KeptAt
<1>12. MovingInv' /\ Strayed /\ MoveTypeOK'
  BY <1>1 DEF MovingInv, Strayed, MoveTypeOK, RenameInv, NodesOf
<1> QED BY <1>1, <1>3, <1>6, <1>11, <1>12, MoveCore

\* A step of a rename preserves the invariant.
LEMMA MoveInv ==
  ASSUME RenameInv, MoveStep
  PROVE  RenameInv'
<1>1. RenameStep
  BY DEF MoveStep
<1> QED BY <1>1, StartMove, ReplaceMove, RowMove, UnrowMove, RefusedMove, CopyMove, CopyFailsMove,
           MissingMove, DeleteMove, OpenMove, PutMove, SizeMove DEF RenameStep

-----------------------------------------------------------------------------
(* The restart, and the whole.                                             *)

\* After a crash the content that was in transit is in the bucket, or raced.
LEMMA RestartInv ==
  ASSUME RenameInv, RestartMoving
  PROVE  RenameInv'
<1>1. /\ UNCHANGED <<row, obj, link, data, wid, acked>> /\ rm' = {}
      /\ \A h \in Handles : hnd'[h] = Closed
      /\ pc' = "sleep" /\ cur' = None /\ buf' = None
      /\ mv' = None /\ misnamed' = {} /\ Crash
  BY DEF RestartMoving, Crash, storageVars
<1>2. TypeInv /\ WrittenInv /\ LinkedInv
  BY DEF RenameInv
<1>3. raced' = raced \cup {p \in Paths : DiedMoving(p)} /\ raced' \subseteq Paths
  BY DEF RestartMoving, RenameInv, TypeInv, TypeOK
<1>4. TypeInv'
  BY <1>1, <1>2, <1>3, TypeKept
<1>5. WrittenInv' /\ RemovedInv'
  BY <1>1, <1>2, WrittenFrame DEF Closed, RemovedInv
<1>6. LinkedInv'
  BY <1>1, <1>2, LinkedFrame DEF Closed
<1>7. HeldOff(Strays, Outdated)'
  BY <1>1 DEF HeldOff, Closed
<1>8. ASSUME NEW p \in Paths, p \notin raced', acked'[p] # None
      PROVE  Kept(p, Outdated)'
  <2>1. acked[p] # None /\ p \notin raced /\ ~DiedMoving(p) /\ KeptAt(p)
    BY <1>1, <1>3, <1>8 DEF RenameInv, KeptR
  <2>2. CASE InTransit(p)
    <3>1. Carries(p) /\ ~mv.pending
      BY <2>1, <2>2 DEF KeptAt, InTransit, DiedMoving, At
    <3> QED BY <1>1, <3>1 DEF Carries, Hand, Kept, Dirty, Uploaded
  <2>3. CASE ~InTransit(p)
    <3>1. Kept(p, Outdated)
      BY <2>1, <2>3 DEF KeptAt
    <3>2. Outdated[p]' \subseteq Outdated[p]
      BY <1>1 DEF Outdated
    <3> QED BY <1>1, <3>1, <3>2 DEF Kept, Dirty, Waiting, Uploaded
  <2> QED BY <2>2, <2>3
<1>9. KeptR'
  BY <1>1, <1>8 DEF KeptR, KeptAt, InTransit
<1>10. MovingInv' /\ MoveTypeOK'
  BY <1>1 DEF MovingInv, MoveTypeOK
<1> QED BY <1>4, <1>5, <1>6, <1>7, <1>9, <1>10 DEF RenameInv

\* At first every promise is uploaded, or waits in a staging file of its own.
LEMMA RenameInitInv == ASSUME RenameInit PROVE RenameInv
<1>1. PICK synced \in SUBSET Paths, staged \in [Paths -> Inodes \cup {None}] :
        /\ \A p, q \in Paths : p # q /\ staged[p] = staged[q] => staged[p] = None
        /\ InitWaiting(synced, staged)
  BY DEF RenameInit
<1>2. /\ row  = [p \in Paths |-> IF staged[p] # None THEN Waits ELSE IF p \in synced THEN SyncedRow ELSE None]
      /\ obj  = [p \in Paths |-> IF p \in synced THEN Version(1) ELSE None]
      /\ link = staged
      /\ data = [i \in Inodes |-> IF \E p \in Paths : staged[p] = i THEN Version(2) ELSE Empty]
      /\ wid  = 2
      /\ node = [n \in Nodes |-> None] /\ head = [n \in Nodes |-> None]
      /\ hnd  = [h \in Handles |-> Closed] /\ pend = {} /\ rm = {}
      /\ acked = [p \in Paths |-> IF staged[p] # None THEN Version(2) ELSE obj[p]]
      /\ phase = [p \in Paths |-> IF row[p] = None THEN "new" ELSE "flushed"]
      /\ DaemonInit /\ raced = {} /\ crashes = 0
  BY <1>1 DEF InitWaiting
<1>3. mv = None /\ misnamed = {}
  BY DEF RenameInit
<1>4. /\ Waits \in Row /\ SyncedRow \in Row
      /\ Version(1) \in Content /\ Version(2) \in Content /\ 2 \in Versions
      /\ Version(1).len > 0 /\ Version(2).len > 0
  BY StorageAssumption, RenameAssumption
     DEF Waits, SyncedRow, Version, Row, Content, Sizes, Versions
<1>5. Written(Version(1)) /\ Written(Version(2)) /\ Written(Empty)
  BY <1>2 DEF Written, Version, Empty
<1>6. TypeInv
  <2>1. StorageTypeOK
    BY <1>1, <1>2, <1>4, EmptyType DEF StorageTypeOK
  <2>2. HandlesTypeOK /\ HandleShape
    BY <1>2, <1>4, ClosedType DEF HandlesTypeOK, HandleShape
  <2>3. DaemonTypeOK /\ DaemonShape
    BY <1>2 DEF DaemonInit, DaemonTypeOK, DaemonShape, DaemonPcs
  <2>4. phase \in [Paths -> {"new", "created", "flushed"}] /\ crashes \in 0 .. MaxCrashes
    BY <1>2, WriteBackAssumption
  <2> QED BY <1>2, <2>1, <2>2, <2>3, <2>4 DEF TypeInv, TypeOK
<1>7. WrittenInv /\ RemovedInv
  BY <1>2, <1>5 DEF WrittenInv, RemovedInv, DaemonInit, Closed
<1>8. LinkedInv
  BY <1>1, <1>2 DEF LinkedInv, Closed
<1>9. HeldOff(Strays, Outdated)
  BY <1>2 DEF HeldOff, Closed
<1>10. ASSUME NEW p \in Paths, acked[p] # None
       PROVE  Kept(p, Outdated)
  <2>1. CASE staged[p] # None
    <3>1. row[p] = Waits /\ link[p] \in Inodes /\ link[p] # None /\ data[link[p]] = Version(2) /\ acked[p] = Version(2)
      BY <1>2, <2>1
    <3>2. Covers(Version(2), Version(2)) /\ Waits # None /\ Waits.dirty /\ Waits.staged
      BY <1>4, CoversItself, StorageAssumption DEF Waits
    <3>3. Version(2) \notin Outdated[p]
      <4>1. pc # "mark"
        BY <1>2 DEF DaemonInit
      <4>2. \A c \in Outdated[p] : c.len = 0
        BY <4>1 DEF Outdated
      <4> QED BY <1>4, <4>2, StorageAssumption DEF Content, Sizes
    <3> QED BY <1>4, <3>1, <3>2, <3>3 DEF Kept, Dirty, Waiting
  <2>2. CASE staged[p] = None
    <3>1. p \in synced /\ row[p] = SyncedRow /\ obj[p] = Version(1) /\ acked[p] = Version(1)
      BY <1>2, <1>10, <2>2
    <3>2. Covers(Version(1), Version(1)) /\ Version(1) # None /\ ~SyncedRow.dirty
      BY <1>4, CoversItself, StorageAssumption DEF SyncedRow
    <3> QED BY <1>4, <3>1, <3>2 DEF Kept, Dirty, Uploaded
  <2> QED BY <2>1, <2>2
<1>11. KeptR /\ MovingInv /\ MoveTypeOK
  BY <1>3, <1>10 DEF KeptR, KeptAt, InTransit, MovingInv, MoveTypeOK
<1> QED BY <1>6, <1>7, <1>8, <1>9, <1>11 DEF RenameInv

\* Every step preserves the invariant.
LEMMA RenameKept == ASSUME RenameInv, [RenameNext]_renameVars PROVE RenameInv'
<1>1. CASE UNCHANGED renameVars
  <2>1. UNCHANGED vars /\ UNCHANGED <<mv, misnamed>>
    BY <1>1 DEF renameVars
  <2>2. TypeInv' /\ MoveTypeOK'
    BY <2>1, TypeStep DEF RenameInv, MoveTypeOK
  <2>3. WrittenInv' /\ RemovedInv' /\ LinkedInv'
    BY <2>1 DEF vars, storageVars, handleVars, daemonVars, RenameInv, WrittenInv, Written,
       RemovedInv, LinkedInv, Path
  <2>4. HeldOff(Strays, Outdated)'
    BY <2>1 DEF vars, storageVars, handleVars, daemonVars, RenameInv, HeldOff, HeldBy, Strays,
       Outdated, Path
  <2>5. KeptR'
    BY <2>1 DEF vars, storageVars, handleVars, daemonVars, RenameInv, KeptR, KeptAt, InTransit,
       Carries, Hand, Kept, Dirty, Waiting, Uploaded, Outdated
  <2>6. MovingInv'
    BY <2>1 DEF vars, storageVars, handleVars, daemonVars, RenameInv, MovingInv, Dirty
  <2> QED BY <2>2, <2>3, <2>4, <2>5, <2>6 DEF RenameInv
<1> QED BY <1>1, OthersInv, MoveInv, RestartInv DEF RenameNext

\* What is in transit is uploaded under the old name, or the handler has it.
LEMMA TransitHonoured == ASSUME RenameInv PROVE RenameHonoured
BY DEF RenameInv, KeptR, KeptAt, InTransit, Carries, Hand, Kept, RenameHonoured, InHand

\* The content that a close promised follows its file through a rename, whatever
\* the requests on other names, the daemon and a crash do between the calls of
\* the handler, and whichever of these calls fails: it is uploaded, or waits for
\* the daemon, under the name that means the file, or is in the hands of the
\* handler, unless one of the races that Rename.tla lists has happened on it.
THEOREM RenameHonouredAlways == RenameSpec => []RenameHonoured
<1>1. RenameInit => RenameInv
  BY RenameInitInv
<1>2. RenameInv /\ [RenameNext]_renameVars => RenameInv'
  BY RenameKept
<1>3. RenameInv => RenameHonoured
  BY TransitHonoured
<1> QED BY <1>1, <1>2, <1>3, PTL DEF RenameSpec
=============================================================================
