-------------------------- MODULE LifecycleProofs --------------------------
(***************************************************************************)
(* Proofs about S3Sync and about the life of the process that runs it, for *)
(* any number of paths, pages, sizes and deaths, for any changes to the    *)
(* bucket during a run, and with a database that fails.  Every step of     *)
(* Lifecycle is a step of S3Sync, or changes nothing of it: what is shown  *)
(* of S3Sync first holds in every life.                                    *)
(*                                                                         *)
(* For PopulatedFirst, Met says what has become of the objects that a run  *)
(* has met: each has a row by now, unless it is the one being processed or *)
(* was missing at some time of the run.                                    *)
(***************************************************************************)
EXTENDS Lifecycle, TLAPS

\* The path of an object of the current page that is still to be processed.
OnPage(p) == \E e \in page : e.path = p

\* What a run knows: a path is still to be listed, or was met, or had no
\* object when its page was listed.  When the listing is over only the last two
\* are left, which is why the rows that were not met may go.
RunInv ==
  /\ \A p \in Paths : obj[p] = None => p \in gone
  /\ syncPc = "idle" => gone = {p \in Paths : obj[p] = None} /\ unlisted = {} /\ keys = {}
  /\ syncPc # "idle" => \A p \in Paths : p \in unlisted \/ OnPage(p) \/ p \in keys \/ p \in gone
  /\ syncPc \in {"idle", "list"} => page = {}
  /\ syncPc \in {"reconcile", "delete"} => unlisted = {} /\ page = {}
  /\ doomed # {} => syncPc = "delete"
  /\ doomed \subseteq gone

Inv == TypeOK /\ RunInv

-----------------------------------------------------------------------------
\* What UpdateEntry leaves is a row.
LEMMA UpdateEntryType ==
  ASSUME NEW r \in Row \cup {None}, NEW e \in Row
  PROVE  UpdateEntry(r, e) \in Row
BY DEF UpdateEntry, Row

\* The entry of a listed object is a row.
LEMMA SyncEntryType ==
  ASSUME NEW s \in Sizes, NEW old \in BOOLEAN
  PROVE  SyncEntry(s, old) \in Row
BY DEF SyncEntry, Row

\* An object of the current page.
LEMMA PageItem == ASSUME SyncTypeOK, NEW e \in page PROVE e \in Item /\ e.path \in Paths /\ e.size \in Sizes
BY DEF SyncTypeOK, Item

\* The deletion of a row touches no other row.
LEMMA StoreNone ==
  ASSUME StorageTypeOK, NEW p \in Paths, Store(p, None)
  PROVE  row' \in [Paths -> Row \cup {None}] /\ \A q \in Paths \ {p} : row'[q] = row[q]
BY DEF Store, StorageTypeOK

\* Only rows of P are removed.
RowsGo(P) == \A p \in Paths : row[p] # None /\ row'[p] = None => p \in P

\* A step of the goroutine keeps the types, and only DeleteRow removes a row.
LEMMA StepType ==
  ASSUME StorageTypeOK, SyncTypeOK, Shape, SyncStep(FALSE)
  PROVE  StorageTypeOK' /\ SyncTypeOK' /\ Shape' /\ RowsGo(doomed)
<1> DEFINE Good == StorageTypeOK' /\ SyncTypeOK' /\ Shape' /\ RowsGo(doomed)
<1>s. UNCHANGED storageVars => StorageTypeOK' /\ RowsGo(doomed)
  BY DEF storageVars, StorageTypeOK, RowsGo
<1>o. RunOver => SyncTypeOK' /\ Shape'
  BY DEF RunOver, SyncTypeOK, SyncPcs, Shape
<1>1. CASE SyncStart
  BY <1>1, <1>s DEF SyncStart, SyncTypeOK, SyncPcs, Shape
<1>2. CASE ListFails \/ SyncDone
  BY <1>2, <1>s, <1>o DEF ListFails, SyncDone
<1>3. CASE DropStaging
  BY <1>3 DEF DropStaging, StorageTypeOK, SyncTypeOK, SyncPcs, Shape, RowsGo
<1>4. CASE PageDone
  BY <1>4, <1>s DEF PageDone, SyncTypeOK, SyncPcs, Shape
<1>5. CASE Reconcile
  <2>1. CASE RunOver /\ UNCHANGED storageVars
    BY <2>1, <1>s, <1>o
  <2>2. CASE ~RunOver
    BY <1>5, <2>2, <1>s DEF Reconcile, SyncTypeOK, SyncPcs, Shape
  <2> QED BY <1>5, <2>1, <2>2 DEF Reconcile
<1>6. ASSUME NEW P \in SUBSET unlisted, ListPage(P) PROVE Good
  <2>1. page' \subseteq Item
    BY <1>6 DEF ListPage, Item, StorageTypeOK, SyncTypeOK, Content
  <2> QED BY <1>6, <1>s, <2>1 DEF ListPage, SyncTypeOK, SyncPcs, Shape
<1>7. ASSUME NEW e \in page, Examine(e, FALSE) PROVE Good
  <2>1. e \in Item /\ e.path \in Paths /\ e # None
    BY PageItem, SyncAssumption
  <2>2. row[e.path] \in Row \cup {None} /\ existing \in Row \cup {None}
    BY <2>1 DEF StorageTypeOK, SyncTypeOK
  <2>3. UNCHANGED storageVars /\ page' = page \ {e} /\ keys' = keys \cup {e.path}
        /\ UNCHANGED <<unlisted, doomed>> /\ syncPc = "entry"
    BY <1>7 DEF Examine
  <2>4. \/ UNCHANGED <<syncPc, item, existing>>
        \/ syncPc' = "drop" /\ existing' = row[e.path] /\ row[e.path] # None /\ item' = e
        \/ syncPc' = "upsert" /\ UNCHANGED existing /\ item' = e
    BY <1>7 DEF Examine
  <2> QED BY <1>s, <2>1, <2>2, <2>3, <2>4 DEF SyncTypeOK, SyncPcs, Shape
<1>8. ASSUME NEW old \in BOOLEAN, Upsert(old) PROVE Good
  <2>1. syncPc = "upsert" /\ UNCHANGED <<obj, link, data, wid>>
    BY <1>8 DEF Upsert
  <2>2. CASE RunOver /\ UNCHANGED row
    BY <2>1, <2>2, <1>s, <1>o DEF storageVars
  <2>3. CASE ~(RunOver /\ UNCHANGED row)
    <3> DEFINE r == UpdateEntry(row[item.path], SyncEntry(item.size, old))
    <3>1. item.path \in Paths /\ item.size \in Sizes
      BY <2>1 DEF SyncTypeOK, Shape, Item
    <3>2. r \in Row /\ r # None
      BY <3>1, SyncEntryType, UpdateEntryType, StorageAssumption DEF StorageTypeOK
    <3>3. row' = [row EXCEPT ![item.path] = r] /\ syncPc' = "entry" /\ item' = None
          /\ UNCHANGED <<unlisted, page, existing, keys, doomed>>
      BY <1>8, <2>3 DEF Upsert
    <3> HIDE DEF r
    <3>4. StorageTypeOK' /\ RowsGo(doomed)
      BY <2>1, <3>1, <3>2, <3>3 DEF StorageTypeOK, RowsGo
    <3>5. SyncTypeOK' /\ Shape'
      BY <2>1, <3>3 DEF SyncTypeOK, SyncPcs, Shape
    <3> QED BY <3>4, <3>5
  <2> QED BY <2>2, <2>3
<1>9. ASSUME NEW p \in doomed, DeleteRow(p) PROVE Good
  <2>1. p \in Paths /\ syncPc = "delete"
    BY <1>9 DEF SyncTypeOK, DeleteRow
  <2>2. row' \in [Paths -> Row \cup {None}] /\ \A q \in Paths \ {p} : row'[q] = row[q]
    BY <1>9, <2>1, StoreNone DEF DeleteRow
  <2>3. StorageTypeOK' /\ RowsGo(doomed)
    BY <1>9, <2>2 DEF DeleteRow, StorageTypeOK, RowsGo
  <2>4. SyncTypeOK' /\ Shape'
    BY <1>9 DEF DeleteRow, SyncTypeOK, SyncPcs, Shape
  <2> QED BY <2>3, <2>4
<1> QED BY <1>1, <1>2, <1>3, <1>4, <1>5, <1>6, <1>7, <1>8, <1>9 DEF SyncStep

-----------------------------------------------------------------------------
\* Types hold at the start.
LEMMA InitType == Init => TypeOK
BY StorageAssumption DEF Init, StorageInit, SyncInit, TypeOK, StorageTypeOK, SyncTypeOK,
   SyncPcs, Shape, SyncedRow, SyncedContent, Row, Content, Empty, Versions, Sizes

\* What others do to the bucket keeps the types and touches no row.
LEMMA ForeignType ==
  ASSUME TypeOK, NEW p \in Paths, NEW s \in ObjectSizes, ForeignDelete(p) \/ ForeignPut(p, s)
  PROVE  StorageTypeOK' /\ SyncTypeOK' /\ Shape' /\ UNCHANGED <<row, syncVars>>
<1>1. CASE ForeignDelete(p)
  BY <1>1 DEF ForeignDelete, TypeOK, StorageTypeOK, SyncTypeOK, Shape, syncVars
<1>2. CASE ForeignPut(p, s)
  <2>1. wid' \in Versions /\ s \in Sizes
    BY <1>2, StorageAssumption, SyncAssumption DEF ForeignPut, TypeOK, StorageTypeOK, Versions
  <2>2. [len |-> s, blk |-> [b \in Blocks |-> IF b < s THEN wid' ELSE 0]] \in Content
    BY <2>1, StorageAssumption DEF Content, Versions
  <2>3. obj' \in [Paths -> Content \cup {None}]
    BY <1>2, <2>2 DEF ForeignPut, TypeOK, StorageTypeOK
  <2> QED BY <1>2, <2>1, <2>3 DEF ForeignPut, TypeOK, StorageTypeOK, SyncTypeOK, Shape, syncVars
<1> QED BY <1>1, <1>2

\* Every step keeps the types, and only DeleteRow removes a row.
LEMMA NextType ==
  ASSUME TypeOK, [Next]_allVars
  PROVE  TypeOK' /\ RowsGo(doomed)
<1>1. CASE SyncStep(FALSE) /\ NoteGone
  BY <1>1, StepType DEF TypeOK, NoteGone
<1>2. ASSUME NEW p \in Paths, NEW s \in ObjectSizes, ForeignDelete(p) \/ ForeignPut(p, s), NoteGone
      PROVE  TypeOK' /\ RowsGo(doomed)
  BY <1>2, ForeignType DEF TypeOK, NoteGone, RowsGo
<1>3. ASSUME NEW p \in Paths, ForeignDelete(p), NoteGone PROVE TypeOK' /\ RowsGo(doomed)
  BY <1>3 DEF ForeignDelete, TypeOK, StorageTypeOK, SyncTypeOK, Shape, syncVars, NoteGone, RowsGo
<1>4. CASE UNCHANGED allVars
  BY <1>4 DEF allVars, storageVars, syncVars, TypeOK, StorageTypeOK, SyncTypeOK, Shape, RowsGo
<1>5. CASE Stopped /\ NoteGone
  BY <1>5 DEF Stopped, RunOver, NoteGone, storageVars, SyncPcs, TypeOK, StorageTypeOK, SyncTypeOK, Shape, RowsGo
<1> QED BY <1>1, <1>2, <1>3, <1>4, <1>5 DEF Next

\* TypeOK: the rows, the bucket and the locals of a run keep their types, with
\* whatever others put into the bucket (SyncFromS3, reconcileDeletedEntries).
THEOREM SyncTypes == Spec => []TypeOK
BY InitType, NextType, PTL DEF Spec

-----------------------------------------------------------------------------
\* The steps of the goroutine, one by one, keep what a run knows.
LEMMA StepRun ==
  ASSUME Inv, SyncStep(FALSE), NoteGone
  PROVE  RunInv'
<1> USE DEF Inv, RunInv, OnPage
<1>g. /\ \A p \in Paths : obj'[p] = None => p \in gone'
      /\ syncPc' # "idle" => gone \subseteq gone'
      /\ syncPc' = "idle" => gone' = {p \in Paths : obj'[p] = None}
  BY DEF NoteGone
<1>o. RunOver => RunInv'
  BY <1>g DEF RunOver
<1>1. CASE SyncStart
  BY <1>1, <1>g DEF SyncStart
<1>2. CASE ListFails \/ SyncDone
  BY <1>2, <1>o DEF ListFails, SyncDone
<1>3. CASE DropStaging
  BY <1>3, <1>g DEF DropStaging
<1>4. CASE PageDone
  BY <1>4, <1>g DEF PageDone
<1>5. CASE Reconcile
  BY <1>5, <1>g, <1>o DEF Reconcile
<1>6. ASSUME NEW P \in SUBSET unlisted, ListPage(P) PROVE RunInv'
  <2>1. syncPc = "list" /\ syncPc' = "entry" /\ unlisted' = unlisted \ P
        /\ UNCHANGED <<keys, doomed>>
        /\ page' = {[path |-> p, size |-> obj[p].len] : p \in {q \in P : obj[q] # None}}
    BY <1>6 DEF ListPage
  <2>2. ASSUME NEW p \in Paths PROVE (p \in unlisted \/ OnPage(p) \/ p \in keys \/ p \in gone)'
    <3>1. CASE p \in P /\ obj[p] # None
      <4>1. [path |-> p, size |-> obj[p].len] \in page'
        BY <2>1, <3>1
      <4> QED BY <4>1
    <3>2. CASE p \in P /\ obj[p] = None
      BY <2>1, <3>2, <1>g
    <3>3. CASE p \notin P
      BY <2>1, <3>3, <1>g
    <3> QED BY <3>1, <3>2, <3>3
  <2> QED BY <2>1, <2>2, <1>g
<1>7. ASSUME NEW e \in page, Examine(e, FALSE) PROVE RunInv'
  <2>1. /\ syncPc = "entry" /\ page' = page \ {e} /\ keys' = keys \cup {e.path}
        /\ UNCHANGED <<unlisted, doomed>> /\ syncPc' \in {"entry", "drop", "upsert"}
    BY <1>7 DEF Examine
  <2> QED BY <2>1, <1>g
<1>8. ASSUME NEW old \in BOOLEAN, Upsert(old) PROVE RunInv'
  BY <1>8, <1>g, <1>o DEF Upsert
<1>9. ASSUME NEW p \in doomed, DeleteRow(p) PROVE RunInv'
  BY <1>9, <1>g DEF DeleteRow
<1> QED BY <1>1, <1>2, <1>3, <1>4, <1>5, <1>6, <1>7, <1>8, <1>9 DEF SyncStep

\* Every step keeps what a run knows: an object put or deleted during a run
\* moves no path out of the four classes.
LEMMA NextRun == ASSUME Inv, [Next]_allVars PROVE RunInv'
<1>1. CASE SyncStep(FALSE) /\ NoteGone
  BY <1>1, StepRun
<1>2. ASSUME UNCHANGED syncVars, NoteGone PROVE RunInv'
  <2>1. /\ \A p \in Paths : obj'[p] = None => p \in gone'
        /\ syncPc' # "idle" => gone \subseteq gone'
        /\ syncPc' = "idle" => gone' = {p \in Paths : obj'[p] = None}
    BY <1>2 DEF NoteGone
  <2>2. syncPc = "idle" => doomed = {}
    BY DEF Inv, RunInv
  <2> QED BY <1>2, <2>1, <2>2 DEF syncVars, Inv, RunInv, OnPage
<1>3. CASE UNCHANGED allVars
  BY <1>3 DEF allVars, storageVars, syncVars, Inv, RunInv, OnPage
<1>4. CASE Stopped /\ NoteGone
  BY <1>4 DEF Stopped, RunOver, NoteGone, RunInv, OnPage
<1> QED BY <1>1, <1>2, <1>3, <1>4 DEF Next, ForeignPut, ForeignDelete

\* PurgesOnlyGone: whatever comes and goes in the bucket while it is listed, page
\* by page, a run removes the row of no file whose object was there all along.
THEOREM PurgesGone == Spec => PurgesOnlyGone
<1>1. Init => Inv
  BY InitType DEF Init, SyncInit, Inv, RunInv
<1>2. Inv /\ [Next]_allVars => Inv'
  BY NextType, NextRun DEF Inv
<1>3. Inv /\ [Next]_allVars => [\A p \in Paths : row[p] # None /\ row'[p] = None => p \in gone]_allVars
  BY NextType DEF Inv, RunInv, RowsGo
<1> QED BY <1>1, <1>2, <1>3, PTL DEF Spec, PurgesOnlyGone

-----------------------------------------------------------------------------
(* The life of the process.                                                *)

LifeRest ==
  /\ config \in Config /\ life \in {"down", "sync", "up"} /\ late \in BOOLEAN /\ deaths \in 0 .. MaxDeaths
  /\ life = "down" => syncPc = "idle"
  /\ life = "sync" => syncPc # "idle" /\ config.syncOnStart
  /\ late => config.timeout

Met ==
  \A p \in keys : row[p] # None \/ p \in gone \/ (item # None /\ item.path = p)

LifeInv == Inv /\ LifeRest /\ Met

-----------------------------------------------------------------------------
(* Refinement.                                                             *)

\* A death, or a process that starts without a synchronisation, while no run is
\* under way, changes nothing of S3Sync.
LEMMA IdleStutters ==
  ASSUME Inv, NoteGone, syncPc = "idle", UNCHANGED storageVars, RunOver \/ UNCHANGED syncVars
  PROVE  UNCHANGED allVars
<1>1. unlisted = {} /\ page = {} /\ item = None /\ existing = None /\ keys = {} /\ doomed = {}
  BY DEF Inv, RunInv, TypeOK, Shape
<1> QED
  BY <1>1 DEF allVars, storageVars, syncVars, RunOver, NoteGone, Inv, RunInv

\* The steps that are S3Sync's.
LEMMA StepImplements ==
  ASSUME LifeInv, [LifeNext]_lifeVars
  PROVE  [Next]_allVars
<1>1. CASE Work /\ NoteGone
  <2>1. CASE Start
    <3>1. CASE SyncStart
      BY <1>1, <3>1 DEF Next, SyncStep
    <3>2. CASE UNCHANGED <<storageVars, syncVars>>
      BY <1>1, <2>1, <3>2, IdleStutters DEF Start, LifeInv, LifeRest
    <3> QED
      BY <2>1, <3>1, <3>2 DEF Start
  <2>2. CASE StartupStep \/ Periodic
    BY <1>1, <2>2 DEF StartupStep, Periodic, Next
  <2>3. CASE StartupDone
    BY <1>1, <2>3 DEF StartupDone, Next, SyncStep
  <2>4. CASE StartupFails
    BY <1>1, <2>4 DEF StartupFails, Expired, Next, SyncStep
  <2> QED
    BY <1>1, <2>1, <2>2, <2>3, <2>4 DEF Work
<1>2. CASE TimeOut /\ NoteGone
  <2>1. gone' = gone
    BY <1>2 DEF TimeOut, LifeInv, Inv, RunInv, TypeOK, NoteGone, storageVars, syncVars
  <2> QED
    BY <1>2, <2>1 DEF TimeOut, allVars
<1>3. CASE Die /\ NoteGone
  <2>1. CASE syncPc = "idle"
    BY <1>3, <2>1, IdleStutters DEF Die, LifeInv
  <2>2. CASE syncPc # "idle"
    BY <1>3, <2>2 DEF Die, Next, Stopped
  <2> QED
    BY <2>1, <2>2
<1>4. CASE Foreign /\ NoteGone
  BY <1>4 DEF Foreign, Next
<1>5. CASE UNCHANGED lifeVars
  BY <1>5 DEF lifeVars
<1> QED
  BY <1>1, <1>2, <1>3, <1>4, <1>5 DEF LifeNext

-----------------------------------------------------------------------------
(* The invariant.                                                          *)

LEMMA InvStep ==
  ASSUME Inv, [Next]_allVars
  PROVE  Inv'
BY NextType, NextRun DEF Inv

LEMMA RestStep ==
  ASSUME LifeInv, [LifeNext]_lifeVars
  PROVE  LifeRest'
<1> USE LifecycleAssumption DEF LifeInv, LifeRest
<1>1. CASE Start
  BY <1>1 DEF Start, SyncStart
<1>2. CASE StartupStep \/ Periodic
  <2>1. UNCHANGED <<config, life, late, deaths>> /\ (life = "sync" => syncPc' # "idle") /\ life # "down"
    BY <1>2 DEF StartupStep, Periodic
  <2> QED
    BY <2>1, Zenon
<1>3. CASE StartupDone
  BY <1>3 DEF StartupDone
<1>4. CASE StartupFails
  BY <1>4 DEF StartupFails, ListFails, Expired, Stopped, RunOver
<1>5. CASE TimeOut
  BY <1>5 DEF TimeOut, syncVars
<1>6. CASE Die
  <2>1. deaths' \in 0 .. MaxDeaths
    BY <1>6 DEF Die
  <2>2. config' = config /\ life' = "down" /\ late' = FALSE /\ syncPc' = "idle"
    BY <1>6 DEF Die, RunOver
  <2> QED
    BY <2>1, <2>2, Zenon
<1>7. CASE Foreign
  BY <1>7 DEF Foreign, ForeignPut, ForeignDelete, syncVars
<1>8. CASE UNCHANGED lifeVars
  BY <1>8 DEF lifeVars, allVars, syncVars
<1> QED
  BY <1>1, <1>2, <1>3, <1>4, <1>5, <1>6, <1>7, <1>8 DEF LifeNext, Work

\* What a run has met keeps its row or is gone.
LEMMA MetStep ==
  ASSUME Inv, Met, [Next]_allVars
  PROVE  Met'
<1> USE DEF Met
<1>g. NoteGone /\ syncPc' # "idle" => gone \subseteq gone'
  BY DEF NoteGone
<1>k. syncPc = "idle" => keys = {}
  BY DEF Inv, RunInv
<1>o. RunOver => Met'
  BY DEF RunOver
<1>r. RowsGo(doomed) /\ doomed \subseteq gone /\ keys \subseteq Paths
  BY NextType DEF Inv, RunInv, TypeOK, SyncTypeOK
<1>1. CASE UNCHANGED allVars
  BY <1>1 DEF allVars, storageVars, syncVars
<1>2. CASE NoteGone /\ UNCHANGED keys /\ UNCHANGED item /\ (syncPc # "idle" => syncPc' # "idle")
  BY <1>2, <1>g, <1>k, <1>r DEF RowsGo
<1>3. ASSUME NEW e \in page, Examine(e, FALSE), NoteGone PROVE Met'
  <2>1. /\ UNCHANGED row /\ item = None /\ syncPc' # "idle" /\ keys' = keys \cup {e.path}
        /\ item' = e \/ (UNCHANGED item /\ row[e.path] # None)
    BY <1>3 DEF Examine, LeftAlone, storageVars, Inv, TypeOK, Shape
  <2>2. e # None
    BY PageItem, SyncAssumption DEF Inv, TypeOK
  <2> QED
    BY <1>3, <1>g, <2>1, <2>2
<1>4. ASSUME NEW old \in BOOLEAN, Upsert(old), NoteGone PROVE Met'
  <2>1. CASE RunOver
    BY <2>1, <1>o
  <2>2. CASE ~RunOver
    <3> DEFINE r == UpdateEntry(row[item.path], SyncEntry(item.size, old))
    <3>1. item.path \in Paths /\ item.size \in Sizes
      BY <1>4 DEF Inv, TypeOK, SyncTypeOK, Shape, Item, Upsert
    <3>2. r # None
      BY <3>1, SyncEntryType, UpdateEntryType, StorageAssumption DEF StorageTypeOK, Inv, TypeOK
    <3>3. row' = [row EXCEPT ![item.path] = r] /\ syncPc' = "entry" /\ UNCHANGED keys
      BY <1>4, <2>2 DEF Upsert
    <3> HIDE DEF r
    <3> QED
      BY <1>4, <1>g, <1>r, <3>1, <3>2, <3>3 DEF Inv, TypeOK, StorageTypeOK
  <2> QED
    BY <2>1, <2>2
<1>5. CASE SyncStep(FALSE) /\ NoteGone
  <2>1. CASE SyncStart \/ DropStaging \/ PageDone \/ \E P \in SUBSET unlisted : ListPage(P)
    BY <1>2, <1>5, <2>1 DEF SyncStart, DropStaging, PageDone, ListPage
  <2>2. CASE ListFails \/ SyncDone
    BY <1>o, <2>2 DEF ListFails, SyncDone
  <2>3. CASE Reconcile
    BY <1>o, <1>2, <1>5, <2>3 DEF Reconcile
  <2>4. CASE \E p \in doomed : DeleteRow(p)
    BY <1>2, <1>5, <2>4 DEF DeleteRow
  <2> QED
    BY <1>3, <1>4, <1>5, <2>1, <2>2, <2>3, <2>4 DEF SyncStep
<1>6. CASE Stopped
  BY <1>6, <1>o DEF Stopped
<1>7. ASSUME NEW p \in Paths, ForeignDelete(p) \/ \E s \in ObjectSizes : ForeignPut(p, s), NoteGone PROVE Met'
  BY <1>2, <1>7 DEF ForeignDelete, ForeignPut, syncVars
<1> QED
  BY <1>1, <1>5, <1>6, <1>7 DEF Next

LEMMA LifeInvInit == LifeInit => LifeInv
<1> SUFFICES ASSUME LifeInit
             PROVE  LifeInv
  OBVIOUS
<1>1. Inv
  BY InitType DEF LifeInit, Init, SyncInit, Inv, RunInv
<1>2. deaths \in 0 .. MaxDeaths
  BY LifecycleAssumption DEF LifeInit
<1>3. LifeRest
  BY <1>2, Zenon DEF LifeInit, Init, SyncInit, LifeRest
<1> QED
  BY <1>1, <1>3 DEF LifeInit, Init, SyncInit, LifeInv, Met

LEMMA LifeInvStep == LifeInv /\ [LifeNext]_lifeVars => LifeInv'
BY StepImplements, InvStep, RestStep, MetStep DEF LifeInv

-----------------------------------------------------------------------------
\* Every variable has its type.
THEOREM LifecycleTyped == LifeSpec => []LifeTypeOK
<1>1. LifeInv => LifeTypeOK
  BY DEF LifeInv, LifeRest, Inv, LifeTypeOK
<1> QED
  BY <1>1, LifeInvInit, LifeInvStep, PTL DEF LifeSpec

\* A gateway that starts, times out, dies and is started again does to rows and
\* bucket only what S3Sync lets a synchronisation do.
THEOREM LifecycleImplements == LifeSpec => ImplementsS3Sync
<1>1. LifeInit => Init
  BY DEF LifeInit
<1>2. LifeInv /\ [LifeNext]_lifeVars => [Next]_allVars
  BY StepImplements
<1> QED
  BY <1>1, <1>2, LifeInvInit, LifeInvStep, PTL DEF LifeSpec, ImplementsS3Sync, Spec

\* So no row is removed whose object was there all through a run.
THEOREM LifecyclePurgesGone == LifeSpec => PurgesOnlyGone
BY LifecycleImplements, PurgesGone DEF ImplementsS3Sync

\* The share opens with every object that was there all through the first
\* synchronisation, unless its time was over.
THEOREM Populated == LifeSpec => PopulatedFirst
<1>1. ASSUME LifeInv, LifeNext, life # "up", life' = "up", config.syncOnStart, ~late
      PROVE  \A p \in Paths : p \in gone \/ row'[p] # None
  <2>1. StartupDone
    BY <1>1 DEF LifeNext, Work, Start, StartupStep, StartupFails, Periodic, TimeOut, Die, Foreign, LifeInv, LifeRest
  <2>2. syncPc = "delete" /\ UNCHANGED row
    BY <2>1 DEF StartupDone, SyncDone, storageVars
  <2>3. unlisted = {} /\ page = {} /\ item = None
    BY <1>1, <2>2 DEF LifeInv, Inv, RunInv, TypeOK, Shape
  <2>4. \A p \in Paths : p \in keys \/ p \in gone
    BY <1>1, <2>2, <2>3 DEF LifeInv, Inv, RunInv, OnPage
  <2> QED
    BY <1>1, <2>2, <2>3, <2>4 DEF LifeInv, Met
<1>2. LifeInv /\ [LifeNext]_lifeVars =>
        [life # "up" /\ life' = "up" /\ config.syncOnStart /\ ~late
           => \A p \in Paths : p \in gone \/ row'[p] # None]_lifeVars
  BY <1>1
<1> QED
  BY <1>2, LifeInvInit, LifeInvStep, PTL DEF LifeSpec, PopulatedFirst
=============================================================================
