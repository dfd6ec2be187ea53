-------------------------- MODULE NamespaceProofs --------------------------
(***************************************************************************)
(* Rooted for any tree of names, any order of the keys, any number of      *)
(* requests and foreign changes, and a bucket and database that fail.      *)
(*                                                                         *)
(* Rows come and go in four ways: Remove, Leave, Insert and InsertBySync.  *)
(* What each does to Rooted is shown once.  The rest of the invariant says *)
(* why they may be used where they are: Emptied, that below a directory    *)
(* which is about to lose its row there are only raced rows; Ready, that   *)
(* the new name of a Rename still has its directories; Reached, that the   *)
(* synchronisation has seen the directories of an object it stores.        *)
(***************************************************************************)
EXTENDS Namespace, TLAPS

Leaving  == {"marker", "rollback", "object", "unrow"}

Emptied == op # None /\ op.at \in Leaving => Below(op.path) \cap rows \subseteq raced
Ready   == op # None /\ op.at \in {"replace", "insert"} => Above[op.to] \subseteq rows
Reached == syncPc = "row" => Above[item] \subseteq seen

Inv == TypeOK /\ Rooted /\ Emptied /\ Ready /\ Reached

-----------------------------------------------------------------------------
(* The tree.                                                               *)

\* Nothing is on the way to itself, and only directories are on the way.
LEMMA TreeFacts ==
  /\ \A p \in Paths : Above[p] \subseteq Dirs /\ p \notin Above[p]
  /\ \A f \in Files : Below(f) = {}
  /\ \A p \in Paths : p \notin Below(p) /\ Below(p) \subseteq Paths
  /\ Dirs \subseteq Paths /\ Files \subseteq Paths
  /\ None \notin Op /\ None \notin Paths
BY NamespaceAssumption DEF Below, Paths

\* Below a path that has no row there are only raced rows.
LEMMA AbsentIsEmptied ==
  ASSUME Rooted, NEW d \in Paths, d \notin rows
  PROVE  Below(d) \cap rows \subseteq raced
BY DEF Rooted, Below

\* So it is below a directory whose children have no rows.
LEMMA ChildlessIsEmptied ==
  ASSUME Rooted, NEW d \in Dirs, Children(d) \cap rows = {}
  PROVE  Below(d) \cap rows \subseteq raced
<1> SUFFICES ASSUME NEW p \in Below(d), p \in rows, p \notin raced
             PROVE  FALSE
  OBVIOUS
<1>1. PICK q \in Children(d) : p = q \/ q \in Above[p]
  BY NamespaceAssumption
<1>2. Above[p] \subseteq rows
  BY DEF Rooted
<1> QED
  BY <1>1, <1>2

-----------------------------------------------------------------------------
(* The four ways.                                                          *)

LEMMA RemoveKeeps ==
  ASSUME Rooted, NEW P \in SUBSET Paths, Remove(P),
         \A d \in P : Below(d) \cap rows \subseteq raced,
         rows \subseteq Paths
  PROVE  Rooted'
<1> SUFFICES ASSUME NEW p \in rows', p \notin raced', NEW d \in Above[p]
             PROVE  d \in rows'
  BY DEF Rooted
<1>1. p \in rows /\ p \notin raced /\ d \in rows
  BY DEF Remove, Rooted
<1>2. p \in Below(d)
  BY <1>1 DEF Below
<1> QED
  BY <1>1, <1>2 DEF Remove

LEMMA LeaveKeeps ==
  ASSUME Rooted, NEW x \in Paths, Leave(x), rows \subseteq Paths
  PROVE  Rooted'
<1> SUFFICES ASSUME NEW p \in rows', p \notin raced', NEW d \in Above[p]
             PROVE  d \in rows'
  BY DEF Rooted
<1>1. p \in rows /\ p \notin Below(x) /\ p \notin raced
  BY DEF Leave
<1>2. d \in rows /\ d # x
  BY <1>1 DEF Rooted, Below
<1> QED
  BY <1>2 DEF Leave

LEMMA InsertKeeps ==
  ASSUME Rooted, NEW p \in Paths, Insert(p), Above[p] \subseteq rows
  PROVE  Rooted'
BY DEF Rooted, Insert

LEMMA InsertBySyncKeeps ==
  ASSUME Rooted, NEW p \in Paths, InsertBySync(p), Above[p] \subseteq seen
  PROVE  Rooted'
BY DEF Rooted, InsertBySync, Going

\* What the synchronisation inserts below a directory that is about to lose its
\* row is raced.
LEMMA InsertBySyncKeepsEmptied ==
  ASSUME TypeOK, Emptied, NEW p \in Paths, InsertBySync(p), Above[p] \subseteq seen, UNCHANGED op
  PROVE  Emptied'
<1> SUFFICES ASSUME op # None, op.at \in Leaving, NEW q \in Below(op.path), q \in rows'
             PROVE  q \in raced'
  BY DEF Emptied, Below
<1>1. CASE q \in rows
  BY <1>1 DEF Emptied, InsertBySync
<1>2. CASE q = p
  <2>1. op.path \in Above[p] \cap seen
    BY <1>2 DEF Below
  <2>2. Going(op.path)
    BY DEF Going, Leaving
  <2> QED
    BY <1>2, <2>1, <2>2 DEF InsertBySync
<1> QED
  BY <1>1, <1>2 DEF InsertBySync

-----------------------------------------------------------------------------
(* Types.                                                                  *)

LEMMA TypeHandlers ==
  ASSUME TypeOK, Handler
  PROVE  TypeOK'
<1> USE TreeFacts DEF TypeOK, Op, Steps, Start, At, GoTo, Return, SameRows, Remove, Insert, Leave, Change, syncVars, bucketVars
<1>1. ASSUME NEW d \in Dirs, Mkdir(d) PROVE TypeOK'
  BY <1>1, NamespaceAssumption DEF Mkdir
<1>2. ASSUME NEW f \in Files, Create(f) PROVE TypeOK'
  BY <1>2, NamespaceAssumption DEF Create
<1>3. ASSUME NEW f \in Files, Upload(f) PROVE TypeOK'
  BY <1>3 DEF Upload
<1>4. ASSUME NEW p \in Paths, RemoveStart(p) PROVE TypeOK'
  BY <1>4, NamespaceAssumption DEF RemoveStart
<1>5. ASSUME NEW p \in Paths, NEW q \in Paths, RenameStart(p, q) PROVE TypeOK'
  BY <1>5, NamespaceAssumption DEF RenameStart
<1>6. CASE MkdirMarker
  BY <1>6 DEF MkdirMarker
<1>7. CASE MkdirFails
  BY <1>7 DEF MkdirFails
<1>8. CASE MkdirRollback
  BY <1>8 DEF MkdirRollback
<1>9. CASE RemoveObject
  BY <1>9 DEF RemoveObject
<1>10. CASE RemoveFails
  BY <1>10 DEF RemoveFails
<1>11. CASE RemoveRow
  BY <1>11 DEF RemoveRow
<1>12. CASE RenameReplace
  BY <1>12 DEF RenameReplace
<1>13. CASE RenameInsert
  BY <1>13 DEF RenameInsert
<1>14. CASE RenameUnlink
  BY <1>14 DEF RenameUnlink
<1>15. CASE RenameCopy
  BY <1>15 DEF RenameCopy
<1>16. CASE RenameDelete
  BY <1>16 DEF RenameDelete
<1>17. CASE RenameFails
  BY <1>17 DEF RenameFails
<1> QED
  BY <1>1, <1>2, <1>3, <1>4, <1>5, <1>6, <1>7, <1>8, <1>9, <1>10, <1>11, <1>12, <1>13, <1>14, <1>15, <1>16, <1>17 DEF Handler

LEMMA TypeSync ==
  ASSUME TypeOK, SyncStep
  PROVE  TypeOK'
<1> USE TreeFacts DEF TypeOK, SyncPcs, SameRows, bucketVars
<1>1. CASE SyncStart
  BY <1>1 DEF SyncStart, Idle
<1>2. CASE ReadRow
  BY <1>2 DEF ReadRow
<1>3. CASE StoreRow
  <2>1. item \in Paths
    BY <1>3 DEF StoreRow
  <2> QED
    BY <1>3, <2>1 DEF StoreRow, InsertBySync
<1>4. CASE PageDone
  BY <1>4 DEF PageDone
<1>5. CASE Reconcile
  BY <1>5 DEF Reconcile
<1>6. CASE SyncDone
  BY <1>6 DEF SyncDone, RunOver
<1>7. ASSUME NEW p \in Paths, ListPage(Rank[p]) PROVE TypeOK'
  <2>1. Rank[p] \in Nat
    BY NamespaceAssumption
  <2> QED
    BY <1>7, <2>1 DEF ListPage
<1>8. ASSUME NEW p \in page, Examine(p) PROVE TypeOK'
  BY <1>8 DEF Examine
<1>9. ASSUME NEW d \in Dirs, EnsureParent(d) PROVE TypeOK'
  BY <1>9 DEF EnsureParent, InsertBySync
<1>10. ASSUME NEW p \in doomed, DeleteRow(p) PROVE TypeOK'
  BY <1>10 DEF DeleteRow, Remove
<1> QED
  BY <1>1, <1>2, <1>3, <1>4, <1>5, <1>6, <1>7, <1>8, <1>9, <1>10 DEF SyncStep

LEMMA TypeOthers ==
  ASSUME TypeOK, SyncFails \/ \E p \in Paths : ForeignPut(p) \/ ForeignDelete(p)
  PROVE  TypeOK'
<1> USE DEF TypeOK, SameRows, Change
<1>1. CASE SyncFails
  BY <1>1, NamespaceAssumption DEF SyncFails, RunOver, SyncPcs
<1>2. CASE \E p \in Paths : ForeignPut(p) \/ ForeignDelete(p)
  BY <1>2, NamespaceAssumption DEF ForeignPut, ForeignDelete, syncVars
<1> QED
  BY <1>1, <1>2

LEMMA TypeStep == TypeOK /\ [Next]_vars => TypeOK'
<1> SUFFICES ASSUME TypeOK, [Next]_vars
             PROVE  TypeOK'
  OBVIOUS
<1>1. CASE UNCHANGED vars
  BY <1>1 DEF TypeOK, vars, syncVars
<1> QED
  BY <1>1, TypeHandlers, TypeSync, TypeOthers DEF Next

-----------------------------------------------------------------------------
(* Handlers on names.                                                      *)

LEMMA StartKeeps ==
  ASSUME Inv, Rooted',
         NEW s \in Steps, NEW p \in Paths, NEW q \in Paths, Start(s, p, q), UNCHANGED syncVars,
         s \in Leaving => Below(p) \cap rows' \subseteq raced',
         s \in {"replace", "insert"} => Above[q] \subseteq rows'
  PROVE  Rooted' /\ Emptied' /\ Ready' /\ Reached'
BY DEF Inv, Start, Emptied, Ready, Reached, syncVars, Below

\* A handler that goes on to a step of the same kind or returns, and leaves the
\* rows alone.
LEMMA SameRowsKeep ==
  ASSUME Inv, SameRows, UNCHANGED syncVars,
         \/ UNCHANGED op
         \/ op' = None
         \/ op # None /\ op.at \in Leaving /\ \E s \in Leaving : GoTo(s)
         \/ op # None /\ op.at = "replace" /\ GoTo("insert")
         \/ op # None /\ GoTo("delete")
  PROVE  Rooted' /\ Emptied' /\ Ready' /\ Reached'
<1>1. Rooted' /\ Reached'
  BY DEF Inv, Rooted, Reached, SameRows, syncVars
<1>2. Emptied' /\ Ready'
  <2>1. CASE UNCHANGED op \/ op' = None
    BY <2>1 DEF Inv, Emptied, Ready, SameRows, Below
  <2>2. ASSUME NEW s \in Steps, op # None, GoTo(s)
        PROVE  op' # None /\ op'.at = s /\ op'.path = op.path /\ op'.to = op.to
    BY <2>2, NamespaceAssumption DEF Inv, TypeOK, Op, GoTo
  <2>3. ASSUME NEW s \in Leaving, op # None, op.at \in Leaving, GoTo(s) PROVE Emptied' /\ Ready'
    BY <2>2, <2>3 DEF Inv, Emptied, Ready, SameRows, Below, Leaving, Steps
  <2>4. CASE op # None /\ op.at = "replace" /\ GoTo("insert")
    BY <2>2, <2>4 DEF Inv, Emptied, Ready, SameRows, Leaving, Steps
  <2>5. CASE op # None /\ GoTo("delete")
    BY <2>2, <2>5 DEF Emptied, Ready, Leaving, Steps
  <2> QED
    BY <2>1, <2>3, <2>4, <2>5
<1> QED
  BY <1>1, <1>2

LEMMA HandlersKeep ==
  ASSUME Inv, Handler
  PROVE  Rooted' /\ Emptied' /\ Ready' /\ Reached'
<1> USE TreeFacts DEF Leaving
<1>a. TypeOK /\ Rooted /\ Emptied /\ Ready /\ Reached /\ rows \subseteq Paths
  BY DEF Inv, TypeOK
<1>b. op # None => op \in Op /\ op.path \in Paths /\ op.to \in Paths
  BY <1>a DEF TypeOK, Op
<1>1. ASSUME NEW d \in Dirs, Mkdir(d) PROVE Rooted' /\ Emptied' /\ Ready' /\ Reached'
  <2>1. Rooted'
    BY <1>1, <1>a, InsertKeeps DEF Mkdir, Found
  <2>2. Below(d) \cap rows' \subseteq raced'
    BY <1>1, <1>a, AbsentIsEmptied DEF Mkdir, Insert
  <2> QED
    BY <1>1, <2>1, <2>2, StartKeeps DEF Mkdir, Steps
<1>2. ASSUME NEW f \in Files, Create(f) PROVE Rooted' /\ Emptied' /\ Ready' /\ Reached'
  <2>1. Rooted'
    BY <1>2, <1>a, InsertKeeps DEF Create, Found
  <2> QED
    BY <1>2, <1>a, <2>1 DEF Create, Emptied, Ready, Reached, syncVars
<1>3. ASSUME NEW f \in Files, Upload(f) PROVE Rooted' /\ Emptied' /\ Ready' /\ Reached'
  BY <1>3, SameRowsKeep DEF Upload
<1>4. ASSUME NEW p \in Paths, RemoveStart(p) PROVE Rooted' /\ Emptied' /\ Ready' /\ Reached'
  <2>1. Rooted'
    BY <1>4, <1>a DEF RemoveStart, SameRows, Rooted
  <2>2. Below(p) \cap rows \subseteq raced
    <3>1. CASE p \in Files
      BY <3>1
    <3>2. CASE p \in Dirs
      BY <3>2, <1>4, <1>a, ChildlessIsEmptied, NamespaceAssumption DEF RemoveStart
    <3> QED
      BY <3>1, <3>2 DEF Paths
  <2> QED
    BY <1>4, <2>1, <2>2, StartKeeps DEF RemoveStart, SameRows, Steps
<1>5. ASSUME NEW p \in Paths, NEW q \in Paths, RenameStart(p, q) PROVE Rooted' /\ Emptied' /\ Ready' /\ Reached'
  <2>1. Rooted'
    BY <1>5, <1>a DEF RenameStart, SameRows, Rooted
  <2> QED
    BY <1>5, <2>1, StartKeeps DEF RenameStart, SameRows, Steps, Found
<1>6. CASE MkdirMarker \/ MkdirFails
  BY <1>6, SameRowsKeep DEF MkdirMarker, MkdirFails, At, Return
<1>7. CASE RemoveObject \/ RemoveFails
  BY <1>7, SameRowsKeep DEF RemoveObject, RemoveFails, At, Return
<1>8. CASE MkdirRollback \/ RemoveRow
  <2>1. op # None /\ Below(op.path) \cap rows \subseteq raced /\ op' = None
    BY <1>8, <1>a DEF MkdirRollback, RemoveRow, At, Return, Emptied
  <2>2. CASE SameRows
    BY <1>8, <2>1, <2>2, SameRowsKeep DEF MkdirRollback, RemoveRow
  <2>3. CASE Remove({op.path})
    <3>1. Rooted'
      BY <2>1, <2>3, <1>a, <1>b, RemoveKeeps
    <3> QED
      BY <1>8, <1>a, <2>1, <3>1 DEF MkdirRollback, RemoveRow, Emptied, Ready, Reached, syncVars
  <2> QED
    BY <1>8, <2>2, <2>3 DEF MkdirRollback, RemoveRow
<1>9. CASE RenameReplace
  <2>1. CASE SameRows
    BY <1>9, <2>1, SameRowsKeep DEF RenameReplace, At
  <2>2. CASE Leave(op.to)
    <3>1. op # None /\ op.at = "replace" /\ op.to \in Paths /\ Above[op.to] \subseteq rows
      BY <1>9, <1>a, <1>b DEF RenameReplace, At, Ready
    <3>2. Rooted'
      BY <2>2, <3>1, <1>a, LeaveKeeps
    <3>3. op'.at = "insert" /\ op'.to = op.to
      BY <1>9, <1>b, <3>1 DEF RenameReplace, GoTo, Op
    <3>4. Above[op.to] \subseteq rows'
      BY <2>2, <3>1 DEF Leave
    <3> QED
      BY <1>9, <1>a, <3>2, <3>3, <3>4 DEF RenameReplace, Emptied, Ready, Reached, syncVars
  <2> QED
    BY <1>9, <2>1, <2>2 DEF RenameReplace
<1>10. CASE RenameInsert
  <2>1. op # None /\ op.to \in Paths /\ Above[op.to] \subseteq rows /\ op'.at = "unlink"
    BY <1>10, <1>a, <1>b DEF RenameInsert, At, Ready, GoTo, Op
  <2>2. Rooted'
    BY <1>10, <1>a, <2>1, InsertKeeps DEF RenameInsert
  <2> QED
    BY <1>10, <1>a, <2>1, <2>2 DEF RenameInsert, Emptied, Ready, Reached, syncVars
<1>11. CASE RenameUnlink
  <2>1. op # None /\ op.path \in Paths /\ op'.at = "copy"
    BY <1>11, <1>b DEF RenameUnlink, At, GoTo, Op
  <2>2. Rooted'
    BY <1>11, <1>a, <2>1, LeaveKeeps DEF RenameUnlink
  <2> QED
    BY <1>11, <1>a, <2>1, <2>2 DEF RenameUnlink, Emptied, Ready, Reached, syncVars
<1>12. CASE RenameCopy
  BY <1>12, SameRowsKeep DEF RenameCopy, Return, At
<1>13. CASE RenameDelete \/ RenameFails
  BY <1>13, SameRowsKeep DEF RenameDelete, RenameFails, Return, bucketVars
<1> QED
  BY <1>1, <1>2, <1>3, <1>4, <1>5, <1>6, <1>7, <1>8, <1>9, <1>10, <1>11, <1>12, <1>13 DEF Handler

-----------------------------------------------------------------------------
(* The synchronisation, and the others.                                    *)

\* What the synchronisation inserts takes no row away.
LEMMA InsertBySyncKeepsAll ==
  ASSUME Inv, NEW p \in Paths, InsertBySync(p), Above[p] \subseteq seen, UNCHANGED op
  PROVE  Rooted' /\ Emptied' /\ Ready'
<1>1. Rooted' /\ Emptied'
  BY InsertBySyncKeeps, InsertBySyncKeepsEmptied DEF Inv
<1>2. Ready'
  BY DEF Inv, Ready, InsertBySync
<1> QED
  BY <1>1, <1>2

LEMMA SyncKeeps ==
  ASSUME Inv, SyncStep \/ SyncFails
  PROVE  Rooted' /\ Emptied' /\ Ready' /\ Reached'
<1> USE TreeFacts
<1>a. TypeOK /\ Rooted /\ Emptied /\ Ready /\ Reached /\ rows \subseteq Paths
  BY DEF Inv, TypeOK
<1>1. ASSUME SameRows, UNCHANGED op PROVE Rooted' /\ Emptied' /\ Ready'
  BY <1>1, <1>a DEF SameRows, Rooted, Emptied, Ready, Below
<1>2. CASE SyncStart \/ PageDone \/ Reconcile \/ SyncDone \/ SyncFails
  <2>1. syncPc' # "row"
    BY <1>2 DEF SyncStart, PageDone, Reconcile, SyncDone, SyncFails, RunOver
  <2>2. SameRows /\ UNCHANGED op
    BY <1>2 DEF SyncStart, PageDone, Reconcile, SyncDone, SyncFails, bucketVars
  <2> QED
    BY <1>1, <2>1, <2>2 DEF Reached
<1>3. ASSUME NEW p \in Paths, ListPage(Rank[p]) \/ Examine(p) PROVE Rooted' /\ Emptied' /\ Ready' /\ Reached'
  BY <1>1, <1>3 DEF ListPage, Examine, Reached
<1>4. CASE ReadRow
  BY <1>1, <1>4 DEF ReadRow, Reached
<1>5. CASE StoreRow
  <2>1. item \in Paths /\ Above[item] \subseteq seen
    BY <1>5, <1>a DEF StoreRow, TypeOK, Reached
  <2> QED
    BY <1>5, <2>1, InsertBySyncKeepsAll DEF StoreRow, Reached
<1>6. ASSUME NEW d \in Dirs, EnsureParent(d) PROVE Rooted' /\ Emptied' /\ Ready' /\ Reached'
  BY <1>6, InsertBySyncKeepsAll DEF EnsureParent, Reached
<1>7. ASSUME NEW p \in doomed, DeleteRow(p) PROVE Rooted' /\ Emptied' /\ Ready' /\ Reached'
  <2>1. p \in Files /\ Below(p) = {}
    BY <1>a DEF TypeOK
  <2>2. Reached'
    BY <1>7, <1>a DEF DeleteRow, Reached
  <2>3. CASE SameRows
    BY <1>7, <1>1, <2>2, <2>3 DEF DeleteRow
  <2>4. CASE Remove({p})
    <3>1. Rooted'
      BY <1>a, <2>1, <2>4, RemoveKeeps
    <3>2. Emptied'
      BY <1>7, <1>a, <2>4 DEF DeleteRow, Remove, Emptied, Below
    <3>3. Ready'
      <4>1. ASSUME NEW q \in Paths PROVE p \notin Above[q]
        BY <2>1, NamespaceAssumption
      <4>2. op # None => op.to \in Paths
        BY <1>a DEF TypeOK, Op
      <4> QED
        BY <1>7, <1>a, <2>4, <4>1, <4>2 DEF DeleteRow, Remove, Ready
    <3> QED
      BY <2>2, <3>1, <3>2, <3>3
  <2> QED
    BY <1>7, <2>3, <2>4 DEF DeleteRow
<1>8. page \subseteq Paths
  BY <1>a DEF TypeOK
<1> QED
  BY <1>2, <1>3, <1>4, <1>5, <1>6, <1>7, <1>8 DEF SyncStep

LEMMA InvStep == Inv /\ [Next]_vars => Inv'
<1> SUFFICES ASSUME Inv, [Next]_vars
             PROVE  Inv'
  OBVIOUS
<1>1. TypeOK'
  BY TypeStep DEF Inv
<1>2. CASE Handler
  BY <1>1, <1>2, HandlersKeep DEF Inv
<1>3. CASE SyncStep \/ SyncFails
  BY <1>1, <1>3, SyncKeeps DEF Inv
<1>4. CASE UNCHANGED vars \/ \E p \in Paths : ForeignPut(p) \/ ForeignDelete(p)
  <2>1. UNCHANGED op /\ SameRows /\ UNCHANGED syncVars
    BY <1>4 DEF vars, ForeignPut, ForeignDelete, SameRows
  <2> QED
    BY <1>1, <2>1, SameRowsKeep DEF Inv
<1> QED
  BY <1>2, <1>3, <1>4 DEF Next

LEMMA InvInit == Init => Inv
BY NamespaceAssumption DEF Init, SyncInit, Inv, TypeOK, Rooted, Emptied, Ready, Reached, SyncPcs

-----------------------------------------------------------------------------
\* Every variable keeps its type, whatever tree and order of keys, and whatever
\* fails.
THEOREM NamespaceTyped == Spec => []TypeOK
<1>1. Inv => TypeOK
  BY DEF Inv
<1> QED
  BY <1>1, InvInit, InvStep, PTL DEF Spec

\* Every row can be reached through directories that have rows, except what a
\* rename of a directory, or the synchronisation racing a removal, has left.
THEOREM AlwaysRooted == Spec => []Rooted
<1>1. Inv => Rooted
  BY DEF Inv
<1> QED
  BY <1>1, InvInit, InvStep, PTL DEF Spec
=============================================================================
