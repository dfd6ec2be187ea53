----------------------------- MODULE Attributes -----------------------------
(***************************************************************************)
(* Extended attributes, and mode and owner, which are kept among them: the *)
(* column xattrs of the rows, which several writers read, change and write *)
(* back.  Setxattr and Removexattr do so inside the repository, under its  *)
(* mutex; Setattr, Create, Mkdir, Rename and the synchronisation in calls  *)
(* of their own, between which others write.                               *)
(*                                                                         *)
(* The kernel orders the requests of one node; a file looked up again      *)
(* while it is open has two, and the synchronisation has none.             *)
(* A value is the number of the request that set it.                       *)
(***************************************************************************)
EXTENDS Naturals

CONSTANTS
  Files, Dirs,  \* paths, and which of them are directories
  Calls,        \* requests at a time that take several calls of the repository
  MaxWrites,    \* bound on the requests that set something
  Asked,        \* what of mode, uid and gid a request sets
  Named,        \* the attributes that Setxattr and Removexattr name
  Replaced,     \* what json.Marshal makes of bytes that are not UTF-8
  Null,         \* the column of a row that never had an attribute
  None          \* no row, no value, no request

Paths  == Files \cup Dirs
Posix  == {"mode", "uid", "gid"}
Names  == Posix \cup {"acl"}
Values == (0 .. MaxWrites) \cup {Replaced}
Map    == [Names -> Values \cup {None}]
Column == Map \cup {Null}
Wanted == [Posix -> Values \cup {None}]   \* what a Setattr asks for

Ops  == {"fields", "upsert", "reread", "create", "marker", "replace", "insert", "unlink", "resize"}
Call == [op : Ops, path : Paths, to : Paths, read : Column \cup {None}, req : Wanted]
Pass == [path : Paths, read : Column \cup {None}]

ASSUME AttributesAssumption ==
  /\ MaxWrites \in Nat
  /\ Files \cap Dirs = {} /\ Asked \subseteq SUBSET Posix /\ Named \subseteq Names \ {"uid", "gid"}
  /\ Null # None /\ None \notin Values
  /\ Null \notin Map /\ None \notin Map /\ None \notin Call /\ None \notin Pass

VARIABLES
  xattrs,  \* the column of the row of each path, or None
  call,    \* the requests under way
  sync,    \* the object that the synchronisation is processing, or None
  wid,     \* the last number given to a request
  want,    \* history: what the requests, one after the other, make of the attributes
  raced    \* history: the paths on which a lost update has happened

vars == <<xattrs, call, sync, wid, want, raced>>

-----------------------------------------------------------------------------
(* XattrMap and the helpers of FileEntry.                                  *)

Nothing  == [a \in Names |-> None]
Attrs(x) == IF x \in Map THEN x ELSE Nothing

\* Value stores each attribute as a JSON string.
Stored(v, utf8) == IF utf8 THEN v ELSE Replaced

Owner(m, a) == IF m["uid"] = None \/ m["gid"] = None THEN 0 ELSE m[a]

\* SetPosixMode and SetPosixOwner over m: uid and gid are stored together, and
\* the one not asked for is the one there was, or 0 if there was no owner.
Merged(m, req) ==
  [a \in Names |->
     IF a \in Posix /\ req[a] # None THEN req[a]
     ELSE IF a \in {"uid", "gid"} /\ (req["uid"] # None \/ req["gid"] # None) THEN Owner(m, a)
     ELSE m[a]]

\* What the one who asks for req expects of m: the rest stays as it is.
Expected(m, req) == [a \in Names |-> IF a \in Posix /\ req[a] # None THEN req[a] ELSE m[a]]

\* UpdateEntry where the column is old: a nil map is skipped.
Upsert(old, new) == IF old = None \/ new # Null THEN new ELSE old

-----------------------------------------------------------------------------
Init ==
  /\ xattrs \in [Paths -> {None, Null}]
  /\ call = [c \in Calls |-> None]
  /\ sync = None /\ wid = 0
  /\ want = [p \in Paths |-> Nothing] /\ raced = {}

\* The column of p becomes x; asked is what the requests so far make of it.
\* A lost update is noted if the writer has not read what it overwrites.
Put(p, x, asked, lost) ==
  /\ xattrs' = [xattrs EXCEPT ![p] = x]
  /\ want'   = [want EXCEPT ![p] = asked]
  /\ raced'  = IF lost THEN raced \cup {p} ELSE raced

\* The row of p goes, and what is known of it; the next one starts afresh.
Forget(p) ==
  /\ xattrs' = [xattrs EXCEPT ![p] = None]
  /\ want'   = [want EXCEPT ![p] = Nothing]
  /\ raced'  = raced \ {p}

Begin(c, r) == call[c] = None /\ call' = [call EXCEPT ![c] = r]
End(c)      == call' = [call EXCEPT ![c] = None]
Doing(c, o) == call[c] # None /\ call[c].op = o
Proceed(c, o) == call' = [call EXCEPT ![c].op = o]

-----------------------------------------------------------------------------
(* Setxattr, Removexattr                                                   *)

\* A directory without a row, as the root is, gets one; that another writer
\* comes before the attribute is stored is a behaviour of NewRow and SetXattr.
NewRow(p) ==
  /\ p \in Dirs /\ xattrs[p] = None
  /\ Put(p, Upsert(None, Null), Nothing, FALSE)
  /\ UNCHANGED <<call, sync, wid>>

\* Without a row the request fails.
SetXattr(p, a, utf8) ==
  /\ xattrs[p] # None /\ wid < MaxWrites
  /\ wid' = wid + 1
  /\ LET v == Stored(wid', utf8)
     IN Put(p, [Attrs(xattrs[p]) EXCEPT ![a] = v], [want[p] EXCEPT ![a] = v], FALSE)
  /\ UNCHANGED <<call, sync>>

\* Nothing is removed from a nil map, which stays nil.
RemoveXattr(p, a) ==
  /\ xattrs[p] # None
  /\ Put(p, IF xattrs[p] = Null THEN Null ELSE [xattrs[p] EXCEPT ![a] = None],
         [want[p] EXCEPT ![a] = None], FALSE)
  /\ UNCHANGED <<call, sync, wid>>

-----------------------------------------------------------------------------
(* Setattr                                                                 *)

\* A request for A that has the number v.
Request(A, v, other) == [a \in Posix |-> IF a \in A THEN v ELSE other]

\* The row is read, and the change is made in memory.
SetattrRead(c, p) ==
  /\ xattrs[p] # None /\ wid < MaxWrites
  /\ wid' = wid + 1
  /\ \E A \in Asked \ {{}} :
       Begin(c, [op |-> IF p \in Dirs THEN "upsert" ELSE "fields", path |-> p, to |-> p,
                 read |-> xattrs[p], req |-> Request(A, wid', None)])
  /\ UNCHANGED <<xattrs, sync, want, raced>>

\* File.Setattr writes the column, of a row that may have gone.
SetattrFile(c) ==
  /\ Doing(c, "fields")
  /\ LET k == call[c]
         p == k.path
     IN  IF xattrs[p] = None THEN UNCHANGED <<xattrs, want, raced>>
         ELSE Put(p, Merged(Attrs(k.read), k.req), Expected(want[p], k.req), xattrs[p] # k.read)
  /\ End(c)
  /\ UNCHANGED <<sync, wid>>

\* Dir.Setattr writes the whole row, which comes back if it has gone.
SetattrDir(c) ==
  /\ Doing(c, "upsert")
  /\ LET k == call[c]
         p == k.path
     IN  Put(p, Upsert(xattrs[p], Merged(Attrs(k.read), k.req)), Expected(want[p], k.req), xattrs[p] # k.read)
  /\ End(c)
  /\ UNCHANGED <<sync, wid>>

\* The database refuses: the application is told.
SetattrRefused(c) ==
  /\ Doing(c, "fields") \/ Doing(c, "upsert")
  /\ End(c)
  /\ UNCHANGED <<xattrs, sync, wid, want, raced>>

-----------------------------------------------------------------------------
(* Create, Mkdir, and what removes a row                                   *)

\* The row first, without attributes.  Mode zero is not stored; the owner is
\* stored unless all three are zero.
Create(c, p) ==
  /\ xattrs[p] = None /\ wid < MaxWrites
  /\ wid' = wid + 1
  /\ \E A \in Asked :
       LET op == IF A = {} THEN "marker" ELSE "reread"
           r  == Request(A, wid', 0)
       IN  IF A = {} /\ p \in Files THEN UNCHANGED call
           ELSE Begin(c, [op |-> op, path |-> p, to |-> p, read |-> None,
                          req |-> [r EXCEPT !["mode"] = IF "mode" \in A THEN wid' ELSE None]])
  /\ Put(p, Upsert(None, Null), Nothing, FALSE)
  /\ UNCHANGED sync

\* A file is done, a directory still needs its marker in the bucket.
Created(c) == IF call[c].path \in Dirs THEN Proceed(c, "marker") ELSE End(c)

\* Faulty: the error of the second reading is not looked at.
CreateReadUnchecked(c) ==
  /\ Doing(c, "reread")
  /\ call' = [call EXCEPT ![c].op = "create", ![c].read = xattrs[call[c].path]]
  /\ UNCHANGED <<xattrs, sync, wid, want, raced>>

\* The row is read again; if it is not there any more, its attributes are skipped.
CreateRead(c) ==
  /\ Doing(c, "reread")
  /\ LET x == xattrs[call[c].path]
     IN  IF x = None THEN Created(c)
         ELSE call' = [call EXCEPT ![c].op = "create", ![c].read = x]
  /\ UNCHANGED <<xattrs, sync, wid, want, raced>>

\* They are added to the row that was read.
CreateWrite(c) ==
  /\ Doing(c, "create")
  /\ LET k == call[c]
         p == k.path
         x == Upsert(xattrs[p], Merged(Attrs(k.read), k.req))
     IN  \/ Put(p, x, Expected(want[p], k.req), xattrs[p] # k.read)
         \/ IF xattrs[p] = None THEN UNCHANGED <<xattrs, want, raced>>  \* an error is ignored
            ELSE Put(p, xattrs[p], Expected(want[p], k.req), TRUE)
  /\ Created(c)
  /\ UNCHANGED <<sync, wid>>

\* CreateDirectory succeeds, or fails and the row is taken back.
MkdirMarker(c) ==
  /\ Doing(c, "marker")
  /\ UNCHANGED <<xattrs, want, raced>> \/ Forget(call[c].path)
  /\ End(c)
  /\ UNCHANGED <<sync, wid>>

\* DeleteEntry, by Remove or by the reconciliation of the synchronisation.
DeleteEntry(p) ==
  /\ xattrs[p] # None
  /\ Forget(p)
  /\ UNCHANGED <<call, sync, wid>>

-----------------------------------------------------------------------------
(* Rename                                                                  *)

NoRequest == [a \in Posix |-> None]

RenameRead(c, p, q) ==
  /\ p # q /\ (p \in Dirs <=> q \in Dirs) /\ xattrs[p] # None
  /\ Begin(c, [op |-> "replace", path |-> p, to |-> q, read |-> xattrs[p], req |-> NoRequest])
  /\ UNCHANGED <<xattrs, sync, wid, want, raced>>

\* The row at the new path goes.
RenameReplace(c) ==
  /\ Doing(c, "replace")
  /\ Forget(call[c].to)
  /\ Proceed(c, "insert")
  /\ UNCHANGED <<sync, wid>>

\* Faulty: the attributes are not handed on.
RenameInsertBare(c) ==
  /\ Doing(c, "insert")
  /\ LET k == call[c]
         x == Upsert(xattrs[k.to], Null)
     IN  /\ Put(k.to, x, want[k.path],
                k.path \in raced \/ xattrs[k.path] # k.read \/ xattrs[k.to] # None)
         /\ call' = [call EXCEPT ![c].op = "unlink", ![c].read = x]
  /\ UNCHANGED <<sync, wid>>

\* newEntry has the attributes that were read.  From here on it has those of
\* the new row, where the synchronisation may have made one.
RenameInsert(c) ==
  /\ Doing(c, "insert")
  /\ LET k == call[c]
         x == Upsert(xattrs[k.to], k.read)
     IN  /\ Put(k.to, x, want[k.path],
                k.path \in raced \/ xattrs[k.path] # k.read \/ xattrs[k.to] # None)
         /\ call' = [call EXCEPT ![c].op = "unlink", ![c].read = x]
  /\ UNCHANGED <<sync, wid>>

\* The row at the old path goes, with what was set there since it was read.
RenameUnlink(c) ==
  /\ Doing(c, "unlink")
  /\ LET k == call[c]
         p == k.path
     IN  /\ xattrs' = [xattrs EXCEPT ![p] = None]
         /\ want'   = [want EXCEPT ![p] = Nothing]
         /\ raced'  = (raced \ {p}) \cup (IF xattrs[p] # k.read THEN {k.to} ELSE {})
  /\ Proceed(c, "resize")
  /\ UNCHANGED <<sync, wid>>

\* When the staging file had to be uploaded, newEntry is stored once more.
RenameResize(c) ==
  /\ Doing(c, "resize")
  /\ LET k == call[c]
         q == k.to
     IN  \/ Put(q, Upsert(xattrs[q], k.read), want[q], k.read # Null /\ xattrs[q] # k.read)
         \/ UNCHANGED <<xattrs, want, raced>>
  /\ End(c)
  /\ UNCHANGED <<sync, wid>>

\* The database refuses one of the calls: the rename stops there.
RenameRefused(c) ==
  /\ Doing(c, "replace") \/ Doing(c, "insert") \/ Doing(c, "unlink")
  /\ End(c)
  /\ UNCHANGED <<xattrs, sync, wid, want, raced>>

-----------------------------------------------------------------------------
(* The synchronisation, and crashes.                                       *)

\* The row of the next object, or of a directory above it, is read.
SyncRead(p) ==
  /\ sync = None
  /\ sync' = [path |-> p, read |-> xattrs[p]]
  /\ UNCHANGED <<xattrs, call, wid, want, raced>>

\* The row is stored with the attributes that were read, if there were any.
SyncWrite ==
  /\ sync # None
  /\ LET p == sync.path
         r == IF sync.read = None THEN Null ELSE sync.read
     IN  Put(p, Upsert(xattrs[p], r), want[p], r # Null /\ xattrs[p] # r)
  /\ sync' = None
  /\ UNCHANGED <<call, wid>>

\* The row is left alone after all, or the database refuses and the run is over.
SyncSkip ==
  /\ sync # None
  /\ sync' = None
  /\ UNCHANGED <<xattrs, call, wid, want, raced>>

Crash ==
  /\ call' = [c \in Calls |-> None] /\ sync' = None
  /\ UNCHANGED <<xattrs, wid, want, raced>>

Next ==
  \/ \E p \in Paths : NewRow(p) \/ DeleteEntry(p) \/ SyncRead(p)
  \/ \E p \in Paths, a \in Named : RemoveXattr(p, a) \/ \E utf8 \in BOOLEAN : SetXattr(p, a, utf8)
  \/ \E c \in Calls, p \in Paths :
       SetattrRead(c, p) \/ Create(c, p) \/ \E q \in Paths : RenameRead(c, p, q)
  \/ \E c \in Calls :
       \/ SetattrFile(c) \/ SetattrDir(c) \/ SetattrRefused(c)
       \/ CreateRead(c) \/ CreateWrite(c) \/ MkdirMarker(c)
       \/ RenameReplace(c) \/ RenameInsert(c) \/ RenameUnlink(c) \/ RenameResize(c) \/ RenameRefused(c)
  \/ SyncWrite \/ SyncSkip \/ Crash

Spec == Init /\ [][Next]_vars

-----------------------------------------------------------------------------
\* Every variable has its type, and a handler that writes attributes back has
\* read some.
TypeOK ==
  /\ xattrs \in [Paths -> Column \cup {None}]
  /\ call \in [Calls -> Call \cup {None}]
  /\ \A c \in Calls : call[c] # None => call[c].op \in {"reread", "marker"} \/ call[c].read \in Column
  /\ sync \in Pass \cup {None}
  /\ wid \in 0 .. MaxWrites
  /\ want \in [Paths -> Map]
  /\ raced \subseteq Paths

\* m is what is wanted; half an owner gets 0 for its other half.
Honours(m, wanted) ==
  \A a \in Names : m[a] = wanted[a] \/ (a \in {"uid", "gid"} /\ wanted[a] = None /\ m[a] = 0)

\* A row has the attributes that the requests on it asked for, one after the
\* other: none is lost, or changed by a request for another, or taken over from
\* another file or from one that had the name before, although Setattr, Create,
\* Rename and the synchronisation write back whole columns that they read
\* earlier.  The only exception are rows where one of them has overwritten what
\* it had not read.
AttributesKept ==
  \A p \in Paths \ raced : xattrs[p] # None => Honours(Attrs(xattrs[p]), want[p])
=============================================================================
