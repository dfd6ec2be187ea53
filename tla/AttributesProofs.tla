-------------------------- MODULE AttributesProofs --------------------------
(***************************************************************************)
(* AttributesKept for any number of paths, requests and values.            *)
(*                                                                         *)
(* Rows is what holds of the table between any two steps: beside the       *)
(* property, that uid and gid are there together, and that a path without  *)
(* a row has nothing.  Handlers is what holds of the columns that handlers *)
(* and the synchronisation have read.  Every write of a column is a Put or *)
(* a Forget, for which Rows is shown once.                                 *)
(***************************************************************************)
EXTENDS Attributes, TLAPS

Whole(m) == (m["uid"] = None) <=> (m["gid"] = None)

RowsTyped ==
  /\ xattrs \in [Paths -> Column \cup {None}]
  /\ want \in [Paths -> Map]
  /\ raced \subseteq Paths

Rows ==
  /\ RowsTyped
  /\ \A p \in Paths : Whole(Attrs(xattrs[p]))
  /\ \A p \in Paths : xattrs[p] = None => want[p] = Nothing
  /\ AttributesKept

HasRead(k) == k.op \notin {"reread", "marker"}

Handlers ==
  /\ call \in [Calls -> Call \cup {None}]
  /\ sync \in Pass \cup {None}
  /\ wid \in 0 .. MaxWrites
  /\ \A c \in Calls : call[c] # None => Whole(Attrs(call[c].read)) /\ (HasRead(call[c]) => call[c].read \in Column)
  /\ sync # None => Whole(Attrs(sync.read))

-----------------------------------------------------------------------------
(* Maps.                                                                   *)

\* The attributes of a column are a map, those of no row and of Null are none.
LEMMA AttrsFacts ==
  /\ Nothing \in Map /\ Whole(Nothing)
  /\ Attrs(Null) = Nothing /\ Attrs(None) = Nothing
  /\ \A m \in Map : Attrs(m) = m
  /\ \A x : Attrs(x) \in Map
  /\ None \notin Column
BY AttributesAssumption DEF Nothing, Map, Whole, Attrs, Names, Posix, Column

\* What a Setattr makes of a map is a map, with an owner that is whole.
LEMMA MergedMap ==
  ASSUME NEW m \in Map, NEW req \in Wanted, Whole(m)
  PROVE  Merged(m, req) \in Map /\ Whole(Merged(m, req))
<1>1. 0 \in Values
  BY AttributesAssumption DEF Values
<1>2. \A a \in Names : Merged(m, req)[a] \in Values \cup {None}
  BY <1>1 DEF Merged, Owner, Map, Wanted, Names, Posix
<1>3. Whole(Merged(m, req))
  <2>1. CASE req["uid"] = None /\ req["gid"] = None
    BY <2>1 DEF Merged, Whole, Names, Posix
  <2>2. CASE ~(req["uid"] = None /\ req["gid"] = None)
    <3>1. \A a \in {"uid", "gid"} : Owner(m, a) # None
      BY <1>1, AttributesAssumption DEF Owner
    <3>2. \A a \in {"uid", "gid"} : Merged(m, req)[a] # None
      BY <2>2, <3>1 DEF Merged, Names, Posix
    <3> QED
      BY <3>2 DEF Whole
  <2> QED
    BY <2>1, <2>2
<1> QED
  BY <1>2, <1>3 DEF Map, Merged

\* It is what was expected of it, if the map was.
LEMMA MergedHonours ==
  ASSUME NEW m \in Map, NEW w \in Map, NEW req \in Wanted, Whole(m), Honours(m, w)
  PROVE  Expected(w, req) \in Map /\ Honours(Merged(m, req), Expected(w, req))
<1>1. Expected(w, req) \in Map
  BY DEF Expected, Map, Wanted, Names, Posix
<1>2. ASSUME NEW a \in Names
      PROVE  \/ Merged(m, req)[a] = Expected(w, req)[a]
             \/ a \in {"uid", "gid"} /\ Expected(w, req)[a] = None /\ Merged(m, req)[a] = 0
  <2>1. CASE a \in Posix /\ req[a] # None
    BY <2>1 DEF Merged, Expected
  <2>2. CASE ~(a \in Posix /\ req[a] # None)
    <3>1. Expected(w, req)[a] = w[a]
      BY <2>2 DEF Expected
    <3>2. m[a] = w[a] \/ (a \in {"uid", "gid"} /\ w[a] = None /\ m[a] = 0)
      BY DEF Honours
    <3>3. Merged(m, req)[a] = m[a] \/ (a \in {"uid", "gid"} /\ m[a] = None /\ Merged(m, req)[a] = 0)
      BY <2>2 DEF Merged, Owner, Whole, Names, Posix
    <3>4. 0 # None
      BY AttributesAssumption DEF Values
    <3> QED
      BY <3>1, <3>2, <3>3, <3>4
  <2> QED
    BY <2>1, <2>2
<1> QED
  BY <1>1, <1>2 DEF Honours

-----------------------------------------------------------------------------
(* Writes of a column.                                                     *)

\* A write of one column, of which the property holds unless it is noted.
LEMMA PutRows ==
  ASSUME Rows, NEW p \in Paths, NEW x \in Column, NEW asked \in Map, NEW lost \in BOOLEAN,
         Whole(Attrs(x)), ~lost /\ p \notin raced => Honours(Attrs(x), asked),
         Put(p, x, asked, lost)
  PROVE  Rows'
<1>1. RowsTyped'
  BY DEF Rows, RowsTyped, Put
<1>2. \A q \in Paths : xattrs'[q] = (IF q = p THEN x ELSE xattrs[q]) /\ want'[q] = (IF q = p THEN asked ELSE want[q])
  BY DEF Rows, RowsTyped, Put
<1>3. \A q \in Paths : Whole(Attrs(xattrs'[q]))
  BY <1>2 DEF Rows
<1>4. \A q \in Paths : xattrs'[q] = None => want'[q] = Nothing
  BY <1>2, AttrsFacts DEF Rows
<1>5. ASSUME NEW q \in Paths \ raced', xattrs'[q] # None
      PROVE  Honours(Attrs(xattrs'[q]), want'[q])
  <2>1. CASE q = p
    BY <1>2, <1>5, <2>1 DEF Put
  <2>2. CASE q # p
    <3>1. q \in Paths \ raced /\ xattrs[q] # None
      BY <1>2, <1>5, <2>2 DEF Put
    <3> QED
      BY <1>2, <2>2, <3>1 DEF Rows, AttributesKept
  <2> QED
    BY <2>1, <2>2
<1> QED
  BY <1>1, <1>3, <1>4, <1>5 DEF Rows, AttributesKept, Whole, Honours, Attrs

\* A row that goes takes everything with it.
LEMMA ForgetRows ==
  ASSUME Rows, NEW p \in Paths, Forget(p)
  PROVE  Rows'
<1>1. RowsTyped'
  BY AttrsFacts DEF Rows, RowsTyped, Forget
<1>2. \A q \in Paths : xattrs'[q] = (IF q = p THEN None ELSE xattrs[q]) /\ want'[q] = (IF q = p THEN Nothing ELSE want[q])
  BY DEF Rows, RowsTyped, Forget
<1>3. \A q \in Paths : Whole(Attrs(xattrs'[q]))
  BY <1>2, AttrsFacts DEF Rows
<1>4. \A q \in Paths : xattrs'[q] = None => want'[q] = Nothing
  BY <1>2 DEF Rows
<1>5. \A q \in Paths \ raced' : xattrs'[q] # None => Honours(Attrs(xattrs'[q]), want'[q])
  BY <1>2 DEF Rows, AttributesKept, Forget
<1> QED
  BY <1>1, <1>3, <1>4, <1>5 DEF Rows, AttributesKept, Whole, Honours, Attrs

\* Nothing is written.
LEMMA SameRows ==
  ASSUME Rows, UNCHANGED <<xattrs, want, raced>>
  PROVE  Rows'
BY DEF Rows, RowsTyped, AttributesKept, Whole, Honours, Attrs

-----------------------------------------------------------------------------
(* Handlers.                                                               *)

\* A handler that may be there.
Proper(k) == Whole(Attrs(k.read)) /\ (HasRead(k) => k.read \in Column)

\* One handler changes.
LEMMA OneHandler ==
  ASSUME Handlers, NEW c \in Calls, NEW k \in Call \cup {None}, k # None => Proper(k),
         call' = [call EXCEPT ![c] = k], UNCHANGED sync, wid' \in 0 .. MaxWrites
  PROVE  Handlers'
<1>1. call' \in [Calls -> Call \cup {None}]
  BY DEF Handlers
<1>2. \A d \in Calls : call'[d] # None => Proper(call'[d])
  BY DEF Handlers, Proper
<1> QED
  BY <1>1, <1>2 DEF Handlers, Proper, Whole, HasRead, Attrs

\* A handler returns.
LEMMA EndHandlers ==
  ASSUME Handlers, NEW c \in Calls, End(c), UNCHANGED <<sync, wid>>
  PROVE  Handlers'
<1>1. wid' \in 0 .. MaxWrites
  BY DEF Handlers
<1> QED
  BY <1>1, OneHandler DEF End

\* A handler that runs has an operation and, if it writes, what it has read.
LEMMA Running ==
  ASSUME Handlers, NEW c \in Calls, call[c] # None
  PROVE  /\ call[c] \in Call /\ Proper(call[c])
         /\ call[c].path \in Paths /\ call[c].to \in Paths /\ call[c].req \in Wanted
         /\ call[c].op \in Ops /\ call[c].read \in Column \cup {None}
<1>1. call[c] \in Call
  BY DEF Handlers
<1> QED
  BY <1>1 DEF Handlers, Proper, Call

\* A handler goes on to its next operation, with what it has read or reads now.
LEMMA NextHandlers ==
  ASSUME Handlers, NEW c \in Calls, call[c] # None, NEW o \in Ops, NEW x \in Column \cup {None}, Whole(Attrs(x)),
         o \notin {"reread", "marker"} => x \in Column,
         call' = [call EXCEPT ![c] = [call[c] EXCEPT !.op = o, !.read = x]], UNCHANGED <<sync, wid>>
  PROVE  Handlers'
<1> DEFINE k == [call[c] EXCEPT !.op = o, !.read = x]
<1>1. k \in Call /\ k.op = o /\ k.read = x
  BY Running DEF Call
<1>2. Proper(k)
  BY <1>1 DEF Proper, HasRead
<1>3. wid' \in 0 .. MaxWrites
  BY DEF Handlers
<1> QED
  BY <1>1, <1>2, <1>3, OneHandler

\* A handler goes on with what it has read.
LEMMA ProceedHandlers ==
  ASSUME Handlers, NEW c \in Calls, call[c] # None, NEW o \in Ops,
         o \notin {"reread", "marker"} => call[c].read \in Column, Proceed(c, o), UNCHANGED <<sync, wid>>
  PROVE  Handlers'
<1>1. call[c] \in Call /\ Proper(call[c]) /\ call[c].read \in Column \cup {None}
  BY Running
<1>2. [call[c] EXCEPT !.op = o] = [call[c] EXCEPT !.op = o, !.read = call[c].read]
  BY <1>1 DEF Call
<1>3. call' = [call EXCEPT ![c] = [call[c] EXCEPT !.op = o, !.read = call[c].read]]
  BY <1>2 DEF Proceed
<1>4. Whole(Attrs(call[c].read))
  BY <1>1 DEF Proper
<1> QED
  BY <1>1, <1>3, <1>4, NextHandlers

\* No handler and no number changes.
LEMMA SameHandlers ==
  ASSUME Handlers, UNCHANGED <<call, sync, wid>>
  PROVE  Handlers'
BY DEF Handlers, Whole, HasRead, Attrs

-----------------------------------------------------------------------------
(* The steps.                                                              *)

Inv == Rows /\ Handlers

\* What Rows says of one path.
LEMMA RowOf ==
  ASSUME Rows, NEW p \in Paths
  PROVE  /\ xattrs[p] \in Column \cup {None} /\ want[p] \in Map /\ Whole(Attrs(xattrs[p]))
         /\ xattrs[p] = None => want[p] = Nothing /\ Attrs(xattrs[p]) = Nothing
         /\ p \notin raced => Honours(Attrs(xattrs[p]), want[p])
<1>1. Honours(Nothing, Nothing)
  BY DEF Honours
<1> QED
  BY <1>1, AttrsFacts DEF Rows, RowsTyped, AttributesKept

\* A Setattr, a Create or a Mkdir writes back what it has made of what it read.
LEMMA WriteBackRows ==
  ASSUME Inv, NEW p \in Paths, NEW x \in Column, NEW req \in Wanted, Whole(Attrs(x)),
         NEW old \in Column \cup {None},
         Put(p, Upsert(old, Merged(Attrs(x), req)), Expected(want[p], req), xattrs[p] # x)
  PROVE  Rows'
<1> DEFINE m == Merged(Attrs(x), req)
<1>1. m \in Map /\ Whole(m)
  BY AttrsFacts, MergedMap
<1>2. Upsert(old, m) = m /\ m \in Column /\ Attrs(m) = m
  BY <1>1, AttrsFacts, AttributesAssumption DEF Upsert, Column
<1>3. Expected(want[p], req) \in Map
  BY RowOf DEF Inv, Expected, Map, Wanted, Names, Posix
<1>4. ASSUME xattrs[p] = x, p \notin raced
      PROVE  Honours(m, Expected(want[p], req))
  <2>1. Honours(Attrs(x), want[p]) /\ want[p] \in Map
    BY <1>4, RowOf DEF Inv
  <2> QED
    BY <2>1, AttrsFacts, MergedHonours
<1> QED
  BY <1>1, <1>2, <1>3, <1>4, PutRows DEF Inv

\* Setxattr, Removexattr, and the row that a directory is given.
LEMMA XattrSteps ==
  ASSUME Inv, NEW p \in Paths, NEW a \in Names \ {"uid", "gid"}, NEW utf8 \in BOOLEAN,
         NewRow(p) \/ SetXattr(p, a, utf8) \/ RemoveXattr(p, a)
  PROVE  Inv'
<1>r. /\ xattrs[p] \in Column \cup {None} /\ want[p] \in Map /\ Whole(Attrs(xattrs[p]))
      /\ p \notin raced => Honours(Attrs(xattrs[p]), want[p])
  BY RowOf DEF Inv
<1>1. CASE NewRow(p)
  <2>1. Upsert(None, Null) = Null /\ Null \in Column /\ Nothing \in Map /\ Whole(Attrs(Null)) /\ Honours(Attrs(Null), Nothing)
    BY AttrsFacts DEF Upsert, Column, Honours
  <2> QED
    BY <1>1, <2>1, PutRows, SameHandlers DEF NewRow, Inv
<1>2. CASE SetXattr(p, a, utf8)
  <2> DEFINE v == Stored(wid', utf8)
             x == [Attrs(xattrs[p]) EXCEPT ![a] = v]
             w == [want[p] EXCEPT ![a] = v]
  <2>1. wid' \in 0 .. MaxWrites
    BY <1>2, AttributesAssumption DEF SetXattr, Inv, Handlers
  <2>2. v \in Values
    BY <2>1 DEF Stored, Values
  <2>3. Attrs(xattrs[p]) \in Map /\ x \in Map /\ w \in Map
    BY <1>r, <2>2, AttrsFacts DEF Map
  <2>4. x \in Column /\ Attrs(x) = x /\ Whole(x)
    BY <1>r, <2>3, AttrsFacts DEF Column, Whole, Map, Names, Posix
  <2>5. Honours(Attrs(xattrs[p]), want[p]) => Honours(x, w)
    BY <1>r, <2>3 DEF Honours, Map
  <2>6. Rows'
    BY <1>2, <1>r, <2>3, <2>4, <2>5, PutRows DEF SetXattr, Inv
  <2>7. Handlers'
    BY <1>2, <2>1 DEF SetXattr, Inv, Handlers, Whole, HasRead, Attrs
  <2> QED
    BY <2>6, <2>7 DEF Inv
<1>3. CASE RemoveXattr(p, a)
  <2> DEFINE x == IF xattrs[p] = Null THEN Null ELSE [xattrs[p] EXCEPT ![a] = None]
             w == [want[p] EXCEPT ![a] = None]
  <2>1. w \in Map /\ x \in Column
    BY <1>3, <1>r DEF RemoveXattr, Map, Column
  <2>2. CASE xattrs[p] = Null
    <3>1. Whole(Attrs(x)) /\ (Honours(Attrs(xattrs[p]), want[p]) => Honours(Attrs(x), w))
      BY <1>r, <2>2, AttrsFacts DEF Honours, Nothing, Map
    <3> QED
      BY <1>3, <1>r, <2>1, <3>1, PutRows, SameHandlers DEF RemoveXattr, Inv
  <2>3. CASE xattrs[p] # Null
    <3>1. xattrs[p] \in Map /\ Attrs(xattrs[p]) = xattrs[p]
      BY <1>3, <1>r, <2>3, AttrsFacts DEF RemoveXattr, Column
    <3>2. x \in Map /\ Attrs(x) = x
      BY <2>3, <3>1, AttrsFacts DEF Map
    <3>3. Whole(x)
      BY <1>r, <2>3, <3>1 DEF Whole, Map, Names, Posix
    <3>4. Honours(Attrs(xattrs[p]), want[p]) => Honours(x, w)
      BY <1>r, <2>3, <3>1 DEF Honours, Map
    <3> QED
      BY <1>3, <1>r, <2>1, <3>2, <3>3, <3>4, PutRows, SameHandlers DEF RemoveXattr, Inv
  <2> QED
    BY <2>2, <2>3
<1> QED
  BY <1>1, <1>2, <1>3

\* Setattr of a file and of a directory.
LEMMA SetattrSteps ==
  ASSUME Inv, NEW c \in Calls, NEW p \in Paths,
         SetattrRead(c, p) \/ SetattrFile(c) \/ SetattrDir(c) \/ SetattrRefused(c)
  PROVE  Inv'
<1>1. CASE SetattrRead(c, p)
  <2>1. wid' \in 0 .. MaxWrites
    BY <1>1, AttributesAssumption DEF SetattrRead, Inv, Handlers
  <2>2. PICK A \in Asked \ {{}} :
          Begin(c, [op |-> IF p \in Dirs THEN "upsert" ELSE "fields", path |-> p, to |-> p,
                    read |-> xattrs[p], req |-> Request(A, wid', None)])
    BY <1>1 DEF SetattrRead
  <2> DEFINE r == [op |-> IF p \in Dirs THEN "upsert" ELSE "fields", path |-> p, to |-> p,
                   read |-> xattrs[p], req |-> Request(A, wid', None)]
  <2>3. Request(A, wid', None) \in Wanted
    BY <2>1 DEF Request, Wanted, Values
  <2>4. xattrs[p] \in Column /\ Whole(Attrs(xattrs[p]))
    BY <1>1, RowOf DEF SetattrRead, Inv
  <2>5. r \in Call /\ Proper(r)
    BY <2>3, <2>4 DEF Call, Ops, Proper
  <2> QED
    BY <1>1, <2>1, <2>2, <2>5, OneHandler, SameRows DEF SetattrRead, Begin, Inv
<1>2. CASE SetattrFile(c)
  <2>1. /\ call[c] \in Call /\ Whole(Attrs(call[c].read)) /\ call[c].read \in Column
        /\ call[c].path \in Paths /\ call[c].req \in Wanted
    BY <1>2, Running DEF SetattrFile, Doing, Inv, Proper, HasRead
  <2>2. Rows'
    <3>1. CASE xattrs[call[c].path] = None
      BY <1>2, <3>1, SameRows DEF SetattrFile, Inv
    <3>2. CASE xattrs[call[c].path] # None
      <4>1. Upsert(None, Merged(Attrs(call[c].read), call[c].req)) = Merged(Attrs(call[c].read), call[c].req)
        BY DEF Upsert
      <4> QED
        BY <1>2, <2>1, <3>2, <4>1, WriteBackRows DEF SetattrFile
    <3> QED
      BY <3>1, <3>2
  <2> QED
    BY <1>2, <2>2, EndHandlers DEF SetattrFile, Inv
<1>3. CASE SetattrDir(c)
  <2>1. /\ call[c] \in Call /\ Whole(Attrs(call[c].read)) /\ call[c].read \in Column
        /\ call[c].path \in Paths /\ call[c].req \in Wanted
    BY <1>3, Running DEF SetattrDir, Doing, Inv, Proper, HasRead
  <2>2. xattrs[call[c].path] \in Column \cup {None}
    BY <2>1, RowOf DEF Inv
  <2>3. Rows'
    BY <1>3, <2>1, <2>2, WriteBackRows DEF SetattrDir
  <2> QED
    BY <1>3, <2>3, EndHandlers DEF SetattrDir, Inv
<1>4. CASE SetattrRefused(c)
  BY <1>4, EndHandlers, SameRows DEF SetattrRefused, Inv
<1> QED
  BY <1>1, <1>2, <1>3, <1>4

\* The end of the part that Create and Mkdir have in common.
LEMMA CreatedHandlers ==
  ASSUME Handlers, NEW c \in Calls, call[c] # None, Created(c), UNCHANGED <<sync, wid>>
  PROVE  Handlers'
<1>1. CASE call[c].path \in Dirs
  BY <1>1, ProceedHandlers DEF Created, Ops
<1>2. CASE call[c].path \notin Dirs
  BY <1>2, EndHandlers DEF Created
<1> QED
  BY <1>1, <1>2

\* Create, Mkdir and DeleteEntry.
LEMMA CreateSteps ==
  ASSUME Inv, NEW c \in Calls, NEW p \in Paths,
         Create(c, p) \/ CreateRead(c) \/ CreateWrite(c) \/ MkdirMarker(c) \/ DeleteEntry(p)
  PROVE  Inv'
<1>1. CASE Create(c, p)
  <2>1. wid' \in 0 .. MaxWrites /\ 0 \in Values /\ wid' \in Values
    BY <1>1, AttributesAssumption DEF Create, Inv, Handlers, Values
  <2>2. Rows'
    <3>1. Upsert(None, Null) = Null /\ Null \in Column /\ Nothing \in Map /\ Whole(Attrs(Null)) /\ Honours(Attrs(Null), Nothing)
      BY AttrsFacts DEF Upsert, Column, Honours
    <3> QED
      BY <1>1, <3>1, PutRows DEF Create, Inv
  <2>3. Handlers'
    <3>1. PICK A \in Asked :
            LET op == IF A = {} THEN "marker" ELSE "reread"
                r  == Request(A, wid', 0)
            IN  IF A = {} /\ p \in Files THEN UNCHANGED call
                ELSE Begin(c, [op |-> op, path |-> p, to |-> p, read |-> None,
                               req |-> [r EXCEPT !["mode"] = IF "mode" \in A THEN wid' ELSE None]])
      BY <1>1 DEF Create
    <3> DEFINE op == IF A = {} THEN "marker" ELSE "reread"
               q == [Request(A, wid', 0) EXCEPT !["mode"] = IF "mode" \in A THEN wid' ELSE None]
               k == [op |-> op, path |-> p, to |-> p, read |-> None, req |-> q]
    <3>2. Request(A, wid', 0) \in [Posix -> Values \cup {None}]
      BY <2>1 DEF Request
    <3>3. q \in Wanted
      BY <2>1, <3>2 DEF Wanted
    <3>4. k \in Call /\ Proper(k)
      BY <3>3, AttrsFacts DEF Call, Ops, Proper, HasRead
    <3>5. CASE UNCHANGED call
      BY <1>1, <2>1, <3>5 DEF Create, Inv, Handlers, Whole, HasRead, Attrs
    <3>6. CASE Begin(c, k)
      BY <1>1, <2>1, <3>4, <3>6, OneHandler DEF Create, Begin, Inv
    <3> QED
      BY <3>1, <3>5, <3>6
  <2> QED
    BY <2>2, <2>3 DEF Inv
<1>2. CASE CreateRead(c)
  <2> DEFINE x == xattrs[call[c].path]
  <2>1. call[c] # None /\ call[c].path \in Paths
    BY <1>2, Running DEF CreateRead, Doing, Inv
  <2>2. x \in Column \cup {None} /\ Whole(Attrs(x))
    BY <2>1, RowOf DEF Inv
  <2>3. CASE x = None
    BY <1>2, <2>1, <2>3, CreatedHandlers, SameRows DEF CreateRead, Inv
  <2>4. CASE x # None
    <3>1. "create" \in Ops
      BY DEF Ops
    <3>2. call' = [call EXCEPT ![c] = [call[c] EXCEPT !.op = "create", !.read = x]]
      BY <1>2, <2>4 DEF CreateRead
    <3> QED
      BY <1>2, <2>1, <2>2, <2>4, <3>1, <3>2, NextHandlers, SameRows DEF CreateRead, Inv
  <2> QED
    BY <2>3, <2>4
<1>3. CASE CreateWrite(c)
  <2> DEFINE k == call[c]
             q == k.path
  <2>1. /\ k # None /\ Whole(Attrs(k.read)) /\ k.read \in Column
        /\ q \in Paths /\ k.req \in Wanted
    BY <1>3, Running DEF CreateWrite, Doing, Inv, Proper, HasRead
  <2>2. xattrs[q] \in Column \cup {None} /\ want[q] \in Map /\ Whole(Attrs(xattrs[q]))
    BY <2>1, RowOf DEF Inv
  <2>3. CASE Put(q, Upsert(xattrs[q], Merged(Attrs(k.read), k.req)), Expected(want[q], k.req), xattrs[q] # k.read)
    BY <1>3, <2>1, <2>2, <2>3, WriteBackRows, CreatedHandlers DEF CreateWrite, Inv
  <2>4. CASE UNCHANGED <<xattrs, want, raced>>
    BY <1>3, <2>1, <2>4, SameRows, CreatedHandlers DEF CreateWrite, Inv
  <2>5. CASE xattrs[q] # None /\ Put(q, xattrs[q], Expected(want[q], k.req), TRUE)
    <3>1. Expected(want[q], k.req) \in Map
      BY <2>1, <2>2 DEF Expected, Map, Wanted, Names, Posix
    <3> QED
      BY <1>3, <2>1, <2>2, <2>5, <3>1, PutRows, CreatedHandlers DEF CreateWrite, Inv
  <2> QED
    BY <1>3, <2>3, <2>4, <2>5 DEF CreateWrite
<1>4. CASE MkdirMarker(c)
  <2>1. call[c].path \in Paths
    BY <1>4, Running DEF MkdirMarker, Doing, Inv
  <2> QED
    BY <1>4, <2>1, SameRows, ForgetRows, EndHandlers DEF MkdirMarker, Inv
<1>5. CASE DeleteEntry(p)
  BY <1>5, ForgetRows, SameHandlers DEF DeleteEntry, Inv
<1> QED
  BY <1>1, <1>2, <1>3, <1>4, <1>5

\* Rename.
LEMMA RenameSteps ==
  ASSUME Inv, NEW c \in Calls, NEW p \in Paths, NEW q \in Paths,
         \/ RenameRead(c, p, q) \/ RenameReplace(c) \/ RenameInsert(c) \/ RenameUnlink(c)
         \/ RenameResize(c) \/ RenameRefused(c)
  PROVE  Inv'
<1> USE DEF Inv
<1>1. CASE RenameRead(c, p, q)
  <2> DEFINE r == [op |-> "replace", path |-> p, to |-> q, read |-> xattrs[p], req |-> NoRequest]
  <2>1. xattrs[p] \in Column /\ Whole(Attrs(xattrs[p]))
    BY <1>1, RowOf DEF RenameRead
  <2>2. NoRequest \in Wanted
    BY DEF NoRequest, Wanted
  <2>3. r \in Call /\ Proper(r)
    BY <2>1, <2>2 DEF Call, Ops, Proper
  <2>4. wid' \in 0 .. MaxWrites
    BY <1>1 DEF RenameRead, Handlers
  <2> QED
    BY <1>1, <2>3, <2>4, OneHandler, SameRows DEF RenameRead, Begin
<1> DEFINE k == call[c]
<1>r. k # None /\ k.op \in {"replace", "insert", "unlink", "resize"} =>
        k.path \in Paths /\ k.to \in Paths /\ k.read \in Column /\ Whole(Attrs(k.read))
  BY Running DEF Proper, HasRead
<1>2. CASE RenameReplace(c)
  <2>1. Rows'
    BY <1>2, <1>r, ForgetRows DEF RenameReplace, Doing
  <2>2. "insert" \in Ops
    BY DEF Ops
  <2> QED
    BY <1>2, <1>r, <2>1, <2>2, ProceedHandlers DEF RenameReplace, Doing
<1>3. CASE RenameInsert(c)
  <2> DEFINE x == Upsert(xattrs[k.to], k.read)
             lost == k.path \in raced \/ xattrs[k.path] # k.read \/ xattrs[k.to] # None
  <2>1. k # None /\ k.path \in Paths /\ k.to \in Paths /\ k.read \in Column /\ Whole(Attrs(k.read))
    BY <1>3, <1>r DEF RenameInsert, Doing
  <2>2. /\ xattrs[k.to] \in Column \cup {None} /\ Whole(Attrs(xattrs[k.to])) /\ want[k.path] \in Map
        /\ k.path \notin raced => Honours(Attrs(xattrs[k.path]), want[k.path])
    BY <2>1, RowOf
  <2>3. x \in Column /\ Whole(Attrs(x))
    BY <2>1, <2>2 DEF Upsert
  <2>4. ~lost => Honours(Attrs(x), want[k.path])
    BY <2>2 DEF Upsert
  <2>5. Rows'
    BY <1>3, <2>1, <2>2, <2>3, <2>4, PutRows DEF RenameInsert
  <2>6. "unlink" \in Ops
    BY DEF Ops
  <2>7. call' = [call EXCEPT ![c] = [call[c] EXCEPT !.op = "unlink", !.read = x]]
    BY <1>3 DEF RenameInsert
  <2> QED
    BY <1>3, <2>1, <2>3, <2>5, <2>6, <2>7, NextHandlers DEF RenameInsert
<1>4. CASE RenameUnlink(c)
  <2>1. k # None /\ k.path \in Paths /\ k.to \in Paths /\ k.read \in Column
    BY <1>4, <1>r DEF RenameUnlink, Doing
  <2>2. /\ xattrs' = [xattrs EXCEPT ![k.path] = None]
        /\ want' = [want EXCEPT ![k.path] = Nothing]
        /\ raced \ {k.path} \subseteq raced' /\ raced' \subseteq Paths
    BY <1>4, <2>1 DEF RenameUnlink, Rows, RowsTyped
  <2>3. RowsTyped'
    BY <2>1, <2>2, AttrsFacts DEF Rows, RowsTyped
  <2>4. \A s \in Paths : /\ xattrs'[s] = (IF s = k.path THEN None ELSE xattrs[s])
                         /\ want'[s] = (IF s = k.path THEN Nothing ELSE want[s])
    BY <2>2 DEF Rows, RowsTyped
  <2>5. \A s \in Paths : Whole(Attrs(xattrs'[s])) /\ (xattrs'[s] = None => want'[s] = Nothing)
    BY <2>4, AttrsFacts DEF Rows
  <2>6. \A s \in Paths \ raced' : xattrs'[s] # None => Honours(Attrs(xattrs'[s]), want'[s])
    BY <2>2, <2>4 DEF Rows, AttributesKept
  <2>7. Rows'
    BY <2>3, <2>5, <2>6 DEF Rows, AttributesKept, Whole, Honours, Attrs
  <2>8. "resize" \in Ops
    BY DEF Ops
  <2> QED
    BY <1>4, <2>1, <2>7, <2>8, ProceedHandlers DEF RenameUnlink
<1>5. CASE RenameResize(c)
  <2>1. k # None /\ k.to \in Paths /\ k.read \in Column /\ Whole(Attrs(k.read))
    BY <1>5, <1>r DEF RenameResize, Doing
  <2>2. CASE UNCHANGED <<xattrs, want, raced>>
    BY <1>5, <2>2, SameRows, EndHandlers DEF RenameResize
  <2>3. CASE Put(k.to, Upsert(xattrs[k.to], k.read), want[k.to], k.read # Null /\ xattrs[k.to] # k.read)
    <3> DEFINE x == Upsert(xattrs[k.to], k.read)
    <3>1. /\ xattrs[k.to] \in Column \cup {None} /\ want[k.to] \in Map /\ Whole(Attrs(xattrs[k.to]))
          /\ k.to \notin raced => Honours(Attrs(xattrs[k.to]), want[k.to])
      BY <2>1, RowOf
    <3>2. x \in Column /\ Whole(Attrs(x))
      BY <2>1, <3>1 DEF Upsert
    <3>3. ~(k.read # Null /\ xattrs[k.to] # k.read) => Attrs(x) = Attrs(xattrs[k.to])
      BY <2>1, <3>1, AttrsFacts DEF Upsert
    <3>4. Rows'
      BY <2>1, <2>3, <3>1, <3>2, <3>3, PutRows
    <3> QED
      BY <1>5, <2>1, <3>4, EndHandlers DEF RenameResize
  <2> QED
    BY <1>5, <2>2, <2>3 DEF RenameResize
<1>6. CASE RenameRefused(c)
  BY <1>6, EndHandlers, SameRows DEF RenameRefused
<1> QED
  BY <1>1, <1>2, <1>3, <1>4, <1>5, <1>6

\* The synchronisation, and a crash.
LEMMA SyncSteps ==
  ASSUME Inv, NEW p \in Paths, SyncRead(p) \/ SyncWrite \/ SyncSkip \/ Crash
  PROVE  Inv'
<1> USE DEF Inv
<1>s. ASSUME UNCHANGED <<call, wid>>, sync' \in Pass \cup {None}, sync' # None => Whole(Attrs(sync'.read))
      PROVE  Handlers'
  BY <1>s DEF Handlers, Whole, HasRead, Attrs
<1>1. CASE SyncRead(p)
  <2>1. xattrs[p] \in Column \cup {None} /\ Whole(Attrs(xattrs[p]))
    BY RowOf
  <2>2. sync' \in Pass /\ sync'.read = xattrs[p]
    BY <1>1, <2>1 DEF SyncRead, Pass
  <2> QED
    BY <1>1, <1>s, <2>1, <2>2, SameRows DEF SyncRead
<1>2. CASE SyncWrite
  <2> DEFINE q == sync.path
             r == IF sync.read = None THEN Null ELSE sync.read
             x == Upsert(xattrs[q], r)
  <2>1. sync \in Pass /\ q \in Paths /\ sync.read \in Column \cup {None} /\ Whole(Attrs(sync.read))
    BY <1>2 DEF SyncWrite, Handlers, Pass
  <2>2. r \in Column /\ Whole(Attrs(r))
    BY <2>1, AttrsFacts DEF Column
  <2>3. /\ xattrs[q] \in Column \cup {None} /\ want[q] \in Map /\ Whole(Attrs(xattrs[q]))
        /\ q \notin raced => Honours(Attrs(xattrs[q]), want[q])
    BY <2>1, RowOf
  <2>4. x \in Column /\ Whole(Attrs(x))
    BY <2>2, <2>3 DEF Upsert
  <2>5. ~(r # Null /\ xattrs[q] # r) => Attrs(x) = Attrs(xattrs[q])
    BY <2>2, <2>3, AttrsFacts DEF Upsert
  <2>6. Rows'
    BY <1>2, <2>1, <2>3, <2>4, <2>5, PutRows DEF SyncWrite
  <2> QED
    BY <1>2, <1>s, <2>6 DEF SyncWrite
<1>3. CASE SyncSkip
  BY <1>3, <1>s, SameRows DEF SyncSkip
<1>4. CASE Crash
  BY <1>4, SameRows DEF Crash, Handlers
<1> QED
  BY <1>1, <1>2, <1>3, <1>4

-----------------------------------------------------------------------------
\* Inv holds at the start.
LEMMA InitInv == Init => Inv
<1> SUFFICES ASSUME Init PROVE Inv
  OBVIOUS
<1>1. RowsTyped
  BY AttrsFacts DEF Init, RowsTyped, Column
<1>2. \A p \in Paths : Attrs(xattrs[p]) = Nothing /\ want[p] = Nothing
  BY AttrsFacts DEF Init
<1>3. Rows
  BY <1>1, <1>2, AttrsFacts DEF Rows, AttributesKept, Honours
<1>4. Handlers
  BY AttributesAssumption DEF Init, Handlers
<1> QED
  BY <1>3, <1>4 DEF Inv

\* Every step keeps it.
LEMMA NextInv == Inv /\ [Next]_vars => Inv'
<1> SUFFICES ASSUME Inv, [Next]_vars PROVE Inv'
  OBVIOUS
<1>1. CASE UNCHANGED vars
  BY <1>1, SameRows, SameHandlers DEF vars, Inv
<1>2. ASSUME NEW p \in Paths, NewRow(p) \/ DeleteEntry(p) \/ SyncRead(p)
      PROVE  Inv'
  <2>1. "acl" \in Names \ {"uid", "gid"} /\ TRUE \in BOOLEAN
    BY DEF Names
  <2>2. CASE NewRow(p)
    BY <2>1, <2>2, XattrSteps
  <2>3. CASE DeleteEntry(p)
    BY <2>3, ForgetRows, SameHandlers DEF DeleteEntry, Inv
  <2>4. CASE SyncRead(p)
    BY <2>4, SyncSteps
  <2> QED
    BY <1>2, <2>2, <2>3, <2>4
<1>3. ASSUME NEW p \in Paths, NEW a \in Named, RemoveXattr(p, a) \/ \E utf8 \in BOOLEAN : SetXattr(p, a, utf8)
      PROVE  Inv'
  <2>1. a \in Names \ {"uid", "gid"}
    BY AttributesAssumption
  <2> QED
    BY <1>3, <2>1, XattrSteps
<1>4. ASSUME NEW c \in Calls, NEW p \in Paths,
             SetattrRead(c, p) \/ Create(c, p) \/ \E q \in Paths : RenameRead(c, p, q)
      PROVE  Inv'
  BY <1>4, SetattrSteps, CreateSteps, RenameSteps
<1>5. ASSUME NEW c \in Calls,
             \/ SetattrFile(c) \/ SetattrDir(c) \/ SetattrRefused(c)
             \/ CreateRead(c) \/ CreateWrite(c) \/ MkdirMarker(c)
             \/ RenameReplace(c) \/ RenameInsert(c) \/ RenameUnlink(c) \/ RenameResize(c) \/ RenameRefused(c)
      PROVE  Inv'
  <2>1. call[c] # None
    BY <1>5 DEF SetattrFile, SetattrDir, SetattrRefused, CreateRead, CreateWrite, MkdirMarker, RenameReplace,
                RenameInsert, RenameUnlink, RenameResize, RenameRefused, Doing
  <2>2. call[c].path \in Paths
    BY <2>1, Running DEF Inv
  <2> QED
    BY <1>5, <2>2, SetattrSteps, CreateSteps, RenameSteps
<1>6. CASE SyncWrite \/ SyncSkip \/ Crash
  <2>1. CASE SyncWrite
    <3>1. sync.path \in Paths
      BY <2>1 DEF SyncWrite, Inv, Handlers, Pass
    <3> QED
      BY <2>1, <3>1, SyncSteps
  <2>2. CASE SyncSkip
    <3>1. Handlers'
      BY <2>2 DEF SyncSkip, Inv, Handlers, Whole, HasRead, Attrs
    <3> QED
      BY <2>2, <3>1, SameRows DEF SyncSkip, Inv
  <2>3. CASE Crash
    BY <2>3, SameRows DEF Crash, Inv, Handlers
  <2> QED
    BY <1>6, <2>1, <2>2, <2>3
<1> QED
  BY <1>1, <1>2, <1>3, <1>4, <1>5, <1>6 DEF Next

\* Every variable keeps its type, and no handler writes attributes back without
\* having read a row.
THEOREM AttributesTyped == Spec => []TypeOK
<1>1. Inv => TypeOK
  BY DEF Inv, Rows, RowsTyped, Handlers, HasRead, TypeOK
<1> QED
  BY <1>1, InitInv, NextInv, PTL DEF Spec

\* No attribute of a file or directory is lost, changed or inherited, whatever
\* runs beside the request that writes the column, except by a lost update.
THEOREM AttributesKeptAlways == Spec => []AttributesKept
<1>1. Inv => AttributesKept
  BY DEF Inv, Rows
<1> QED
  BY <1>1, InitInv, NextInv, PTL DEF Spec
=============================================================================
