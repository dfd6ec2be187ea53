-------------------------- MODULE ChunkCacheProofs --------------------------
(***************************************************************************)
(* The chunk cache for any number of readers, files and chunks and any     *)
(* limit.  Whatever else happens to it (every value of Ops): one download  *)
(* at a time for a chunk, no reader that waits for nobody, no chunk file   *)
(* that cannot be evicted but those os.Remove left.  When nothing is       *)
(* invalidated: the count of the other files and their bound.              *)
(*                                                                         *)
(* The first two need each other.  A reader that finds a download in the   *)
(* map waits on a reader that is downloading because the map and the       *)
(* program counters agree (SingleFlight); they go on agreeing because a    *)
(* reader leaves its download only in Finish, which wakes everyone on it.  *)
(* The other three follow the LRU list: its entries are filed under their  *)
(* chunks or paths (Filed), it is no longer than the counter (CountInv),   *)
(* and room that was given is used once (RoomInv).                         *)
(***************************************************************************)
EXTENDS ChunkCache, FiniteSetTheorems, SequenceTheorems, TLAPS

ReaderTypes ==
  /\ downloading \in [Chunks -> Readers \cup {None}]
  /\ pc \in [Readers -> ReaderPcs]
  /\ chunk \in [Readers -> Chunks \cup {None}]
  /\ on \in [Readers -> Readers \cup {None}]
  /\ \A r \in Readers : /\ (pc[r] = "idle") <=> (chunk[r] = None)
                        /\ (pc[r] = "wait") <=> (on[r] # None)

\* The inductive invariant.
FlightInv == ReaderTypes /\ SingleFlight /\ Awaited

-----------------------------------------------------------------------------
LEMMA InitFlight == Init => FlightInv
  BY ChunkAssumption
  DEF Init, FlightInv, ReaderTypes, SingleFlight, Awaited, Downloads, InDownload, ReaderPcs

\* A reader goes on, inside its download or outside of it, and touches neither
\* the map nor a channel.
LEMMA GoesOn ==
  ASSUME FlightInv, NEW r \in Readers, NEW to \in ReaderPcs \ {"idle", "wait"},
         pc[r] \notin {"idle", "wait"},
         (pc[r] \in InDownload) <=> (to \in InDownload),
         Goes(r, to), UNCHANGED <<downloading, chunk, on>>
  PROVE  FlightInv'
<1>1. /\ pc' \in [Readers -> ReaderPcs]
      /\ pc'[r] = to
      /\ \A q \in Readers \ {r} : pc'[q] = pc[q]
  BY DEF FlightInv, ReaderTypes, Goes
<1>2. ReaderTypes'
  BY <1>1 DEF FlightInv, ReaderTypes
<1>3. \A q \in Readers, c \in Chunks : Downloads(q, c)' <=> Downloads(q, c)
  BY <1>1 DEF Downloads
<1>4. SingleFlight'
  BY <1>3 DEF FlightInv, SingleFlight
<1>5. Awaited'
  <2> SUFFICES ASSUME NEW q \in Readers, pc'[q] = "wait"
               PROVE  Downloads(on[q], chunk[q])'
    BY DEF Awaited
  <2>1. pc[q] = "wait"
    BY <1>1
  <2>2. Downloads(on[q], chunk[q]) /\ on[q] \in Readers /\ chunk[q] \in Chunks
    BY <2>1 DEF FlightInv, ReaderTypes, Awaited
  <2> QED
    BY <1>3, <2>2 DEF Downloads
<1> QED
  BY <1>2, <1>4, <1>5 DEF FlightInv

\* A reader that neither downloads nor is waited for gives up or is done.
LEMMA GoesIdle ==
  ASSUME FlightInv, NEW r \in Readers, pc[r] \notin InDownload,
         Goes(r, "idle"), chunk' = [chunk EXCEPT ![r] = None],
         on' = [on EXCEPT ![r] = None], UNCHANGED downloading
  PROVE  FlightInv'
<1>1. /\ pc' \in [Readers -> ReaderPcs] /\ pc'[r] = "idle"
      /\ chunk' \in [Readers -> Chunks \cup {None}] /\ chunk'[r] = None
      /\ on' \in [Readers -> Readers \cup {None}] /\ on'[r] = None
      /\ \A q \in Readers \ {r} : pc'[q] = pc[q] /\ chunk'[q] = chunk[q] /\ on'[q] = on[q]
  BY DEF FlightInv, ReaderTypes, Goes, ReaderPcs
<1>2. ReaderTypes'
  BY <1>1 DEF FlightInv, ReaderTypes
<1>3. \A q \in Readers, c \in Chunks : Downloads(q, c)' <=> Downloads(q, c)
  BY <1>1 DEF Downloads, InDownload
<1>4. SingleFlight'
  BY <1>3 DEF FlightInv, SingleFlight
<1>5. Awaited'
  <2> SUFFICES ASSUME NEW q \in Readers, pc'[q] = "wait"
               PROVE  Downloads(on[q], chunk[q])'
    BY DEF Awaited
  <2>1. q # r /\ pc[q] = "wait" /\ chunk'[q] = chunk[q] /\ on'[q] = on[q]
    BY <1>1
  <2>2. Downloads(on[q], chunk[q]) /\ on[q] \in Readers /\ chunk[q] \in Chunks
    BY <2>1 DEF FlightInv, ReaderTypes, Awaited
  <2>3. on[q] # r
    BY <2>2 DEF Downloads
  <2> QED
    BY <1>1, <2>1, <2>2, <2>3 DEF Downloads
<1> QED
  BY <1>2, <1>4, <1>5 DEF FlightInv

-----------------------------------------------------------------------------
(* The steps that change the map or a channel                              *)

LEMMA ReadFlight ==
  ASSUME FlightInv, NEW r \in Readers, NEW c \in Chunks, Read(r, c)
  PROVE  FlightInv'
<1>1. /\ pc[r] = "idle"
      /\ pc' \in [Readers -> ReaderPcs] /\ pc'[r] = "stat"
      /\ chunk' \in [Readers -> Chunks \cup {None}] /\ chunk'[r] = c
      /\ UNCHANGED <<downloading, on>>
      /\ \A q \in Readers \ {r} : pc'[q] = pc[q] /\ chunk'[q] = chunk[q]
  BY DEF FlightInv, ReaderTypes, Read, Goes, ReaderPcs
<1>2. ReaderTypes'
  BY <1>1, ChunkAssumption DEF FlightInv, ReaderTypes
<1>3. \A q \in Readers, d \in Chunks : Downloads(q, d)' <=> Downloads(q, d)
  BY <1>1 DEF Downloads, InDownload
<1>4. SingleFlight'
  BY <1>1, <1>3 DEF FlightInv, SingleFlight
<1>5. Awaited'
  <2> SUFFICES ASSUME NEW q \in Readers, pc'[q] = "wait"
               PROVE  Downloads(on[q], chunk[q])'
    BY DEF Awaited
  <2>1. q # r /\ pc[q] = "wait" /\ chunk'[q] = chunk[q] /\ on'[q] = on[q]
    BY <1>1
  <2>2. Downloads(on[q], chunk[q]) /\ on[q] \in Readers /\ chunk[q] \in Chunks
    BY <2>1 DEF FlightInv, ReaderTypes, Awaited
  <2> QED
    BY <1>3, <2>1, <2>2 DEF Downloads
<1> QED
  BY <1>2, <1>4, <1>5 DEF FlightInv

LEMMA ClaimFlight ==
  ASSUME FlightInv, NEW r \in Readers, Claim(r)
  PROVE  FlightInv'
<1> DEFINE c == chunk[r]
           d == downloading[c]
<1>1. /\ pc[r] = "claim" /\ c \in Chunks /\ on[r] = None
      /\ d \in Readers \cup {None} /\ UNCHANGED chunk
  BY DEF FlightInv, ReaderTypes, Claim
<1>2. CASE d # None
  <2>1. /\ pc' \in [Readers -> ReaderPcs] /\ pc'[r] = "wait"
        /\ on' \in [Readers -> Readers \cup {None}] /\ on'[r] = d
        /\ UNCHANGED <<downloading, chunk>>
        /\ \A q \in Readers \ {r} : pc'[q] = pc[q] /\ on'[q] = on[q]
    BY <1>1, <1>2 DEF FlightInv, ReaderTypes, Claim, Goes, ReaderPcs
  <2>2. ReaderTypes'
    BY <1>1, <1>2, <2>1 DEF FlightInv, ReaderTypes
  <2>3. \A q \in Readers, e \in Chunks : Downloads(q, e)' <=> Downloads(q, e)
    BY <1>1, <2>1 DEF Downloads, InDownload
  <2>4. SingleFlight'
    BY <2>1, <2>3 DEF FlightInv, SingleFlight
  <2>5. Downloads(d, c)
    BY <1>1, <1>2 DEF FlightInv, SingleFlight
  <2>6. Awaited'
    <3> SUFFICES ASSUME NEW q \in Readers, pc'[q] = "wait"
                 PROVE  Downloads(on[q], chunk[q])'
      BY DEF Awaited
    <3>1. CASE q = r
      BY <1>1, <1>2, <2>1, <2>3, <2>5, <3>1 DEF Downloads
    <3>2. CASE q # r
      <4>1. Downloads(on[q], chunk[q]) /\ on[q] \in Readers /\ chunk[q] \in Chunks
        BY <2>1, <3>2 DEF FlightInv, ReaderTypes, Awaited
      <4> QED
        BY <2>1, <2>3, <3>2, <4>1 DEF Downloads
    <3> QED
      BY <3>1, <3>2
  <2> QED
    BY <2>2, <2>4, <2>6 DEF FlightInv
<1>3. CASE d = None
  <2>1. /\ pc' \in [Readers -> ReaderPcs] /\ pc'[r] = "space"
        /\ downloading' \in [Chunks -> Readers \cup {None}] /\ downloading'[c] = r
        /\ \A e \in Chunks \ {c} : downloading'[e] = downloading[e]
        /\ UNCHANGED <<chunk, on>>
        /\ \A q \in Readers \ {r} : pc'[q] = pc[q]
    BY <1>1, <1>3 DEF FlightInv, ReaderTypes, Claim, Goes, ReaderPcs, InDownload
  <2>2. ReaderTypes'
    BY <1>1, <2>1 DEF FlightInv, ReaderTypes
  <2>3. \A q \in Readers, e \in Chunks :
          Downloads(q, e)' <=> Downloads(q, e) \/ (q = r /\ e = c)
    BY <1>1, <2>1 DEF Downloads, InDownload
  <2>4. \A q \in Readers : ~Downloads(q, c)
    BY <1>1, <1>3, ChunkAssumption DEF FlightInv, SingleFlight
  <2>5. \A e \in Chunks : ~Downloads(r, e)
    BY <1>1 DEF Downloads, InDownload
  <2>6. SingleFlight'
    BY <1>1, <2>1, <2>3, <2>4, <2>5 DEF FlightInv, SingleFlight
  <2>7. Awaited'
    <3> SUFFICES ASSUME NEW q \in Readers, pc'[q] = "wait"
                 PROVE  Downloads(on[q], chunk[q])'
      BY DEF Awaited
    <3>1. q # r /\ pc[q] = "wait"
      BY <2>1
    <3>2. Downloads(on[q], chunk[q]) /\ on[q] \in Readers /\ chunk[q] \in Chunks
      BY <3>1 DEF FlightInv, ReaderTypes, Awaited
    <3> QED
      BY <2>1, <2>3, <3>2 DEF Downloads
  <2> QED
    BY <2>2, <2>6, <2>7 DEF FlightInv
<1> QED
  BY <1>2, <1>3

LEMMA FinishFlight ==
  ASSUME FlightInv, NEW r \in Readers, Finish(r)
  PROVE  FlightInv'
<1> DEFINE c == chunk[r]
<1>1. pc[r] \in {"done", "failed"} /\ c \in Chunks /\ on[r] = None /\ Downloads(r, c)
  BY DEF FlightInv, ReaderTypes, Finish, Downloads, InDownload
<1>2. /\ downloading' \in [Chunks -> Readers \cup {None}] /\ downloading'[c] = None
      /\ \A e \in Chunks \ {c} : downloading'[e] = downloading[e]
  BY <1>1 DEF FlightInv, ReaderTypes, Finish
<1>3. /\ pc' \in [Readers -> ReaderPcs]
      /\ pc'[r] = IF pc[r] = "done" THEN "open" ELSE "idle"
      /\ \A q \in Readers \ {r} :
           pc'[q] = IF pc[q] = "wait" /\ on[q] = r THEN "woken" ELSE pc[q]
  BY DEF FlightInv, ReaderTypes, Finish, ReaderPcs
<1>4. /\ on' \in [Readers -> Readers \cup {None}]
      /\ \A q \in Readers : on'[q] = IF on[q] = r THEN None ELSE on[q]
  BY DEF FlightInv, ReaderTypes, Finish
<1>5. /\ chunk' \in [Readers -> Chunks \cup {None}]
      /\ chunk'[r] = IF pc[r] = "done" THEN c ELSE None
      /\ \A q \in Readers \ {r} : chunk'[q] = chunk[q]
  BY DEF FlightInv, ReaderTypes, Finish
<1>6. ReaderTypes'
  <2>1. (pc'[r] = "idle") <=> (chunk'[r] = None)
    BY <1>1, <1>3, <1>5, ChunkAssumption
  <2>2. (pc'[r] = "wait") <=> (on'[r] # None)
    BY <1>1, <1>3, <1>4
  <2>3. ASSUME NEW q \in Readers \ {r}
        PROVE  /\ (pc'[q] = "idle") <=> (chunk'[q] = None)
               /\ (pc'[q] = "wait") <=> (on'[q] # None)
    BY <1>3, <1>4, <1>5 DEF FlightInv, ReaderTypes
  <2> QED
    BY <1>2, <1>3, <1>4, <1>5, <2>1, <2>2, <2>3 DEF ReaderTypes
<1>7. \A q \in Readers, e \in Chunks : Downloads(q, e)' <=> Downloads(q, e) /\ q # r
  BY <1>1, <1>3, <1>5 DEF Downloads, InDownload
<1>8. SingleFlight'
  <2> SUFFICES ASSUME NEW q \in Readers, NEW e \in Chunks
               PROVE  (downloading'[e] = q) <=> Downloads(q, e)'
    BY DEF SingleFlight
  <2>1. (downloading[e] = q) <=> Downloads(q, e)
    BY DEF FlightInv, SingleFlight
  <2>2. \A x \in Chunks : Downloads(r, x) => x = c
    BY DEF Downloads
  <2>3. downloading[c] = r
    BY <1>1 DEF FlightInv, SingleFlight
  <2>4. CASE e = c
    BY <1>2, <1>7, <2>1, <2>3, <2>4, ChunkAssumption
  <2>5. CASE e # c
    BY <1>2, <1>7, <2>1, <2>2, <2>5
  <2> QED
    BY <2>4, <2>5
<1>9. Awaited'
  <2> SUFFICES ASSUME NEW q \in Readers, pc'[q] = "wait"
               PROVE  Downloads(on[q], chunk[q])'
    BY DEF Awaited
  <2>1. q # r /\ pc[q] = "wait" /\ on[q] # r
    BY <1>3
  <2>2. Downloads(on[q], chunk[q]) /\ on[q] \in Readers /\ chunk[q] \in Chunks
    BY <2>1 DEF FlightInv, ReaderTypes, Awaited
  <2> QED
    BY <1>4, <1>5, <1>7, <2>1, <2>2 DEF Downloads
<1> QED
  BY <1>6, <1>8, <1>9 DEF FlightInv

LEMMA RestartFlight == ASSUME FlightInv, Restart PROVE FlightInv'
  BY ChunkAssumption
  DEF Restart, FlightInv, ReaderTypes, SingleFlight, Awaited, Downloads, InDownload, ReaderPcs

LEMMA IdleFlight == ASSUME FlightInv, UNCHANGED readerVars PROVE FlightInv'
  BY DEF readerVars, FlightInv, ReaderTypes, SingleFlight, Awaited, Downloads

-----------------------------------------------------------------------------
LEMMA ReaderStepFlight ==
  ASSUME FlightInv, NEW r \in Readers, ReaderStep(r)
  PROVE  FlightInv'
<1>1. CASE Stat(r)
  BY <1>1, GoesOn DEF Stat, InDownload, ReaderPcs
<1>2. CASE Touch(r)
  BY <1>2, GoesOn DEF Touch, InDownload, ReaderPcs
<1>3. CASE Claim(r)
  BY <1>3, ClaimFlight
<1>4. CASE Woken(r)
  <2>1. CASE disk[ChunkPath(chunk[r])] # None
    BY <1>4, <2>1, GoesOn DEF Woken, InDownload, ReaderPcs
  <2>2. CASE disk[ChunkPath(chunk[r])] = None
    <3>1. on' = [on EXCEPT ![r] = None]
      BY <1>4 DEF Woken, FlightInv, ReaderTypes
    <3> QED
      BY <1>4, <2>2, <3>1, GoesIdle DEF Woken, InDownload
  <2> QED
    BY <2>1, <2>2
<1>5. CASE Space(r)
  BY <1>5, GoesOn DEF Space, InDownload, ReaderPcs
<1>6. CASE Get(r)
  BY <1>6, GoesOn DEF Get, InDownload, ReaderPcs
<1>7. CASE WriteTemp(r)
  BY <1>7, GoesOn DEF WriteTemp, InDownload, ReaderPcs
<1>8. CASE Rename(r)
  <2>1. CASE disk[TempPath(chunk[r])] = None
    BY <1>8, <2>1, GoesOn DEF Rename, InDownload, ReaderPcs
  <2>2. CASE disk[TempPath(chunk[r])] # None
    BY <1>8, <2>2, GoesOn DEF Rename, InDownload, ReaderPcs
  <2> QED
    BY <2>1, <2>2
<1>9. CASE DownloadFails(r)
  BY <1>9, GoesOn DEF DownloadFails, InDownload, ReaderPcs
<1>10. CASE Account(r)
  BY <1>10, GoesOn DEF Account, InDownload, ReaderPcs
<1>11. CASE Finish(r)
  BY <1>11, FinishFlight
<1>12. CASE Open(r)
  <2>1. on' = [on EXCEPT ![r] = None]
    BY <1>12 DEF Open, FlightInv, ReaderTypes
  <2> QED
    BY <1>12, <2>1, GoesIdle DEF Open, InDownload
<1> QED
  BY <1>1, <1>2, <1>3, <1>4, <1>5, <1>6, <1>7, <1>8, <1>9, <1>10, <1>11, <1>12 DEF ReaderStep

LEMMA NextFlight == FlightInv /\ [Next]_vars => FlightInv'
<1> SUFFICES ASSUME FlightInv, [Next]_vars PROVE FlightInv'
  OBVIOUS
<1>1. CASE \E r \in Readers, c \in Chunks : Read(r, c)
  BY <1>1, ReadFlight
<1>2. ASSUME NEW r \in Readers, ReaderStep(r) PROVE FlightInv'
  BY <1>2, ReaderStepFlight
<1>3. ASSUME NEW r \in Readers, Cancel(r) PROVE FlightInv'
  BY <1>3, GoesIdle DEF Cancel, InDownload
<1>4. ASSUME NEW f \in Files, Flush(f) \/ Upload(f) \/ Sweep(f) \/ Discard(f)
      PROVE  FlightInv'
  BY <1>4, IdleFlight DEF Flush, Upload, Sweep, Discard
<1>5. ASSUME NEW n \in 1 .. Len(lru), Evict(n) PROVE FlightInv'
  BY <1>5, IdleFlight DEF Evict
<1>6. CASE Restart
  BY <1>6, RestartFlight
<1>7. CASE UNCHANGED vars
  BY <1>7, IdleFlight DEF vars, readerVars
<1> QED
  BY <1>1, <1>2, <1>3, <1>4, <1>5, <1>6, <1>7 DEF Next

\* In every behaviour, whatever is invalidated, evicted, cancelled or
\* restarted meanwhile, two readers never download one chunk at a time and the
\* map of downloads names exactly the readers that download (ensureChunk).
THEOREM OneDownload == Spec => []SingleFlight
<1>1. FlightInv => SingleFlight
  BY DEF FlightInv
<1> QED
  BY InitFlight, NextFlight, <1>1, PTL DEF Spec

\* In every behaviour a reader that waits for a chunk waits on a download of
\* it that has not ended: no wake-up is lost (ensureChunk).
THEOREM NobodyWaitsInVain == Spec => []Awaited
<1>1. FlightInv => Awaited
  BY DEF FlightInv
<1> QED
  BY InitFlight, NextFlight, <1>1, PTL DEF Spec

-----------------------------------------------------------------------------
(* The LRU list: what is picked, touched, added and kept.                  *)

LEMMA UpTo == ASSUME NEW n \in Nat PROVE IsFiniteSet(1 .. n) /\ Cardinality(1 .. n) = n
BY FS_Interval

\* The entries picked are those at the given positions, one for each.
LEMMA PickedEffect ==
  ASSUME NEW S, NEW s \in Seq(S), NEW I \in SUBSET DOMAIN s
  PROVE  /\ Cardinality(I) \in Nat /\ Cardinality(I) <= Len(s)
         /\ Picked(s, I) \in Seq(S) /\ Len(Picked(s, I)) = Cardinality(I)
         /\ \A n \in I : \E m \in DOMAIN Picked(s, I) : Picked(s, I)[m] = s[n]
         /\ \A m \in DOMAIN Picked(s, I) : \E n \in I : Picked(s, I)[m] = s[n]
<1> DEFINE Upto(n) == {j \in I : j <= n}
           rank == [n \in I |-> Cardinality(Upto(n))]
           K == Cardinality(I)
           J == 1 .. K
<1>1. DOMAIN s = 1 .. Len(s) /\ Len(s) \in Nat /\ \A n \in DOMAIN s : s[n] \in S
  BY LenProperties
<1>2. IsFiniteSet(I) /\ K \in Nat /\ K <= Len(s)
  <2>1. IsFiniteSet(1 .. Len(s)) /\ Cardinality(1 .. Len(s)) = Len(s)
    BY <1>1, UpTo
  <2>2. I \in SUBSET (1 .. Len(s))
    BY <1>1
  <2>3. IsFiniteSet(I) /\ Cardinality(I) <= Len(s)
    BY <2>1, <2>2, FS_Subset
  <2> QED BY <2>3, FS_CardinalityType
<1>3. IsFiniteSet(J) /\ Cardinality(J) = K
  BY <1>2, UpTo
<1>4. \A n \in I : IsFiniteSet(Upto(n)) /\ rank[n] \in J
  <2> TAKE n \in I
  <2>1. IsFiniteSet(Upto(n)) /\ Cardinality(Upto(n)) <= K /\ Cardinality(Upto(n)) \in Nat
    BY <1>2, FS_Subset, FS_CardinalityType
  <2>2. n \in Upto(n)
    BY <1>1
  <2>3. Cardinality(Upto(n)) # 0
    BY <2>1, <2>2, FS_EmptySet
  <2> QED BY <1>2, <2>1, <2>3
<1> HIDE DEF K
<1>5. \A m, n \in I : m < n => rank[m] < rank[n]
  <2> SUFFICES ASSUME NEW m \in I, NEW n \in I, m < n PROVE rank[m] < rank[n]
    OBVIOUS
  <2>1. Upto(m) \subseteq Upto(n) /\ n \in Upto(n) /\ n \notin Upto(m)
    BY <1>1
  <2>2. Cardinality(Upto(m)) <= Cardinality(Upto(n)) /\ Cardinality(Upto(m)) # Cardinality(Upto(n))
    BY <1>4, <2>1, FS_Subset
  <2>3. rank[m] = Cardinality(Upto(m)) /\ rank[n] = Cardinality(Upto(n))
    OBVIOUS
  <2> HIDE DEF rank
  <2>4. rank[m] \in J /\ rank[n] \in J
    BY <1>4
  <2> QED BY <1>2, <2>2, <2>3, <2>4
<1> HIDE DEF rank, Upto
<1>6. rank \in Injection(I, J)
  <2>1. rank \in [I -> J]
    BY <1>4 DEF rank
  <2>2. \A m, n \in I : rank[m] = rank[n] => m = n
    BY <1>1, <1>2, <1>4, <1>5
  <2> QED BY <2>1, <2>2 DEF Injection, IsInjective
<1>7. rank \in Surjection(I, J)
  BY <1>2, <1>3, <1>6, FS_Injection DEF K
<1>8. \A m \in J : \E n \in I : rank[n] = m
  BY <1>7 DEF Surjection
<1> DEFINE at(m) == CHOOSE n \in I : Cardinality({j \in I : j <= n}) = m
<1>9. \A n \in I : rank[n] = Cardinality({j \in I : j <= n})
  BY DEF rank, Upto
<1>10. \A m \in J : at(m) \in I /\ rank[at(m)] = m
  BY <1>8, <1>9
<1>11. \A n \in I : at(rank[n]) = n
  <2> TAKE n \in I
  <2>1. at(rank[n]) \in I /\ rank[at(rank[n])] = rank[n]
    BY <1>4, <1>10
  <2> QED BY <2>1, <1>6 DEF Injection, IsInjective
<1>12. Picked(s, I) = [m \in J |-> s[at(m)]]
  BY DEF Picked, K
<1> HIDE DEF at, J
<1>13. \A m \in J : s[at(m)] \in S
  BY <1>1, <1>10
<1>14. Picked(s, I) \in Seq(S) /\ Len(Picked(s, I)) = K /\ DOMAIN Picked(s, I) = J
  <2>1. [m \in J |-> s[at(m)]] \in [J -> S]
    BY <1>13
  <2>2. Picked(s, I) \in [1 .. K -> S]
    BY <1>12, <2>1 DEF J
  <2> QED BY <1>2, <2>2, SeqDef, LenProperties DEF J
<1> QED BY <1>2, <1>4, <1>10, <1>11, <1>12, <1>14 DEF K, J

\* The entries with a key in K, and no others.
LEMMA KeyedEffect ==
  ASSUME NEW s \in Seq(LruEntry), NEW K
  PROVE  /\ Keyed(s, K) \in Seq(LruEntry)
         /\ Len(Keyed(s, K)) = Cardinality({n \in DOMAIN s : s[n].key \in K})
         /\ Range(Keyed(s, K)) = {e \in Range(s) : e.key \in K}
<1>1. PICK I \in SUBSET DOMAIN s : I = {n \in DOMAIN s : s[n].key \in K}
  OBVIOUS
<1>2. PICK t : t = Picked(s, I)
  OBVIOUS
<1>3. /\ t \in Seq(LruEntry) /\ Len(t) = Cardinality(I)
      /\ \A n \in I : \E m \in DOMAIN t : t[m] = s[n]
      /\ \A m \in DOMAIN t : \E n \in I : t[m] = s[n]
  BY <1>2, PickedEffect
<1>4. Keyed(s, K) = t
  BY <1>1, <1>2 DEF Keyed
<1>5. Range(t) = {e \in Range(s) : e.key \in K}
  BY <1>1, <1>3 DEF Range
<1> QED BY <1>1, <1>3, <1>4, <1>5

\* A touch moves entries, and neither adds nor loses one.
LEMMA TouchEffect ==
  ASSUME NEW s \in Seq(LruEntry), NEW k \in Keys
  PROVE  /\ TouchLru(s, k) \in Seq(LruEntry)
         /\ Len(TouchLru(s, k)) = Len(s) /\ Range(TouchLru(s, k)) = Range(s)
<1>1. CASE ~Tracked(s, k)
  BY <1>1 DEF TouchLru
<1>2. CASE Tracked(s, k)
  <2>a. PICK a : a = Keyed(s, {k})
    OBVIOUS
  <2>b. PICK b : b = Keyed(s, Keys \ {k})
    OBVIOUS
  <2>d. PICK D : D = DOMAIN s
    OBVIOUS
  <2>i. PICK I \in SUBSET D : I = {n \in DOMAIN s : s[n].key \in {k}}
    BY <2>d
  <2>1. /\ a \in Seq(LruEntry) /\ Len(a) = Cardinality(I)
        /\ Range(a) = {e \in Range(s) : e.key \in {k}}
    BY <2>a, <2>i, KeyedEffect
  <2>2. D = 1 .. Len(s) /\ Len(s) \in Nat /\ \A n \in D : s[n].key \in Keys
    <3>1. DOMAIN s = 1 .. Len(s) /\ Len(s) \in Nat /\ \A n \in DOMAIN s : s[n] \in LruEntry
      BY LenProperties
    <3>2. \A e \in LruEntry : e.key \in Keys
      BY DEF LruEntry
    <3> QED BY <2>d, <3>1, <3>2
  <2>3. /\ b \in Seq(LruEntry) /\ Len(b) = Cardinality(D \ I)
        /\ Range(b) = {e \in Range(s) : e.key \in Keys \ {k}}
    <3>1. D \ I = {n \in DOMAIN s : s[n].key \in Keys \ {k}}
      BY <2>2, <2>d, <2>i
    <3> QED BY <2>b, <3>1, KeyedEffect
  <2>4. IsFiniteSet(D) /\ Cardinality(D) = Len(s) /\ D \cap I = I
    BY <2>2, UpTo
  <2>5. Cardinality(D \ I) = Len(s) - Cardinality(I)
    BY <2>4, FS_Difference
  <2>6. TouchLru(s, k) = a \o b
    BY <1>2, <2>a, <2>b DEF TouchLru
  <2>7. /\ a \o b \in Seq(LruEntry) /\ Len(a \o b) = Len(a) + Len(b)
        /\ \A i \in 1 .. Len(a) + Len(b) : (a \o b)[i] = IF i <= Len(a) THEN a[i] ELSE b[i - Len(a)]
    BY <2>1, <2>3, ConcatProperties
  <2>8. Len(a) \in Nat /\ Len(b) \in Nat /\ DOMAIN a = 1 .. Len(a) /\ DOMAIN b = 1 .. Len(b)
        /\ DOMAIN (a \o b) = 1 .. Len(a \o b)
    BY <2>1, <2>3, <2>7, LenProperties
  <2>9. Range(a \o b) = Range(a) \cup Range(b)
    <3> DEFINE c == a \o b
    <3>1. \A i \in DOMAIN a : i \in DOMAIN c /\ c[i] = a[i]
      BY <2>7, <2>8
    <3>2. \A i \in DOMAIN b : i + Len(a) \in DOMAIN c /\ c[i + Len(a)] = b[i]
      <4> TAKE i \in DOMAIN b
      <4> DEFINE j == i + Len(a)
      <4>1. j \in 1 .. Len(a) + Len(b) /\ ~(j <= Len(a)) /\ j - Len(a) = i
        BY <2>8
      <4> HIDE DEF j
      <4>2. c[j] = b[j - Len(a)] /\ j \in DOMAIN c
        BY <2>7, <2>8, <4>1
      <4> QED BY <4>1, <4>2 DEF j
    <3>3. \A i \in DOMAIN c : \/ i \in DOMAIN a /\ c[i] = a[i]
                              \/ i - Len(a) \in DOMAIN b /\ c[i] = b[i - Len(a)]
      BY <2>7, <2>8
    <3> HIDE DEF c
    <3>4. Range(c) = Range(a) \cup Range(b)
      BY <3>1, <3>2, <3>3 DEF Range
    <3> QED BY <3>4 DEF c
  <2>10. Range(a) \cup Range(b) = Range(s)
    BY <2>1, <2>2, <2>3, <2>d DEF Range
  <2> QED BY <2>1, <2>2, <2>3, <2>4, <2>5, <2>6, <2>7, <2>8, <2>9, <2>10, FS_CardinalityType, FS_Subset
<1> QED BY <1>1, <1>2

\* After add there is an entry with the key, and at most one entry more.
LEMMA AddEffect ==
  ASSUME NEW s \in Seq(LruEntry), NEW k \in Keys, NEW x \in CachePaths
  PROVE  /\ AddLru(s, k, x) \in Seq(LruEntry)
         /\ Len(AddLru(s, k, x)) <= Len(s) + 1
         /\ Range(s) \subseteq Range(AddLru(s, k, x))
         /\ Range(AddLru(s, k, x)) \subseteq Range(s) \cup {[key |-> k, path |-> x]}
         /\ \E e \in Range(AddLru(s, k, x)) : e.key = k
<1>0. Len(s) \in Nat /\ DOMAIN s = 1 .. Len(s)
  BY LenProperties
<1>1. CASE Tracked(s, k)
  <2>1. \E e \in Range(s) : e.key = k
    BY <1>1 DEF Tracked, Range
  <2> QED BY <1>0, <1>1, <2>1, TouchEffect DEF AddLru
<1>2. CASE ~Tracked(s, k)
  <2> DEFINE e == [key |-> k, path |-> x]
             t == <<e>> \o s
  <2>1. e \in LruEntry /\ e.key = k
    BY DEF LruEntry
  <2>2. AddLru(s, k, x) = t
    BY <1>2 DEF AddLru
  <2> HIDE DEF e
  <2>3. <<e>> \in Seq(LruEntry) /\ Len(<<e>>) = 1 /\ <<e>>[1] = e
    BY <2>1
  <2>4. /\ t \in Seq(LruEntry) /\ Len(t) = 1 + Len(s)
        /\ \A i \in 1 .. 1 + Len(s) : t[i] = IF i <= 1 THEN <<e>>[i] ELSE s[i - 1]
    BY <2>3, ConcatProperties
  <2> HIDE DEF t
  <2>5. DOMAIN t = 1 .. Len(t)
    BY <2>4, LenProperties
  <2>6. /\ 1 \in DOMAIN t /\ t[1] = e
        /\ \A i \in DOMAIN s : i + 1 \in DOMAIN t /\ t[i + 1] = s[i]
        /\ \A i \in DOMAIN t : i = 1 \/ (i - 1 \in DOMAIN s /\ t[i] = s[i - 1])
    BY <1>0, <2>3, <2>4, <2>5
  <2>7. e \in Range(t) /\ Range(s) \subseteq Range(t) /\ Range(t) \subseteq Range(s) \cup {e}
    BY <2>6 DEF Range
  <2> QED BY <1>0, <2>1, <2>2, <2>4, <2>7 DEF e
<1> QED BY <1>1, <1>2

\* An entry is kept or its path is evicted, and no more paths than entries.
LEMMA KeptEffect ==
  ASSUME NEW s \in Seq(LruEntry), NEW n \in 0 .. Len(s)
  PROVE  /\ Kept(s, n) \in Seq(LruEntry) /\ Len(Kept(s, n)) = Len(s) - n
         /\ Range(Kept(s, n)) \subseteq Range(s)
         /\ \A e \in Range(s) : e \in Range(Kept(s, n)) \/ e.path \in Evicted(s, n)
         /\ IsFiniteSet(Evicted(s, n)) /\ Cardinality(Evicted(s, n)) <= n
<1> DEFINE L == Len(s)
           t == SubSeq(s, 1, L - n)
           J == (L - n + 1) .. L
           f == [m \in J |-> s[m].path]
<1>1. L \in Nat /\ n \in Nat /\ n <= L /\ DOMAIN s = 1 .. L /\ \A m \in 1 .. L : s[m] \in LruEntry
  BY LenProperties
<1>2. Kept(s, n) = t
  BY DEF Kept
<1>3. t \in Seq(LruEntry) /\ Len(t) = L - n /\ \A m \in 1 .. L - n : t[m] = s[m]
  <2>1. \A m \in 1 .. L - n : s[m] \in LruEntry
    BY <1>1
  <2> HIDE DEF L
  <2>2. /\ t \in Seq(LruEntry)
        /\ Len(t) = IF 1 <= L - n THEN L - n - 1 + 1 ELSE 0
        /\ \A m \in 1 .. L - n - 1 + 1 : t[m] = s[1 + m - 1]
    BY <1>1, <2>1, SubSeqProperties
  <2> QED BY <1>1, <2>2
<1>4. DOMAIN t = 1 .. L - n
  BY <1>3, LenProperties
<1> HIDE DEF t, L
<1>5. Range(t) \subseteq Range(s)
  BY <1>1, <1>3, <1>4 DEF Range
<1>6. \A e \in Range(s) : e \in Range(t) \/ e.path \in Evicted(s, n)
  <2> SUFFICES ASSUME NEW m \in 1 .. L PROVE s[m] \in Range(t) \/ s[m].path \in Evicted(s, n)
    BY <1>1 DEF Range
  <2>1. CASE m \in 1 .. L - n
    BY <1>3, <1>4, <2>1 DEF Range
  <2>2. CASE m \in J
    BY <2>2 DEF Evicted, L
  <2> QED BY <1>1, <2>1, <2>2
<1>7. f \in Surjection(J, Evicted(s, n))
  BY DEF Surjection, Evicted, L
<1>8. IsFiniteSet(J) /\ Cardinality(J) = n
  BY <1>1, FS_Interval
<1>9. IsFiniteSet(Evicted(s, n)) /\ Cardinality(Evicted(s, n)) <= n
  <2> HIDE DEF f, J
  <2> QED BY <1>7, <1>8, FS_Surjection
<1> QED BY <1>2, <1>3, <1>5, <1>6, <1>9 DEF L

-----------------------------------------------------------------------------
(* The cache: what it holds and what the LRU list knows of it.             *)

CacheTypes ==
  /\ obj \in [Files -> Versions] /\ stage \in [Files -> {"remote", "dirty", "clean"}]
  /\ disk \in [CachePaths -> Versions \cup {None}] /\ IsFiniteSet(Present)
  /\ refused \subseteq ChunkFiles
  /\ lru \in Seq(LruEntry) /\ size \in Int
  /\ got \in [Readers -> Versions \cup {None}]
  /\ \A r \in Readers : (pc[r] = "temp") <=> (got[r] # None)

\* An entry is filed under the chunk of its path, or under the path itself.
Filed(e) == e.path = IF e.key.kind = "key" THEN ChunkPath(e.key.of) ELSE e.key

\* The inductive invariant.
CacheInv ==
  /\ CacheTypes
  /\ \A e \in Range(lru) : Filed(e)
  /\ Evictable

LEMMA InitCache == Init => CacheInv
<1> SUFFICES ASSUME Init PROVE CacheInv
  OBVIOUS
<1>1. Present = {} /\ ChunkFiles = {} /\ refused = {} /\ Removable = {}
  BY DEF Init, Present, ChunkFiles, Removable, CachePaths, ChunkPath
<1>2. lru \in Seq(LruEntry) /\ Range(lru) = {}
  BY DEF Init, Range
<1>3. IsFiniteSet(Present)
  BY <1>1, FS_EmptySet
<1>4. CacheTypes
  BY <1>1, <1>2, <1>3, ChunkAssumption DEF Init, CacheTypes, Versions
<1> QED BY <1>1, <1>2, <1>4 DEF CacheInv, Evictable

LEMMA Paths ==
  \A c \in Chunks : /\ ChunkPath(c) \in CachePaths /\ TempPath(c) \in CachePaths
                    /\ ChunkKey(c) \in Keys /\ ChunkPath(c).of = c
                    /\ Filed([key |-> ChunkKey(c), path |-> ChunkPath(c)])
                    /\ \A d \in Chunks : /\ ChunkPath(c) # TempPath(d)
                                         /\ ChunkPath(c) = ChunkPath(d) => c = d
BY DEF ChunkPath, TempPath, ChunkKey, CachePaths, Keys, Filed

\* A file stays evictable if its entry stays or nothing is left to evict, and
\* if a reader that is about to add an entry does so.
LEMMA StaysEvictable ==
  ASSUME Evictable,
         \A c \in Removable' : \/ c \in Removable
                               \/ \E r \in Readers : pc'[r] = "account" /\ chunk'[r] = c,
         \A e \in Range(lru) : e \in Range(lru') \/ \A c \in Removable' : e.path # ChunkPath(c),
         \A r \in Readers : pc[r] = "account" =>
           \/ pc'[r] = "account" /\ chunk'[r] = chunk[r]
           \/ \E e \in Range(lru') : e.path = ChunkPath(chunk[r])
  PROVE  Evictable'
<1>1. ASSUME NEW c \in Removable'
      PROVE  \/ \E n \in DOMAIN lru' : lru'[n].path = ChunkPath(c)
             \/ \E r \in Readers : pc'[r] = "account" /\ chunk'[r] = c
  <2>1. CASE c \notin Removable
    BY <1>1, <2>1
  <2>2. CASE \E n \in DOMAIN lru : lru[n].path = ChunkPath(c)
    <3>1. PICK e \in Range(lru) : e.path = ChunkPath(c)
      BY <2>2 DEF Range
    <3>2. e \in Range(lru')
      BY <1>1, <3>1
    <3> QED BY <3>1, <3>2 DEF Range
  <2>3. CASE \E r \in Readers : pc[r] = "account" /\ chunk[r] = c
    BY <2>3 DEF Range
  <2> QED BY <2>1, <2>2, <2>3 DEF Evictable
<1>2. \A c : ChunkPath(c)' = ChunkPath(c)
  BY DEF ChunkPath
<1> QED BY <1>1, <1>2, Zenon DEF Evictable

\* Nothing of the cache changes, and nobody gets or loses a body or a file to
\* account for.
LEMMA CacheLasts ==
  ASSUME CacheInv, UNCHANGED <<cacheVars, got>>,
         obj' \in [Files -> Versions], stage' \in [Files -> {"remote", "dirty", "clean"}],
         \A r \in Readers : /\ (pc'[r] = "temp") <=> (pc[r] = "temp")
                            /\ pc[r] = "account" => pc'[r] = "account" /\ chunk'[r] = chunk[r]
  PROVE  CacheInv'
<1>1. ChunkFiles' = ChunkFiles /\ Present' = Present /\ Removable' = Removable
  BY DEF cacheVars, ChunkFiles, Removable, Present, ChunkPath
<1>2. Evictable'
  BY <1>1, StaysEvictable DEF cacheVars, CacheInv
<1>3. CacheTypes'
  BY <1>1 DEF CacheTypes, CacheInv, cacheVars
<1> QED BY <1>2, <1>3 DEF CacheInv, cacheVars, Filed, ChunkPath

\* What a reader that is on its way knows.
LEMMA OnItsWay ==
  ASSUME FlightInv, NEW r \in Readers, pc[r] # "idle"
  PROVE  chunk[r] \in Chunks /\ chunk[r][1] \in Files
BY DEF FlightInv, ReaderTypes, Chunks

\* A reader goes on.
LEMMA Going ==
  ASSUME FlightInv, NEW r \in Readers, NEW to, Goes(r, to)
  PROVE  pc'[r] = to /\ \A q \in Readers \ {r} : pc'[q] = pc[q]
BY DEF FlightInv, ReaderTypes, Goes

\* Steps that look and wait.
LEMMA LookCache ==
  ASSUME FlightInv, CacheInv, NEW r \in Readers,
         \/ \E c \in Chunks : Read(r, c)
         \/ Stat(r) \/ Claim(r) \/ Cancel(r) \/ Woken(r) \/ Open(r)
  PROVE  CacheInv'
<1>1. PICK to \in {"idle", "stat", "touch", "claim", "wait", "space", "open"} : Goes(r, to)
  BY DEF Read, Stat, Claim, Cancel, Woken, Open
<1>2. pc[r] \notin {"temp", "account"} /\ \A q \in Readers \ {r} : chunk'[q] = chunk[q]
  BY DEF Read, Stat, Claim, Cancel, Woken, Open, FlightInv, ReaderTypes
<1>3. \A q \in Readers : /\ (pc'[q] = "temp") <=> (pc[q] = "temp")
                         /\ pc[q] = "account" => pc'[q] = "account" /\ chunk'[q] = chunk[q]
  BY <1>1, <1>2, Going
<1>4. UNCHANGED <<obj, stage, cacheVars, got>>
  BY DEF Read, Stat, Claim, Cancel, Woken, Open
<1> QED BY <1>3, <1>4, CacheLasts DEF CacheInv, CacheTypes

LEMMA FinishCache == ASSUME FlightInv, CacheInv, NEW r \in Readers, Finish(r) PROVE CacheInv'
<1>1. \A q \in Readers : /\ (pc'[q] = "temp") <=> (pc[q] = "temp")
                         /\ pc[q] = "account" => pc'[q] = "account" /\ chunk'[q] = chunk[q]
  BY DEF Finish, FlightInv, ReaderTypes
<1> QED BY <1>1, CacheLasts DEF Finish, CacheInv, CacheTypes

\* Uploads and sweeps are not the cache's.
LEMMA BucketCache ==
  ASSUME CacheInv, NEW f \in Files, Upload(f) \/ Sweep(f)
  PROVE  CacheInv'
<1>1. obj' \in [Files -> Versions] /\ stage' \in [Files -> {"remote", "dirty", "clean"}]
  <2>1. obj[f] < MaxVersion => obj[f] + 1 \in Versions
    BY ChunkAssumption DEF CacheInv, CacheTypes, Versions
  <2> QED BY <2>1 DEF Upload, Sweep, CacheInv, CacheTypes
<1> QED BY <1>1, CacheLasts DEF Upload, Sweep, readerVars

LEMMA TouchCache == ASSUME FlightInv, CacheInv, NEW r \in Readers, Touch(r) PROVE CacheInv'
<1>1. lru' \in Seq(LruEntry) /\ Range(lru') = Range(lru)
  BY OnItsWay, Paths, TouchEffect DEF Touch, CacheInv, CacheTypes
<1>2. Present' = Present /\ ChunkFiles' = ChunkFiles /\ Removable' = Removable
  BY DEF Touch, Present, ChunkFiles, Removable, ChunkPath
<1>3. \A q \in Readers : /\ (pc'[q] = "temp") <=> (pc[q] = "temp")
                         /\ pc[q] = "account" => pc'[q] = "account" /\ chunk'[q] = chunk[q]
  BY Going DEF Touch
<1>4. Evictable'
  BY <1>1, <1>2, <1>3, StaysEvictable DEF CacheInv
<1>5. CacheTypes'
  BY <1>1, <1>2, <1>3 DEF Touch, CacheInv, CacheTypes
<1> QED BY <1>1, <1>4, <1>5 DEF CacheInv, Filed, ChunkPath

\* What a removal leaves: the files it was refused, and those it did not ask
\* for.
LEMMA RemoveEffect ==
  ASSUME CacheTypes, NEW paths, NEW stay \in Refusals(paths), Remove(paths, stay)
  PROVE  /\ disk' \in [CachePaths -> Versions \cup {None}] /\ IsFiniteSet(Present')
         /\ refused' \subseteq ChunkFiles'
         /\ Removable' \subseteq Removable
         /\ \A c \in Removable' : ChunkPath(c) \notin paths
<1>0. stay \subseteq paths \cap Present
  BY DEF Refusals
<1>1. disk' \in [CachePaths -> Versions \cup {None}]
  BY DEF Remove, Removed, CacheTypes
<1>2. \A x \in CachePaths : disk'[x] = IF x \in paths \ stay THEN None ELSE disk[x]
  BY DEF Remove, Removed
<1>3. Present' \subseteq Present
  BY <1>2 DEF Present
<1>4. \A c \in Chunks : disk'[ChunkPath(c)] = IF ChunkPath(c) \in paths \ stay
                                              THEN None ELSE disk[ChunkPath(c)]
  BY <1>2, Paths
<1>5. \A c \in Chunks : c \in ChunkFiles' <=> c \in ChunkFiles /\ ChunkPath(c) \notin paths \ stay
  BY <1>4 DEF ChunkFiles, ChunkPath
<1>6. \A c : c \in refused' <=>
        ((c \in Chunks /\ ChunkPath(c) \in stay) \/ (c \in refused /\ ChunkPath(c) \notin paths))
  BY DEF Remove
<1>7. \A c \in Chunks : ChunkPath(c) \in stay => c \in ChunkFiles
  BY <1>0 DEF Present, ChunkFiles
<1>8. ChunkFiles' \subseteq Chunks /\ ChunkFiles \subseteq Chunks /\ refused \subseteq ChunkFiles
  BY DEF ChunkFiles, CacheTypes
<1>9. refused' \subseteq ChunkFiles'
  BY <1>5, <1>6, <1>7, <1>8
<1>10. \A c \in Removable' : c \in Chunks /\ c \in ChunkFiles' /\ c \notin refused'
  BY <1>8 DEF Removable
<1>11. \A c \in Removable' : ChunkPath(c) \notin paths
  BY <1>5, <1>6, <1>10
<1>12. Removable' \subseteq Removable
  BY <1>5, <1>6, <1>10, <1>11 DEF Removable
<1> QED BY <1>1, <1>3, <1>9, <1>11, <1>12, FS_Subset DEF CacheTypes

\* Evictions of the n oldest.
LEMMA EvictEffect ==
  ASSUME FlightInv, CacheInv, NEW n \in 0 .. Len(lru), NEW stay \in Refusals(Evicted(lru, n)),
         Remove(Evicted(lru, n), stay), lru' = Kept(lru, n), size' \in Int,
         UNCHANGED <<obj, stage, got>>,
         \A r \in Readers : /\ (pc'[r] = "temp") <=> (pc[r] = "temp")
                            /\ pc[r] = "account" => pc'[r] = "account" /\ chunk'[r] = chunk[r]
  PROVE  CacheInv'
<1>1. /\ lru' \in Seq(LruEntry) /\ Range(lru') \subseteq Range(lru)
      /\ \A e \in Range(lru) : e \in Range(lru') \/ e.path \in Evicted(lru, n)
  BY KeptEffect DEF CacheInv, CacheTypes
<1>2. /\ disk' \in [CachePaths -> Versions \cup {None}] /\ IsFiniteSet(Present')
      /\ refused' \subseteq ChunkFiles' /\ Removable' \subseteq Removable
      /\ \A c \in Removable' : ChunkPath(c) \notin Evicted(lru, n)
  BY RemoveEffect DEF CacheInv
<1>3. Evictable'
  BY <1>1, <1>2, StaysEvictable DEF CacheInv
<1>4. CacheTypes'
  BY <1>1, <1>2 DEF CacheInv, CacheTypes
<1> QED BY <1>1, <1>3, <1>4 DEF CacheInv, Filed, ChunkPath

LEMMA ExcessType ==
  ASSUME CacheTypes
  PROVE  /\ Excess \in 0 .. Len(lru)
         /\ \/ Excess = Len(lru)
            \/ size - Excess + 1 <= MaxChunks
<1>1. Len(lru) \in Nat /\ size \in Int /\ MaxChunks \in Nat
  BY ChunkAssumption, LenProperties DEF CacheTypes
<1> QED BY <1>1 DEF Excess

LEMMA SpaceCache == ASSUME FlightInv, CacheInv, NEW r \in Readers, Space(r) PROVE CacheInv'
<1>1. Excess \in 0 .. Len(lru) /\ size \in Int /\ Len(lru) \in Nat
  BY ExcessType, LenProperties DEF CacheInv, CacheTypes
<1>2. \A q \in Readers : /\ (pc'[q] = "temp") <=> (pc[q] = "temp")
                         /\ pc[q] = "account" => pc'[q] = "account" /\ chunk'[q] = chunk[q]
  BY Going DEF Space
<1>3. size' \in Int
  BY <1>1 DEF Space
<1>4. PICK stay \in Refusals(Evicted(lru, Excess)) : Remove(Evicted(lru, Excess), stay)
  BY DEF Space
<1>5. lru' = Kept(lru, Excess) /\ UNCHANGED <<obj, stage, got>>
  BY DEF Space
<1> QED BY <1>1, <1>2, <1>3, <1>4, <1>5, EvictEffect

LEMMA EvictCache ==
  ASSUME FlightInv, CacheInv, NEW n \in 1 .. Len(lru), Evict(n)
  PROVE  /\ CacheInv' /\ Removable' \subseteq Removable
         /\ \E k \in 0 .. n : size' = size - k
<1>1. Len(lru) \in Nat /\ n \in 0 .. Len(lru)
  BY LenProperties DEF CacheInv, CacheTypes
<1>2. IsFiniteSet(Evicted(lru, n)) /\ Cardinality(Evicted(lru, n)) <= n
  BY <1>1, KeptEffect DEF CacheInv, CacheTypes
<1>3. PICK stay \in Refusals(Evicted(lru, n)) :
        /\ Remove(Evicted(lru, n), stay)
        /\ size' = size - Cardinality((Evicted(lru, n) \cap Present) \ stay)
  BY DEF Evict
<1>4. PICK X : X = (Evicted(lru, n) \cap Present) \ stay
  OBVIOUS
<1>5. Cardinality(X) \in Nat /\ Cardinality(X) <= n
  <2>1. IsFiniteSet(X) /\ Cardinality(X) <= Cardinality(Evicted(lru, n))
    BY <1>2, <1>4, FS_Subset
  <2>2. Cardinality(X) \in Nat /\ Cardinality(Evicted(lru, n)) \in Nat
    BY <1>2, <2>1, FS_CardinalityType
  <2> QED BY <1>1, <1>2, <2>1, <2>2
<1>6. size' = size - Cardinality(X) /\ size' \in Int
  BY <1>3, <1>4, <1>5 DEF CacheInv, CacheTypes
<1>7. lru' = Kept(lru, n) /\ UNCHANGED <<obj, stage, readerVars>>
  BY DEF Evict
<1>8. CacheInv'
  BY <1>1, <1>3, <1>6, <1>7, EvictEffect DEF readerVars
<1>9. Removable' \subseteq Removable
  BY <1>3, RemoveEffect DEF CacheInv
<1> QED BY <1>1, <1>5, <1>6, <1>8, <1>9

LEMMA GetCache == ASSUME FlightInv, CacheInv, NEW r \in Readers, Get(r) PROVE CacheInv'
<1>1. obj[chunk[r][1]] \in Versions
  BY OnItsWay DEF Get, CacheInv, CacheTypes
<1>2. Present' = Present /\ ChunkFiles' = ChunkFiles /\ Removable' = Removable
  BY DEF Get, cacheVars, Present, ChunkFiles, Removable, ChunkPath
<1>3. Evictable'
  BY <1>2, Going, StaysEvictable DEF Get, CacheInv, cacheVars
<1>4. CacheTypes'
  BY <1>1, <1>2, Going, ChunkAssumption DEF Get, CacheInv, CacheTypes, cacheVars
<1> QED BY <1>3, <1>4 DEF Get, CacheInv, cacheVars, Filed, ChunkPath

\* A temporary file more; the list of entries and the chunk files stay.
LEMMA TempEffect ==
  ASSUME FlightInv, CacheInv, NEW r \in Readers, pc[r] = "temp",
         disk' = [disk EXCEPT ![TempPath(chunk[r])] = got[r]]
  PROVE  /\ disk' \in [CachePaths -> Versions \cup {None}] /\ IsFiniteSet(Present')
         /\ ChunkFiles' = ChunkFiles
<1>1. TempPath(chunk[r]) \in CachePaths /\ got[r] \in Versions
  BY OnItsWay, Paths DEF CacheInv, CacheTypes
<1>2. disk' \in [CachePaths -> Versions \cup {None}]
  BY <1>1 DEF CacheInv, CacheTypes
<1>3. Present' \subseteq Present \cup {TempPath(chunk[r])}
  BY <1>1 DEF Present, CacheInv, CacheTypes
<1>4. IsFiniteSet(Present')
  BY <1>3, FS_AddElement, FS_Subset DEF CacheInv, CacheTypes
<1>5. \A c \in Chunks : disk'[ChunkPath(c)] = disk[ChunkPath(c)]
  BY OnItsWay, Paths DEF CacheInv, CacheTypes
<1> QED BY <1>2, <1>4, <1>5 DEF ChunkFiles, ChunkPath

LEMMA WriteCache ==
  ASSUME FlightInv, CacheInv, NEW r \in Readers, WriteTemp(r) \/ DownloadFails(r)
  PROVE  CacheInv'
<1>1. /\ disk' \in [CachePaths -> Versions \cup {None}] /\ IsFiniteSet(Present')
      /\ ChunkFiles' = ChunkFiles
  <2>1. CASE UNCHANGED disk
    BY <2>1 DEF CacheInv, CacheTypes, Present, ChunkFiles, ChunkPath
  <2>2. CASE pc[r] = "temp" /\ disk' = [disk EXCEPT ![TempPath(chunk[r])] = got[r]]
    BY <2>2, TempEffect
  <2> QED BY <2>1, <2>2 DEF WriteTemp, DownloadFails
<1>2. PICK to \in {"rename", "failed"} : Goes(r, to)
  BY DEF WriteTemp, DownloadFails
<1>3. pc[r] # "account" /\ got' = [got EXCEPT ![r] = None]
      /\ UNCHANGED <<obj, stage, lru, size, refused, chunk>>
  BY DEF WriteTemp, DownloadFails
<1>a. Removable' = Removable
  BY <1>1, <1>3 DEF Removable
<1>4. Evictable'
  BY <1>a, <1>2, <1>3, Going, StaysEvictable DEF CacheInv
<1>5. CacheTypes'
  BY <1>1, <1>2, <1>3, Going DEF CacheInv, CacheTypes
<1> QED BY <1>3, <1>4, <1>5 DEF CacheInv, Filed, ChunkPath

LEMMA RenameCache == ASSUME FlightInv, CacheInv, NEW r \in Readers, Rename(r) PROVE CacheInv'
<1> DEFINE t == TempPath(chunk[r])
           x == ChunkPath(chunk[r])
<1>1. chunk[r] \in Chunks /\ t \in CachePaths /\ x \in CachePaths /\ t # x
  BY OnItsWay, Paths DEF Rename
<1>2. \A q \in Readers : /\ (pc'[q] = "temp") <=> (pc[q] = "temp")
                         /\ pc[q] = "account" => pc'[q] = "account" /\ chunk'[q] = chunk[q]
  BY Going DEF Rename
<1>3. CASE disk[t] = None
  BY <1>2, <1>3, CacheLasts DEF Rename, cacheVars, CacheInv, CacheTypes
<1>4. CASE disk[t] # None
  <2>1. /\ disk' = [disk EXCEPT ![x] = disk[t], ![t] = None] /\ pc'[r] = "account"
        /\ refused' = refused \ {chunk[r]}
    BY <1>4, Going DEF Rename
  <2>2. disk' \in [CachePaths -> Versions \cup {None}]
    BY <1>1, <2>1 DEF CacheInv, CacheTypes
  <2> HIDE DEF t, x
  <2>3. Present' \subseteq Present \cup {x}
    BY <1>1, <2>1 DEF Present, CacheInv, CacheTypes
  <2>4. IsFiniteSet(Present')
    BY <2>3, FS_AddElement, FS_Subset DEF CacheInv, CacheTypes
  <2>5. \A y \in CachePaths \ {x} : disk'[y] = None \/ disk'[y] = disk[y]
    BY <1>1, <2>1 DEF CacheInv, CacheTypes
  <2>6. \A c \in Removable' : c \in Removable \/ c = chunk[r]
    BY <1>1, <2>1, <2>5, Paths DEF ChunkFiles, Removable, ChunkPath, x
  <2>a. refused' \subseteq ChunkFiles'
    <3> SUFFICES ASSUME NEW c \in refused, c # chunk[r]
                 PROVE  c \in Chunks /\ disk'[ChunkPath(c)] # None
      BY <2>1 DEF ChunkFiles, ChunkPath
    <3>1. c \in Chunks /\ disk[ChunkPath(c)] # None
      BY DEF CacheInv, CacheTypes, ChunkFiles
    <3>2. ChunkPath(c) \in CachePaths /\ ChunkPath(c) # x /\ ChunkPath(c) # t
      BY <1>1, <3>1, Paths DEF x, t
    <3> QED BY <2>1, <3>1, <3>2 DEF CacheInv, CacheTypes
  <2>7. UNCHANGED <<obj, stage, lru, size, chunk, got>>
    BY DEF Rename
  <2>8. Evictable'
    BY <1>2, <2>1, <2>6, <2>7, StaysEvictable DEF CacheInv
  <2>9. CacheTypes'
    BY <1>2, <2>2, <2>4, <2>7, <2>a DEF CacheInv, CacheTypes
  <2> QED BY <2>7, <2>8, <2>9 DEF CacheInv, Filed, ChunkPath
<1> QED BY <1>3, <1>4

LEMMA AccountCache ==
  ASSUME FlightInv, CacheInv, NEW r \in Readers, Account(r)
  PROVE  CacheInv' /\ Len(lru') <= Len(lru) + 1
<1> DEFINE k == ChunkKey(chunk[r])
           x == ChunkPath(chunk[r])
<1>1. chunk[r] \in Chunks /\ k \in Keys /\ x \in CachePaths /\ Filed([key |-> k, path |-> x])
  BY OnItsWay, Paths DEF Account
<1>2. lru \in Seq(LruEntry)
  BY DEF CacheInv, CacheTypes
<1> HIDE DEF k, x
<1>3. /\ lru' \in Seq(LruEntry) /\ Len(lru') <= Len(lru) + 1
      /\ Range(lru) \subseteq Range(lru')
      /\ Range(lru') \subseteq Range(lru) \cup {[key |-> k, path |-> x]}
      /\ \E e \in Range(lru') : e.key = k
  BY <1>1, <1>2, AddEffect DEF Account, k, x
<1>4. \A e \in Range(lru') : Filed(e)
  BY <1>1, <1>3 DEF CacheInv
<1>5. \E e \in Range(lru') : e.path = x
  BY <1>3, <1>4 DEF Filed, k, x, ChunkKey
<1>6. Present' = Present /\ ChunkFiles' = ChunkFiles /\ Removable' = Removable
  BY DEF Account, Present, ChunkFiles, Removable, ChunkPath
<1>7. \A q \in Readers : /\ (pc'[q] = "temp") <=> (pc[q] = "temp")
                         /\ q # r => pc'[q] = pc[q]
  BY Going DEF Account
<1>8. Evictable'
  BY <1>3, <1>5, <1>6, <1>7, StaysEvictable DEF CacheInv, Account, x
<1>9. CacheTypes'
  BY <1>3, <1>6, <1>7 DEF CacheInv, CacheTypes, Account
<1> QED BY <1>3, <1>4, <1>8, <1>9 DEF CacheInv, Filed, ChunkPath

LEMMA InvalidateCache ==
  ASSUME CacheInv, NEW f \in Files, Invalidate(f),
         obj' = obj, stage' \in [Files -> {"remote", "dirty", "clean"}], UNCHANGED readerVars
  PROVE  CacheInv'
<1>1. PICK gone \in SUBSET Present : gone = {y \in Present : y.of[1] = f}
  OBVIOUS
<1>2. PICK K : K = Keys \ {ChunkKey(y.of) : y \in gone}
  OBVIOUS
<1>3. size' = size - Cardinality(gone) /\ lru' = Keyed(lru, K)
  BY <1>1, <1>2 DEF Invalidate
<1>4. /\ disk' \in [CachePaths -> Versions \cup {None}] /\ IsFiniteSet(Present')
      /\ refused' \subseteq ChunkFiles' /\ Removable' \subseteq Removable
      /\ \A c \in Removable' : ChunkPath(c) \notin gone
  <2>1. PICK stay \in Refusals(gone) : Remove(gone, stay)
    BY <1>1 DEF Invalidate
  <2> QED BY <2>1, RemoveEffect DEF CacheInv
<1>5. size' \in Int
  BY <1>3, FS_Subset, FS_CardinalityType DEF CacheInv, CacheTypes
<1>6. lru' \in Seq(LruEntry) /\ Range(lru') = {e \in Range(lru) : e.key \in K}
  BY <1>3, KeyedEffect DEF CacheInv, CacheTypes
<1>7. \A e \in Range(lru) : e \in LruEntry
  <2>1. \A m \in DOMAIN lru : lru[m] \in LruEntry
    BY LenProperties DEF CacheInv, CacheTypes
  <2> QED BY <2>1 DEF Range
<1>8. ASSUME NEW c \in Removable', NEW e \in Range(lru), e.path = ChunkPath(c)
      PROVE  e \in Range(lru')
  <2>1. c \in Chunks /\ ChunkPath(c) \in Present \ gone
    <3>1. c \in ChunkFiles /\ c \in Chunks
      BY <1>4 DEF Removable, ChunkFiles
    <3> QED BY <1>4, <3>1, Paths DEF ChunkFiles, Present
  <2>2. c[1] # f
    BY <1>1, <2>1, Paths
  <2>3. \A y \in gone : y.of # c
    BY <1>1, <2>2
  <2>4. e.key \notin {ChunkKey(y.of) : y \in gone}
    <3> SUFFICES ASSUME NEW y \in gone, e.key = ChunkKey(y.of) PROVE FALSE
      OBVIOUS
    <3>1. e.key.kind = "key" /\ e.key.of = y.of
      BY DEF ChunkKey
    <3>2. ChunkPath(y.of) = ChunkPath(c)
      BY <1>8, <3>1 DEF CacheInv, Filed
    <3>3. y.of = c
      BY <3>2 DEF ChunkPath
    <3> QED BY <2>3, <3>3
  <2> QED BY <1>2, <1>6, <1>7, <2>4 DEF LruEntry
<1>9. Evictable'
  <2> SUFFICES ASSUME NEW c \in Removable'
               PROVE  \/ \E e \in Range(lru') : e.path = ChunkPath(c)
                      \/ \E r \in Readers : pc'[r] = "account" /\ chunk'[r] = c
    BY DEF Evictable, Range, ChunkPath
  <2>1. c \in Removable
    BY <1>4
  <2>2. \/ \E e \in Range(lru) : e.path = ChunkPath(c)
        \/ \E r \in Readers : pc[r] = "account" /\ chunk[r] = c
    BY <2>1 DEF CacheInv, Evictable, Range
  <2> QED BY <1>8, <2>2 DEF readerVars
<1>10. CacheTypes'
  BY <1>4, <1>5, <1>6 DEF CacheInv, CacheTypes, readerVars
<1> QED BY <1>6, <1>9, <1>10 DEF CacheInv, Filed, ChunkPath

\* Everything in the directory is on the list after a restart, and nothing else.
LEMMA RestartCache ==
  ASSUME CacheInv, Restart
  PROVE  CacheInv' /\ Len(lru') = size'
<1>1. PICK K : K = Cardinality(Present)
  OBVIOUS
<1>2. K \in Nat /\ IsFiniteSet(Present) /\ IsFiniteSet(1 .. K) /\ Cardinality(1 .. K) = K
  BY <1>1, UpTo, FS_CardinalityType DEF CacheInv, CacheTypes
<1>3. PICK s \in [1 .. K -> Present] :
        /\ \A m, n \in DOMAIN s : s[m] = s[n] => m = n
        /\ lru' = [n \in DOMAIN s |-> [key |-> s[n], path |-> s[n]]]
  BY <1>1 DEF Restart
<1>4. s \in Surjection(1 .. K, Present)
  <2>1. s \in Injection(1 .. K, Present)
    BY <1>3 DEF Injection, IsInjective
  <2> QED BY <1>1, <1>2, <2>1, FS_Injection
<1>5. \A x \in Present : [key |-> x, path |-> x] \in LruEntry /\ Filed([key |-> x, path |-> x])
  BY DEF Present, CachePaths, LruEntry, Keys, Filed
<1>6. lru' \in [1 .. K -> LruEntry] /\ \A n \in 1 .. K : lru'[n] = [key |-> s[n], path |-> s[n]]
  BY <1>3, <1>5
<1>7. lru' \in Seq(LruEntry) /\ Len(lru') = K
  BY <1>2, <1>6, SeqDef, LenProperties
<1>8. \A e \in Range(lru') : Filed(e)
  BY <1>3, <1>5, <1>6 DEF Range
<1>9. \A x \in Present : \E n \in DOMAIN lru' : lru'[n].path = x
  BY <1>4, <1>6 DEF Surjection
<1>10. Present' = Present /\ ChunkFiles' = ChunkFiles /\ Removable' = Removable
  BY DEF Restart, Present, ChunkFiles, Removable, ChunkPath
<1>11. Evictable'
  <2>1. \A c \in Removable : ChunkPath(c) \in Present
    BY Paths DEF Removable, ChunkFiles, Present
  <2> QED BY <1>9, <1>10, <2>1 DEF Evictable, ChunkPath
<1>12. CacheTypes'
  BY <1>1, <1>2, <1>7, <1>10 DEF CacheInv, CacheTypes, Restart
<1> QED BY <1>1, <1>7, <1>8, <1>11, <1>12 DEF CacheInv, Filed, ChunkPath, Restart

LEMMA ReaderStepCache ==
  ASSUME FlightInv, CacheInv, NEW r \in Readers, ReaderStep(r)
  PROVE  CacheInv'
BY LookCache, FinishCache, TouchCache, SpaceCache, GetCache, WriteCache, RenameCache, AccountCache
   DEF ReaderStep

LEMMA NextCache == FlightInv /\ CacheInv /\ [Next]_vars => CacheInv'
<1> SUFFICES ASSUME FlightInv, CacheInv, [Next]_vars PROVE CacheInv'
  OBVIOUS
<1>1. CASE \E r \in Readers, c \in Chunks : Read(r, c)
  BY <1>1, LookCache
<1>2. CASE \E r \in Readers : ReaderStep(r) \/ Cancel(r)
  BY <1>2, LookCache, ReaderStepCache
<1>3. CASE \E f \in Files : Flush(f) \/ Discard(f)
  BY <1>3, InvalidateCache DEF Flush, Discard, CacheInv, CacheTypes
<1>4. CASE \E f \in Files : Upload(f) \/ Sweep(f)
  BY <1>4, BucketCache
<1>5. CASE \E n \in 1 .. Len(lru) : Evict(n)
  BY <1>5, EvictCache
<1>6. CASE Restart
  BY <1>6, RestartCache
<1>7. CASE UNCHANGED vars
  BY <1>7, CacheLasts DEF vars, readerVars, CacheInv, CacheTypes
<1> QED
  BY <1>1, <1>2, <1>3, <1>4, <1>5, <1>6, <1>7 DEF Next

\* In every behaviour every variable keeps its values: a reader has a chunk
\* exactly while it reads, a body exactly between the answer and the temporary
\* file, and a channel exactly while it waits (ensureChunk, downloadChunk).
THEOREM ChunkTypes == Spec => []TypeOK
<1>1. FlightInv /\ CacheInv => TypeOK
  BY DEF FlightInv, ReaderTypes, CacheInv, CacheTypes, TypeOK
<1> QED
  BY InitFlight, NextFlight, InitCache, NextCache, <1>1, PTL DEF Spec

\* In every behaviour the LRU list has the path of every chunk file that nobody
\* failed to remove, or the download that made the file is about to add it:
\* only a failed os.Remove puts a file out of reach of the limit, whatever is
\* invalidated, evicted or found at a restart (downloadChunk,
\* ensureCacheSpace, Evict, InvalidateFile, scanExistingCache).
THEOREM AlwaysEvictable == Spec => []Evictable
<1>1. CacheInv => Evictable
  BY DEF CacheInv
<1> QED
  BY InitFlight, NextFlight, InitCache, NextCache, <1>1, PTL DEF Spec

-----------------------------------------------------------------------------
(* The count and the limit, when nothing is invalidated.                   *)

NothingInvalidated == Ops \cap {"flush", "discard"} = {}

\* The inductive invariant: the counter is never behind the list.
CountInv == Len(lru) <= size

Accounting == {r \in Readers : pc[r] = "account"}

LEMMA NextCount ==
  ASSUME NothingInvalidated, FlightInv, CacheInv, CountInv, [Next]_vars
  PROVE  CountInv'
<1>1. lru \in Seq(LruEntry) /\ size \in Int /\ Len(lru) \in Nat
  BY LenProperties DEF CacheInv, CacheTypes
<1>2. CASE UNCHANGED <<lru, size>>
  BY <1>2 DEF CountInv
<1>3. ASSUME NEW r \in Readers, Touch(r) PROVE CountInv'
  BY <1>1, <1>3, OnItsWay, Paths, TouchEffect DEF Touch, CountInv
<1>4. ASSUME NEW r \in Readers, Space(r) PROVE CountInv'
  <2>1. Excess \in 0 .. Len(lru)
    BY ExcessType DEF CacheInv
  <2>2. Len(lru') = Len(lru) - Excess /\ size' = size - Excess
    BY <1>1, <1>4, <2>1, KeptEffect DEF Space
  <2> QED BY <1>1, <2>1, <2>2 DEF CountInv
<1>5. ASSUME NEW r \in Readers, Account(r) PROVE CountInv'
  <2>1. Len(lru') <= Len(lru) + 1 /\ size' = size + 1 /\ lru' \in Seq(LruEntry)
    BY <1>5, AccountCache DEF Account, CacheInv, CacheTypes
  <2>2. Len(lru') \in Nat
    BY <2>1, LenProperties
  <2> QED BY <1>1, <2>1, <2>2 DEF CountInv
<1>6. ASSUME NEW n \in 1 .. Len(lru), Evict(n) PROVE CountInv'
  <2>1. PICK k \in 0 .. n : size' = size - k
    BY <1>6, EvictCache
  <2>2. Len(lru') = Len(lru) - n
    BY <1>1, <1>6, KeptEffect DEF Evict
  <2> QED BY <1>1, <2>1, <2>2 DEF CountInv
<1>7. CASE Restart
  <2>1. Len(lru') = size' /\ lru' \in Seq(LruEntry)
    BY <1>7, RestartCache DEF CacheInv, CacheTypes
  <2> QED BY <2>1, LenProperties DEF CountInv
<1>8. ASSUME NEW r \in Readers, ReaderStep(r) PROVE CountInv'
  BY <1>2, <1>3, <1>4, <1>5, <1>8
     DEF ReaderStep, Stat, Claim, Woken, Get, WriteTemp, Rename, DownloadFails, Finish, Open, cacheVars
<1>9. ASSUME NEW r \in Readers, Cancel(r) \/ \E c \in Chunks : Read(r, c) PROVE CountInv'
  BY <1>2, <1>9 DEF Cancel, Read, cacheVars
<1>10. CASE UNCHANGED vars
  BY <1>2, <1>10 DEF vars, cacheVars
<1> QED
  BY <1>6, <1>7, <1>8, <1>9, <1>10 DEF Next, NothingInvalidated

\* No more removable files than entries and readers about to add one.
FewFiles ==
  /\ IsFiniteSet(Removable) /\ Cardinality(Removable) \in Nat
  /\ Len(lru) \in Nat /\ Cardinality(Accounting) \in Nat
  /\ Cardinality(Removable) <= Len(lru) + Cardinality(Accounting)

LEMMA FilesCounted == FlightInv /\ CacheInv => FewFiles
<1> SUFFICES ASSUME FlightInv, CacheInv PROVE FewFiles
  OBVIOUS
<1> DEFINE D == DOMAIN lru
           f == [n \in D |-> lru[n].path.of]
           X == {lru[n].path.of : n \in D}
           g == [r \in Accounting |-> chunk[r]]
           Y == {chunk[r] : r \in Accounting}
<1>1. IsFiniteSet(D) /\ Cardinality(D) = Len(lru) /\ Len(lru) \in Nat
  BY LenProperties, UpTo DEF CacheInv, CacheTypes
<1>2. IsFiniteSet(Accounting) /\ Cardinality(Accounting) \in Nat
  BY ChunkAssumption, FS_Subset, FS_CardinalityType DEF Accounting
<1>3. f \in Surjection(D, X) /\ g \in Surjection(Accounting, Y)
  BY DEF Surjection
<1>4. IsFiniteSet(X) /\ Cardinality(X) <= Len(lru)
  BY <1>1, <1>3, FS_Surjection
<1>5. IsFiniteSet(Y) /\ Cardinality(Y) <= Cardinality(Accounting)
  BY <1>2, <1>3, FS_Surjection
<1>6. Removable \subseteq X \cup Y
  <2>1. \A c \in Removable : ChunkPath(c).of = c
    BY DEF Removable, ChunkFiles, ChunkPath
  <2>2. \A c \in Removable : (\E n \in D : lru[n].path = ChunkPath(c))
                              \/ \E r \in Accounting : chunk[r] = c
    BY DEF CacheInv, Evictable, Accounting
  <2> QED BY <2>1, <2>2
<1> HIDE DEF X, Y
<1>7. IsFiniteSet(X \cup Y) /\ Cardinality(X \cup Y) <= Cardinality(X) + Cardinality(Y)
  <2>1. /\ IsFiniteSet(X \cup Y) /\ IsFiniteSet(X \cap Y)
        /\ Cardinality(X \cup Y) = Cardinality(X) + Cardinality(Y) - Cardinality(X \cap Y)
    BY <1>4, <1>5, FS_Union, FS_Intersection
  <2> QED BY <1>4, <1>5, <2>1, FS_CardinalityType
<1>8. IsFiniteSet(Removable) /\ Cardinality(Removable) <= Cardinality(X \cup Y)
  BY <1>6, <1>7, FS_Subset
<1>9. Cardinality(Removable) \in Nat /\ Cardinality(X \cup Y) \in Nat
      /\ Cardinality(X) \in Nat /\ Cardinality(Y) \in Nat
  BY <1>4, <1>5, <1>7, <1>8, FS_CardinalityType
<1> QED BY <1>1, <1>2, <1>4, <1>5, <1>7, <1>8, <1>9 DEF FewFiles

\* In every behaviour in which nothing is invalidated the counter is not
\* behind the chunk files on the disk, those of readers that have renamed and
\* not yet counted and those that could not be removed aside: chunks
\* downloaded twice, evictions of files that are gone or stay, and restarts
\* included (currentSize).
THEOREM CountsAll ==
  ASSUME NothingInvalidated
  PROVE  Spec => []NeverUndercounts
<1>1. Init => CountInv
  BY DEF Init, CountInv
<1>2. FlightInv /\ CacheInv /\ CountInv /\ [Next]_vars => CountInv'
  BY NextCount
<1>3. FlightInv /\ CacheInv /\ CountInv => NeverUndercounts
  BY FilesCounted DEF FewFiles, CountInv, NeverUndercounts, Accounting, CacheInv, CacheTypes
<1> QED
  BY InitFlight, NextFlight, InitCache, NextCache, <1>1, <1>2, <1>3, PTL DEF Spec

\* The readers that have been given room and have not used it.
Roomed == {r \in Readers : pc[r] \in {"get", "temp", "rename"}}

\* The inductive invariant: room given and removable files, together.
RoomInv == Cardinality(Removable) + Cardinality(Roomed) <= MaxChunks - 1 + Cardinality(Readers)

LEMMA SomeReaders ==
  \A S \in SUBSET Readers : /\ IsFiniteSet(S) /\ Cardinality(S) \in Nat
                            /\ Cardinality(S) <= Cardinality(Readers) /\ Cardinality(Readers) \in Nat
BY ChunkAssumption, FS_Subset, FS_CardinalityType

\* A step that gives no room and makes no file.
LEMMA RoomLasts ==
  ASSUME FlightInv, CacheInv, RoomInv, Removable' \subseteq Removable, Roomed' \subseteq Roomed
  PROVE  RoomInv'
<1>1. IsFiniteSet(Removable) /\ IsFiniteSet(Roomed)
  BY FilesCounted, SomeReaders DEF FewFiles, Roomed
<1>2. PICK F : F = Removable' OBVIOUS
<1>3. PICK G : G = Roomed' OBVIOUS
<1>4. /\ Cardinality(F) <= Cardinality(Removable) /\ Cardinality(G) <= Cardinality(Roomed)
      /\ Cardinality(F) \in Nat /\ Cardinality(G) \in Nat
      /\ Cardinality(Removable) \in Nat /\ Cardinality(Roomed) \in Nat
  BY <1>1, <1>2, <1>3, FS_Subset, FS_CardinalityType
<1>5. MaxChunks \in Nat /\ Cardinality(Readers) \in Nat
  BY ChunkAssumption, FS_CardinalityType
<1>6. Cardinality(F) + Cardinality(G) <= MaxChunks - 1 + Cardinality(Readers)
  BY <1>4, <1>5 DEF RoomInv
<1> QED BY <1>2, <1>3, <1>6 DEF RoomInv

LEMMA SpaceRoom ==
  ASSUME MaxChunks >= 1, FlightInv, CacheInv, CountInv, FewFiles',
         NEW r \in Readers, Space(r)
  PROVE  RoomInv'
<1>1. PICK k : k = Excess
  OBVIOUS
<1>2. /\ k \in 0 .. Len(lru) /\ Len(lru) \in Nat /\ size \in Int /\ MaxChunks \in Nat
      /\ k = Len(lru) \/ size - k + 1 <= MaxChunks
  BY <1>1, ExcessType, LenProperties, ChunkAssumption DEF CacheInv, CacheTypes
<1>3. Len(lru') = Len(lru) - k
  BY <1>1, <1>2, KeptEffect DEF Space, CacheInv, CacheTypes
<1>4. Len(lru') <= MaxChunks - 1
  BY <1>2, <1>3 DEF CountInv
<1>5. PICK F : F = Removable' OBVIOUS
<1>6. PICK G : G = Roomed' OBVIOUS
<1>7. PICK A : A = Accounting' OBVIOUS
<1>8. /\ Cardinality(F) \in Nat /\ Cardinality(A) \in Nat /\ Len(lru') \in Nat
      /\ Cardinality(F) <= Len(lru') + Cardinality(A)
  BY <1>5, <1>7 DEF FewFiles
<1>9. /\ Cardinality(G) \in Nat /\ Cardinality(Readers) \in Nat
      /\ Cardinality(A) + Cardinality(G) <= Cardinality(Readers)
  <2>1. A \subseteq Readers /\ G \subseteq Readers /\ A \cap G = {}
    BY <1>6, <1>7 DEF Accounting, Roomed
  <2>2. Cardinality(A \cup G) = Cardinality(A) + Cardinality(G) - Cardinality({})
    BY <2>1, SomeReaders, FS_Union
  <2>3. Cardinality(A \cup G) <= Cardinality(Readers)
    BY <2>1, SomeReaders
  <2> QED BY <2>1, <2>2, <2>3, SomeReaders, FS_EmptySet
<1>10. Cardinality(F) + Cardinality(G) <= MaxChunks - 1 + Cardinality(Readers)
  BY <1>2, <1>4, <1>8, <1>9
<1> QED BY <1>5, <1>6, <1>10 DEF RoomInv

LEMMA RenameRoom ==
  ASSUME FlightInv, CacheInv, RoomInv, NEW r \in Readers, Rename(r)
  PROVE  RoomInv'
<1> DEFINE c == chunk[r]
<1>1. c \in Chunks
  BY OnItsWay DEF Rename
<1>2. PICK F : F = Removable' OBVIOUS
<1>3. PICK G : G = Roomed' OBVIOUS
<1>4. F \subseteq Removable \cup {c}
  <2>1. \A y \in CachePaths \ {ChunkPath(c)} : disk'[y] = None \/ disk'[y] = disk[y]
    BY <1>1, Paths DEF Rename, CacheInv, CacheTypes
  <2>2. \A d \in Chunks : d # c /\ disk'[ChunkPath(d)] # None => disk[ChunkPath(d)] # None
    <3> TAKE d \in Chunks
    <3>1. d # c => ChunkPath(d) \in CachePaths \ {ChunkPath(c)}
      BY <1>1, Paths
    <3> QED BY <2>1, <3>1
  <2>3. \A d : d \in refused' \/ d \notin refused \/ d = c
    BY DEF Rename
  <2> QED BY <1>2, <2>2, <2>3 DEF Removable, ChunkFiles, ChunkPath
<1>5. G = Roomed \ {r} /\ r \in Roomed
  BY <1>3, Going DEF Rename, Roomed
<1>6. /\ IsFiniteSet(Removable) /\ Cardinality(Removable) \in Nat
      /\ IsFiniteSet(Roomed) /\ Cardinality(Roomed) \in Nat
      /\ MaxChunks \in Nat /\ Cardinality(Readers) \in Nat
  BY FilesCounted, SomeReaders, ChunkAssumption DEF FewFiles, Roomed
<1>7. Cardinality(G) = Cardinality(Roomed) - 1
  BY <1>5, <1>6, FS_RemoveElement
<1>8. Cardinality(F) \in Nat /\ Cardinality(F) <= Cardinality(Removable) + 1
  <2>1. /\ IsFiniteSet(Removable \cup {c}) /\ Cardinality(Removable \cup {c}) \in Nat
        /\ Cardinality(Removable \cup {c}) <= Cardinality(Removable) + 1
    <3>1. /\ IsFiniteSet(Removable \cup {c})
          /\ \/ Cardinality(Removable \cup {c}) = Cardinality(Removable)
             \/ Cardinality(Removable \cup {c}) = Cardinality(Removable) + 1
      BY <1>6, FS_AddElement
    <3> QED BY <1>6, <3>1
  <2>2. IsFiniteSet(F) /\ Cardinality(F) <= Cardinality(Removable \cup {c})
    BY <1>4, <2>1, FS_Subset
  <2> QED BY <1>6, <2>1, <2>2, FS_CardinalityType
<1>9. Cardinality(F) + Cardinality(G) <= MaxChunks - 1 + Cardinality(Readers)
  BY <1>6, <1>7, <1>8 DEF RoomInv
<1> QED BY <1>2, <1>3, <1>9 DEF RoomInv

LEMMA NextRoom ==
  ASSUME NothingInvalidated, MaxChunks >= 1,
         FlightInv, CacheInv, CountInv, RoomInv, FewFiles', [Next]_vars
  PROVE  RoomInv'
<1>1. CASE UNCHANGED <<disk, refused>> /\ \A r \in Readers : pc'[r] = pc[r] \/ r \notin Roomed'
  <2>1. Removable' = Removable /\ Roomed' \subseteq Roomed
    BY <1>1 DEF Removable, ChunkFiles, ChunkPath, Roomed
  <2> QED BY <2>1, RoomLasts
<1>2. ASSUME NEW r \in Readers, Rename(r) \/ Space(r) PROVE RoomInv'
  BY <1>2, RenameRoom, SpaceRoom
<1>3. ASSUME NEW r \in Readers, Get(r) PROVE RoomInv'
  <2>1. Removable' = Removable /\ Roomed' \subseteq Roomed
    BY <1>3, Going DEF Get, cacheVars, Removable, ChunkFiles, ChunkPath, Roomed
  <2> QED BY <2>1, RoomLasts
<1>4. ASSUME NEW r \in Readers, WriteTemp(r) \/ DownloadFails(r) PROVE RoomInv'
  <2>1. Removable' = Removable
    <3>1. CASE UNCHANGED disk
      BY <1>4, <3>1 DEF WriteTemp, DownloadFails, Removable, ChunkFiles, ChunkPath
    <3>2. CASE pc[r] = "temp" /\ disk' = [disk EXCEPT ![TempPath(chunk[r])] = got[r]]
      <4>1. ChunkFiles' = ChunkFiles
        BY <3>2, TempEffect
      <4> QED BY <1>4, <4>1 DEF WriteTemp, DownloadFails, Removable
    <3> QED BY <1>4, <3>1, <3>2 DEF WriteTemp, DownloadFails
  <2>2. r \in Roomed /\ \A q \in Readers \ {r} : pc'[q] = pc[q]
    BY <1>4, Going DEF WriteTemp, DownloadFails, Roomed
  <2>3. Roomed' \subseteq Roomed
    BY <2>2 DEF Roomed
  <2> QED BY <2>1, <2>3, RoomLasts
<1>5. ASSUME NEW r \in Readers, Touch(r) \/ Account(r) PROVE RoomInv'
  BY <1>1, <1>5, Going DEF Touch, Account, Roomed
<1>6. ASSUME NEW r \in Readers,
             \/ \E c \in Chunks : Read(r, c)
             \/ Stat(r) \/ Claim(r) \/ Cancel(r) \/ Woken(r) \/ Open(r)
      PROVE  RoomInv'
  <2>1. PICK to \in {"idle", "stat", "touch", "claim", "wait", "space", "open"} : Goes(r, to)
    BY <1>6 DEF Read, Stat, Claim, Cancel, Woken, Open
  <2>2. UNCHANGED <<disk, refused>>
    BY <1>6 DEF Read, Stat, Claim, Cancel, Woken, Open, cacheVars
  <2> QED BY <1>1, <2>1, <2>2, Going DEF Roomed
<1>7. ASSUME NEW r \in Readers, Finish(r) PROVE RoomInv'
  <2>1. \A q \in Readers : pc'[q] = pc[q] \/ pc'[q] \in {"open", "idle", "woken"}
    BY <1>7 DEF Finish
  <2> QED BY <1>1, <1>7, <2>1 DEF Finish, cacheVars, Roomed
<1>8. ASSUME NEW n \in 1 .. Len(lru), Evict(n) PROVE RoomInv'
  <2>1. Removable' \subseteq Removable
    BY <1>8, EvictCache
  <2>2. Roomed' = Roomed
    BY <1>8 DEF Evict, readerVars, Roomed
  <2> QED BY <2>1, <2>2, RoomLasts
<1>9. CASE Restart
  BY <1>1, <1>9 DEF Restart, Roomed
<1>10. CASE UNCHANGED vars
  BY <1>1, <1>10 DEF vars, cacheVars, readerVars
<1>11. ASSUME NEW r \in Readers, ReaderStep(r) PROVE RoomInv'
  BY <1>2, <1>3, <1>4, <1>5, <1>6, <1>7, <1>11 DEF ReaderStep
<1> QED
  BY <1>6, <1>8, <1>9, <1>10, <1>11 DEF Next, NothingInvalidated

\* In every behaviour in which nothing is invalidated, with room for at least
\* one chunk, the chunk files that nobody failed to remove exceed the limit by
\* less than the number of readers: ensureCacheSpace reserves nothing, and no more than that can go
\* wrong between its check and the rename of downloadChunk.
THEOREM StaysBounded ==
  ASSUME NothingInvalidated, MaxChunks >= 1
  PROVE  Spec => []Bounded
<1>1. Init => CountInv
  BY DEF Init, CountInv
<1>2. FlightInv /\ CacheInv /\ CountInv /\ [Next]_vars => CountInv'
  BY NextCount
<1>3. FlightInv /\ CacheInv /\ CountInv /\ RoomInv /\ FewFiles' /\ [Next]_vars => RoomInv'
  BY NextRoom
<1>4. Init => RoomInv
  <2> SUFFICES ASSUME Init PROVE RoomInv
    OBVIOUS
  <2>1. Removable = {} /\ Roomed = {}
    BY DEF Init, Removable, ChunkFiles, Roomed, ChunkPath, CachePaths
  <2>2. Cardinality(Readers) \in Nat /\ MaxChunks \in Nat
    BY SomeReaders, ChunkAssumption
  <2> QED BY <2>1, <2>2, FS_EmptySet DEF RoomInv
<1>5. FlightInv /\ CacheInv /\ FewFiles /\ RoomInv => Bounded
  <2>1. /\ Cardinality(Roomed) \in Nat /\ Cardinality(Readers) \in Nat /\ MaxChunks \in Nat
    BY SomeReaders, ChunkAssumption DEF Roomed
  <2> QED BY <2>1 DEF RoomInv, FewFiles, Bounded
<1> QED
  BY InitFlight, NextFlight, InitCache, NextCache, FilesCounted,
     <1>1, <1>2, <1>3, <1>4, <1>5, PTL DEF Spec

=============================================================================
