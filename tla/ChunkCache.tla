----------------------------- MODULE ChunkCache -----------------------------
(***************************************************************************)
(* The chunk cache: goroutines read chunks of objects through local chunk  *)
(* files, one download at a time per chunk, with LRU eviction against a    *)
(* size limit; flushes and other calls invalidate the chunks of a file.    *)
(*                                                                         *)
(* cm.mu covers the LRU list, the size and the map of downloads.  The      *)
(* chunk files themselves are looked at, written, renamed and opened       *)
(* without it, so each of these is a step of its own.  The unit of size is *)
(* one chunk.  A directory that cleanupEmptyDirs removes under a download  *)
(* makes the download fail: one of the failures of DownloadFails.          *)
(*                                                                         *)
(* os.Remove may fail on a file that is there.  All three callers go on:   *)
(* the entry has left the LRU list, and all but Evict have taken the size  *)
(* off, yet the file stays.  The history variable refused remembers those  *)
(* files, which the statements about eviction and size leave out.          *)
(***************************************************************************)
EXTENDS Integers, Sequences, FiniteSets

CONSTANTS
  Readers,      \* goroutines in ChunkManager.Read
  Files, Ids,   \* a chunk is a file and a number
  MaxChunks,    \* maxCacheSize / ChunkSize
  MaxVersion,   \* bound on the uploads of an object
  MaxDrift,     \* bound on the size counter: no read starts, and nothing is
                \* invalidated, beyond it
  Ops,          \* what happens besides reading; "refuse": os.Remove may fail
  None

Chunks   == Files \X Ids
Versions == 0 .. MaxVersion

\* The paths in the cache directory: a chunk file, or its temporary file.
ChunkPath(c) == [kind |-> "chunk", of |-> c]
TempPath(c)  == [kind |-> "temp", of |-> c]
CachePaths   == [kind : {"chunk", "temp"}, of : Chunks]

\* An LRU entry is filed under "path:chunkID", or under a file system path.
ChunkKey(c) == [kind |-> "key", of |-> c]
Keys        == [kind : {"key", "chunk", "temp"}, of : Chunks]
LruEntry    == [key : Keys, path : CachePaths]

ASSUME ChunkAssumption ==
  /\ MaxChunks \in Nat /\ MaxVersion \in Nat /\ MaxDrift \in Nat
  /\ Ops \subseteq {"flush", "discard", "evict", "restart", "cancel", "refuse"}
  /\ IsFiniteSet(Readers)
  /\ None \notin Versions
  /\ None \notin Chunks
  /\ None \notin Readers

VARIABLES
  obj,          \* the bucket: the version of each object
  stage,        \* where the current content of a file is
  disk,         \* the cache directory: the version in each file, or None
  lru,          \* lruTracker: front is the most recently used
  size,         \* currentSize
  refused,      \* history: the chunks whose file os.Remove did not remove, and
                \* that has not been removed or replaced since
  downloading,  \* the reader that downloads a chunk, or None
  pc,           \* where a reader is
  chunk,        \* the chunk it reads
  got,          \* the body GetObjectChunk returned
  on            \* the reader whose channel it waits on

cacheVars  == <<disk, lru, size, refused>>
readerVars == <<downloading, pc, chunk, got, on>>
vars == <<obj, stage, cacheVars, readerVars>>

InDownload == {"space", "get", "temp", "rename", "account", "done", "failed"}
ReaderPcs  == {"idle", "stat", "touch", "claim", "wait", "woken", "open"} \cup InDownload

Init ==
  /\ obj = [f \in Files |-> 0] /\ stage = [f \in Files |-> "remote"]
  /\ disk = [x \in CachePaths |-> None] /\ lru = <<>> /\ size = 0
  /\ refused = {}
  /\ downloading = [c \in Chunks |-> None]
  /\ pc = [r \in Readers |-> "idle"] /\ chunk = [r \in Readers |-> None]
  /\ got = [r \in Readers |-> None] /\ on = [r \in Readers |-> None]

Present == {x \in CachePaths : disk[x] # None}

-----------------------------------------------------------------------------
(* lruTracker                                                              *)

\* The entries of s at the positions in I, in their order.
Picked(s, I) ==
  [m \in 1 .. Cardinality(I) |-> s[CHOOSE n \in I : Cardinality({j \in I : j <= n}) = m]]

\* The entries of s with a key in K.
Keyed(s, K)   == Picked(s, {n \in DOMAIN s : s[n].key \in K})
Tracked(s, k) == \E n \in DOMAIN s : s[n].key = k

\* touch: an entry that is not there is not touched.
TouchLru(s, k) ==
  IF Tracked(s, k) THEN Keyed(s, {k}) \o Keyed(s, Keys \ {k}) ELSE s

\* add: an entry that is there keeps its path.
AddLru(s, k, x) ==
  IF Tracked(s, k) THEN TouchLru(s, k) ELSE <<[key |-> k, path |-> x]>> \o s

\* Faulty: one entry too many leaves the list.
KeptShort(s, n) == SubSeq(s, 1, Len(s) - n - 1)

\* The entries left when the n oldest are evicted, and the paths of those.
Kept(s, n)    == SubSeq(s, 1, Len(s) - n)
Evicted(s, n) == {s[m].path : m \in (Len(s) - n + 1) .. Len(s)}

Removed(paths) == [x \in CachePaths |-> IF x \in paths THEN None ELSE disk[x]]

\* The files among paths on which os.Remove may fail, together.
Refusals(paths) == IF "refuse" \in Ops THEN SUBSET (paths \cap Present) ELSE {{}}

\* os.Remove of paths, which fails on those in stay.
Remove(paths, stay) ==
  /\ disk' = Removed(paths \ stay)
  /\ refused' = {c \in Chunks : ChunkPath(c) \in stay}
                   \cup {c \in refused : ChunkPath(c) \notin paths}

-----------------------------------------------------------------------------
(* ensureChunk, downloadChunk, readFromChunk                               *)

Goes(r, to) == pc' = [pc EXCEPT ![r] = to]

\* One turn of the loop of Read.
Read(r, c) ==
  /\ pc[r] = "idle" /\ size < MaxDrift
  /\ Goes(r, "stat") /\ chunk' = [chunk EXCEPT ![r] = c]
  /\ UNCHANGED <<obj, stage, cacheVars, downloading, got, on>>

\* chunkExists, without the lock.
Stat(r) ==
  /\ pc[r] = "stat"
  /\ Goes(r, IF disk[ChunkPath(chunk[r])] # None THEN "touch" ELSE "claim")
  /\ UNCHANGED <<obj, stage, cacheVars, downloading, chunk, got, on>>

Touch(r) ==
  /\ pc[r] = "touch"
  /\ lru' = TouchLru(lru, ChunkKey(chunk[r]))
  /\ Goes(r, "open")
  /\ UNCHANGED <<obj, stage, disk, size, refused, downloading, chunk, got, on>>

\* Faulty: the map is not looked at.
ClaimAlways(r) ==
  /\ pc[r] = "claim"
  /\ Goes(r, "space") /\ downloading' = [downloading EXCEPT ![chunk[r]] = r]
  /\ UNCHANGED <<obj, stage, cacheVars, chunk, got, on>>

\* The lock is taken for the map of downloads only; the file is not looked at
\* again.
Claim(r) ==
  /\ pc[r] = "claim"
  /\ LET d == downloading[chunk[r]] IN
       IF d # None
         THEN Goes(r, "wait") /\ on' = [on EXCEPT ![r] = d] /\ UNCHANGED downloading
         ELSE Goes(r, "space") /\ downloading' = [downloading EXCEPT ![chunk[r]] = r]
              /\ UNCHANGED on
  /\ UNCHANGED <<obj, stage, cacheVars, chunk, got>>

\* The caller's context is cancelled while it waits.
Cancel(r) ==
  /\ pc[r] = "wait"
  /\ Goes(r, "idle") /\ on' = [on EXCEPT ![r] = None] /\ chunk' = [chunk EXCEPT ![r] = None]
  /\ UNCHANGED <<obj, stage, cacheVars, downloading, got>>

\* Faulty: a reader that finds no file tries again.
WokenRetries(r) ==
  /\ pc[r] = "woken"
  /\ Goes(r, IF disk[ChunkPath(chunk[r])] # None THEN "open" ELSE "stat")
  /\ UNCHANGED <<obj, stage, cacheVars, downloading, chunk, got, on>>

\* The channel was closed: the file is there, or the read fails.
Woken(r) ==
  /\ pc[r] = "woken"
  /\ IF disk[ChunkPath(chunk[r])] # None
       THEN Goes(r, "open") /\ UNCHANGED chunk
       ELSE Goes(r, "idle") /\ chunk' = [chunk EXCEPT ![r] = None]
  /\ UNCHANGED <<obj, stage, cacheVars, downloading, got, on>>

\* Faulty: no room is made for the chunk itself.
ExcessTight == LET n == size - MaxChunks IN
                 IF n <= 0 THEN 0 ELSE IF n > Len(lru) THEN Len(lru) ELSE n

\* The number of evictions that make room for one more chunk.
Excess == LET n == size + 1 - MaxChunks IN
            IF n <= 0 THEN 0 ELSE IF n > Len(lru) THEN Len(lru) ELSE n

\* ensureCacheSpace: the oldest go, whether their file is there or not, and
\* whether it can be removed or not.
Space(r) ==
  /\ pc[r] = "space"
  /\ \E stay \in Refusals(Evicted(lru, Excess)) : Remove(Evicted(lru, Excess), stay)
  /\ lru' = Kept(lru, Excess)
  /\ size' = size - Excess
  /\ Goes(r, "get")
  /\ UNCHANGED <<obj, stage, downloading, chunk, got, on>>

Get(r) ==
  /\ pc[r] = "get"
  /\ got' = [got EXCEPT ![r] = obj[chunk[r][1]]]
  /\ Goes(r, "temp")
  /\ UNCHANGED <<obj, stage, cacheVars, downloading, chunk, on>>

WriteTemp(r) ==
  /\ pc[r] = "temp"
  /\ disk' = [disk EXCEPT ![TempPath(chunk[r])] = got[r]]
  /\ got' = [got EXCEPT ![r] = None]
  /\ Goes(r, "rename")
  /\ UNCHANGED <<obj, stage, lru, size, refused, downloading, chunk, on>>

\* Rename fails if somebody has removed the temporary file; it replaces a
\* chunk file that is there.
Rename(r) ==
  /\ pc[r] = "rename"
  /\ LET t == TempPath(chunk[r]) IN
       IF disk[t] = None
         THEN Goes(r, "failed") /\ UNCHANGED <<disk, refused>>
         ELSE /\ disk' = [disk EXCEPT ![ChunkPath(chunk[r])] = disk[t], ![t] = None]
              /\ refused' = refused \ {chunk[r]}
              /\ Goes(r, "account")
  /\ UNCHANGED <<obj, stage, lru, size, downloading, chunk, got, on>>

\* MkdirAll, the request, WriteFile: each may fail.  A WriteFile that fails
\* leaves what it wrote.
DownloadFails(r) ==
  /\ \/ pc[r] \in {"get", "temp"} /\ UNCHANGED disk
     \/ pc[r] = "temp" /\ disk' = [disk EXCEPT ![TempPath(chunk[r])] = got[r]]
  /\ got' = [got EXCEPT ![r] = None]
  /\ Goes(r, "failed")
  /\ UNCHANGED <<obj, stage, lru, size, refused, downloading, chunk, on>>

\* Faulty: the chunk is not counted.
AccountUncounted(r) ==
  /\ pc[r] = "account"
  /\ lru' = AddLru(lru, ChunkKey(chunk[r]), ChunkPath(chunk[r]))
  /\ Goes(r, "done")
  /\ UNCHANGED <<obj, stage, disk, size, refused, downloading, chunk, got, on>>

Account(r) ==
  /\ pc[r] = "account"
  /\ size' = size + 1
  /\ lru' = AddLru(lru, ChunkKey(chunk[r]), ChunkPath(chunk[r]))
  /\ Goes(r, "done")
  /\ UNCHANGED <<obj, stage, disk, refused, downloading, chunk, got, on>>

\* Faulty: the channel is not closed.
FinishSilent(r) ==
  /\ pc[r] \in {"done", "failed"}
  /\ downloading' = [downloading EXCEPT ![chunk[r]] = None]
  /\ Goes(r, IF pc[r] = "done" THEN "open" ELSE "idle")
  /\ chunk' = [chunk EXCEPT ![r] = IF pc[r] = "done" THEN @ ELSE None]
  /\ UNCHANGED <<obj, stage, cacheVars, got, on>>

\* Faulty: the error of the download is ignored.
FinishOpens(r) ==
  /\ pc[r] \in {"done", "failed"}
  /\ downloading' = [downloading EXCEPT ![chunk[r]] = None]
  /\ pc' = [q \in Readers |->
              IF q = r THEN "open" ELSE IF pc[q] = "wait" /\ on[q] = r THEN "woken" ELSE pc[q]]
  /\ on' = [q \in Readers |-> IF on[q] = r THEN None ELSE on[q]]
  /\ chunk' = [chunk EXCEPT ![r] = IF pc[r] = "done" THEN @ ELSE None]
  /\ UNCHANGED <<obj, stage, cacheVars, got>>

\* The download leaves the map and its channel is closed.
Finish(r) ==
  /\ pc[r] \in {"done", "failed"}
  /\ downloading' = [downloading EXCEPT ![chunk[r]] = None]
  /\ pc' = [q \in Readers |->
              IF q = r THEN IF pc[r] = "done" THEN "open" ELSE "idle"
              ELSE IF pc[q] = "wait" /\ on[q] = r THEN "woken" ELSE pc[q]]
  /\ on' = [q \in Readers |-> IF on[q] = r THEN None ELSE on[q]]
  /\ chunk' = [chunk EXCEPT ![r] = IF pc[r] = "done" THEN @ ELSE None]
  /\ UNCHANGED <<obj, stage, cacheVars, got>>

\* The chunk file is opened and read; the read fails if it is gone by now.
Open(r) ==
  /\ pc[r] = "open"
  /\ Goes(r, "idle") /\ chunk' = [chunk EXCEPT ![r] = None]
  /\ UNCHANGED <<obj, stage, cacheVars, downloading, got, on>>

ReaderStep(r) ==
  \/ Stat(r) \/ Touch(r) \/ Claim(r) \/ Woken(r) \/ Space(r) \/ Get(r) \/ WriteTemp(r)
  \/ Rename(r) \/ DownloadFails(r) \/ Account(r) \/ Finish(r) \/ Open(r)

-----------------------------------------------------------------------------
(* Invalidation, eviction, restart                                         *)

\* InvalidateFile: everything in the file's directory goes, and its size is
\* taken off, counted or not, removed or not; the LRU forgets the chunk's key.
Invalidate(f) ==
  LET gone == {x \in Present : x.of[1] = f} IN
    /\ size - Cardinality(gone) >= -MaxDrift
    /\ \E stay \in Refusals(gone) : Remove(gone, stay)
    /\ size' = size - Cardinality(gone)
    /\ lru' = Keyed(lru, Keys \ {ChunkKey(x.of) : x \in gone})

\* A Flush invalidates, and the row sends new readers to the staging file.
Flush(f) ==
  /\ Invalidate(f)
  /\ stage' = [stage EXCEPT ![f] = "dirty"]
  /\ UNCHANGED <<obj, readerVars>>

\* The daemon's upload, and later its sweep of the staging file: from then on
\* readers go through the cache again.
Upload(f) ==
  /\ stage[f] = "dirty" /\ obj[f] < MaxVersion
  /\ obj' = [obj EXCEPT ![f] = @ + 1]
  /\ stage' = [stage EXCEPT ![f] = "clean"]
  /\ UNCHANGED <<cacheVars, readerVars>>

Sweep(f) ==
  /\ stage[f] = "clean"
  /\ stage' = [stage EXCEPT ![f] = "remote"]
  /\ UNCHANGED <<obj, cacheVars, readerVars>>

\* Remove, Rename and a change of size invalidate too.
Discard(f) ==
  /\ Invalidate(f)
  /\ UNCHANGED <<obj, stage, readerVars>>

\* Evict: the size goes down only for files that were there and are removed.
Evict(n) ==
  /\ n \in 1 .. Len(lru)
  /\ \E stay \in Refusals(Evicted(lru, n)) :
       /\ Remove(Evicted(lru, n), stay)
       /\ size' = size - Cardinality((Evicted(lru, n) \cap Present) \ stay)
  /\ lru' = Kept(lru, n)
  /\ UNCHANGED <<obj, stage, readerVars>>

\* The gateway starts again: scanExistingCache files what it finds under the
\* path of the file, in the order in which the walk meets the names.
Restart ==
  /\ \E s \in [1 .. Cardinality(Present) -> Present] :
       /\ \A m, n \in DOMAIN s : s[m] = s[n] => m = n
       /\ lru' = [n \in DOMAIN s |-> [key |-> s[n], path |-> s[n]]]
  /\ size' = Cardinality(Present)
  /\ downloading' = [c \in Chunks |-> None]
  /\ pc' = [r \in Readers |-> "idle"] /\ chunk' = [r \in Readers |-> None]
  /\ got' = [r \in Readers |-> None] /\ on' = [r \in Readers |-> None]
  /\ UNCHANGED <<obj, stage, disk, refused>>

-----------------------------------------------------------------------------
Next ==
  \/ \E r \in Readers, c \in Chunks : Read(r, c)
  \/ \E r \in Readers : ReaderStep(r) \/ ("cancel" \in Ops /\ Cancel(r))
  \/ \E f \in Files : \/ "flush" \in Ops /\ (Flush(f) \/ Upload(f) \/ Sweep(f))
                      \/ "discard" \in Ops /\ Discard(f)
  \/ "evict" \in Ops /\ \E n \in 1 .. Len(lru) : Evict(n)
  \/ "restart" \in Ops /\ Restart

Spec == Init /\ [][Next]_vars

\* Every goroutine that can go on does.
Fairness == \A r \in Readers : WF_vars(ReaderStep(r))

FairSpec == Spec /\ Fairness

-----------------------------------------------------------------------------
(* Properties                                                              *)

\* The chunks with a file, and those whose file nobody failed to remove.
ChunkFiles == {c \in Chunks : disk[ChunkPath(c)] # None}
Removable  == ChunkFiles \ refused

Downloads(r, c) == pc[r] \in InDownload /\ chunk[r] = c

\* The values the variables take: a reader has a chunk exactly while it reads,
\* a body exactly between the answer and the temporary file, and a channel
\* exactly while it waits (the locals of ensureChunk and downloadChunk).
TypeOK ==
  /\ obj \in [Files -> Versions] /\ stage \in [Files -> {"remote", "dirty", "clean"}]
  /\ disk \in [CachePaths -> Versions \cup {None}]
  /\ lru \in Seq(LruEntry) /\ size \in Int
  /\ refused \subseteq ChunkFiles
  /\ downloading \in [Chunks -> Readers \cup {None}]
  /\ pc \in [Readers -> ReaderPcs] /\ chunk \in [Readers -> Chunks \cup {None}]
  /\ got \in [Readers -> Versions \cup {None}] /\ on \in [Readers -> Readers \cup {None}]
  /\ \A r \in Readers : /\ (pc[r] = "idle") <=> (chunk[r] = None)
                        /\ (pc[r] = "temp") <=> (got[r] # None)
                        /\ (pc[r] = "wait") <=> (on[r] # None)

\* One download at a time for a chunk, and the map of downloads names it: no
\* entry outlives its download, so no later reader waits for nobody
\* (ensureChunk, the map under cm.mu).
SingleFlight ==
  \A r \in Readers, c \in Chunks : (downloading[c] = r) <=> Downloads(r, c)

\* A reader that waits, waits on a download of its chunk that is still going
\* on: no wake-up is lost between the look into the map and the wait, and
\* the closing of a channel wakes everyone on it (ensureChunk).
Awaited ==
  \A r \in Readers : pc[r] = "wait" => Downloads(on[r], chunk[r])

\* A chunk file that nobody failed to remove can be evicted: the LRU list has
\* its path, or its download is about to add it.  A file that neither has stays
\* until the gateway starts again, whatever the limit (downloadChunk against
\* ensureCacheSpace, Evict, InvalidateFile and scanExistingCache).  Without the
\* exception it does not hold: os.Remove fails after the entry has gone.
Evictable ==
  \A c \in Removable :
    \/ \E n \in DOMAIN lru : lru[n].path = ChunkPath(c)
    \/ \E r \in Readers : pc[r] = "account" /\ chunk[r] = c

\* When nothing is invalidated, the counter never falls behind the files by
\* more than those that could not be removed: each other file is counted or
\* about to be (currentSize against evictions of files that are not there or
\* stay, chunks downloaded twice and files found at a restart).
NeverUndercounts ==
  Cardinality(Removable) <= size + Cardinality({r \in Readers : pc[r] = "account"})

\* Then the cache holds, besides the files that could not be removed, at most
\* one chunk per further reader above its limit: what the others may still
\* download on the room they were given before it was taken (ensureCacheSpace,
\* which reserves nothing).
Bounded == Cardinality(Removable) <= MaxChunks + Cardinality(Readers) - 1

\* A read comes to an end, with data or with an error: nobody waits for ever
\* on a channel or on a download that somebody has given up.
ReadEnds == \A r \in Readers : pc[r] # "idle" ~> pc[r] = "idle"
=============================================================================
