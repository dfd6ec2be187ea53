# The S3 gateway in TLA+

The gateway mounts an S3 bucket as a FUSE file system that Samba serves. Its
metadata is in a local SQLite database, its file contents pass through two
caches on the local disk, and three kinds of goroutine work on the same rows
and files: the FUSE handlers, a write-back daemon and a synchronisation with
the bucket. These modules model the parts where that concurrency, the failures
and the order of steps decide whether a user's data survives. Paths below are
relative to the repository (`src/`).

Two assumptions carry much of what follows. The code of GORM is not in the
repository; `UpdateEntry` (`metadata/sqlite.go:129`) hands it one pointer both as the
values to assign and as the record to fill, and the modules take the documented
meaning, by which the values given win. Should the version in `go.mod` (1.25.5) load
the stored row into that record first, an upsert of an existing row would change
nothing, and every result about rows would be about another program: this is the first
thing to confirm with a test against the real library. And two paths never share a
staging name or an object key.

## The system

| Part | Source | State | Operations |
|---|---|---|---|
| Metadata repository | `metadata/sqlite.go`, `models.go` | table `file_entries`: path, size, mod_time, is_dir, xattrs, s3_verified_at, local_dirty, local_staging_path; a mutex around every call | GetEntry, ListEntries, UpdateEntry (upsert), UpdateEntryFields, DeleteEntry, DeleteEntriesWithPrefix, xattr calls |
| File nodes and handles | `fuse/fs.go` | `File.entry` (a row cached at Lookup), `FileHandle` (staging file, dirty, fetchOnce), the staging directory | Lookup, Create, Remove, Attr, Setattr, Open, Read, Write, Flush, Release |
| Directories, rename | `fuse/fs.go` | rows; directory markers `dir/` in the bucket | ReadDirAll, Mkdir, Remove, Rename |
| Extended attributes | `fuse/fs.go`, `metadata/sqlite.go` | the xattrs column | get, set, list, remove; Setattr and Create of mode and owner |
| Write-back daemon | `metadata/uploader.go` | none that lasts: a list per pass | upload idle dirty files; sweep clean staging files |
| Synchronisation | `metadata/sync.go` | the keys seen in a run | list, upsert, reconcile deletions |
| Chunk cache | `cache/manager.go`, `lru.go` | chunk files, LRU list, size, map of downloads | Read, InvalidateFile, Evict, scan at start |
| S3 client | `s3client/client.go` | none | object requests |
| Process | `cmd/s3smb-gateway/main.go` | none that lasts | startup sync with a timeout, mount, the goroutines, shutdown |
| Configuration, log, scripts | `config/`, `internal/log/`, `*.sh` | — | — |

How they interact. A handler reads rows through the repository and keeps the
row in the node; a write goes to a staging file whose name is a hash of the
path; Flush marks the row dirty and names the staging file; the daemon finds
the row at a tick, uploads the file and marks the row clean; a later sweep
removes the file and clears its path. Reads go to the staging file if the
cached row names one, else to the chunk cache, which downloads 16 MB pieces.
Nothing but the repository's mutex and each handle's own mutex orders these
steps: the row, the staging file and the object of a path are read and written
in separate steps by everyone.

What is hard: steps of two actors between a check and the act that relies on
it; cached rows; failures whose error is dropped; uploads that fail, time out or
lose their reply; the death of the process between two steps; a size limit and
a counter that concurrent downloads share. What makes each part correct:

- write-back: a close that succeeded is never lost, a later open reads it, the
  bucket never takes less than it promised, a dirty row is uploaded in the end, a
  row never names a missing file for good;
- rename: what a close promised follows the file to its new name, through the
  upload that waits, failures that are only logged, and a crash;
- namespace: a row keeps the directories on the way to it; in the end all of the
  bucket is shown;
- attributes: updates by requests of their own are all kept, through handlers
  that write back whole columns, renames and the synchronisation;
- chunk cache: one download per chunk, no reader waits for ever, no file
  escapes eviction, the size is bounded;
- synchronisation: local edits win, what others add or delete in the bucket
  appears or disappears, staging files of live rows are left alone;
- process: the share opens with what was in the bucket, and nothing that the
  process does in its life adds to what the synchronisation may remove.

## The modules

| Module | Models | Extends |
|---|---|---|
| `Storage` | rows, objects, staging files; the repository's calls | |
| `FileHandles` | nodes, handles and their requests | `Storage` |
| `Daemon` | the two passes of the write-back daemon | `Storage` |
| `WriteBack` | all of these, the clock, crashes; the properties | `FileHandles`, `Daemon` |
| `WriteBackTypes` | proofs: effects of each action, type invariant | `WriteBack`, `TLAPS` |
| `WriteBackProofs` | proofs: `Durable`, `KeepsPromises` and `FreshUnlessPutBack` for files written once | `WriteBackTypes` |
| `WriteBackRaces` | proofs: `DurableUnlessRaced` for every workload | `WriteBackTypes` |
| `Promises` | the abstract specification of the share: promises and the bucket | |
| `Rename` | Rename of a file beside all of `WriteBack` | `WriteBack` |
| `Namespace` | the tree of rows and markers: Mkdir, Create, Remove, Rename, the synchronisation | |
| `NamespaceProofs` | proofs: types, `Rooted` | `Namespace`, `TLAPS` |
| `Attributes` | the xattrs column and all who write it | |
| `AttributesProofs` | proofs: types, `AttributesKept` | `Attributes`, `TLAPS` |
| `ChunkCache` | the chunk cache and what invalidates it | |
| `ChunkCacheProofs` | proofs: types, single flight, no lost wake-up, evictability, the count and the limit | `ChunkCache`, `TLAPS` |
| `S3Sync` | the synchronisation, alone with a bucket that others write | `Storage` |
| `Lifecycle` | the process around it: start, timeout, mount, death, restart | `S3Sync` |
| `LifecycleProofs` | proofs: types and `PurgesOnlyGone` of the synchronisation, the refinement of `S3Sync`, `PopulatedFirst` | `Lifecycle`, `TLAPS` |
| `Gateway` | the write-back cache with the synchronisation beside it | `WriteBack`; instance of `S3Sync` |
| `CompositionProofs` | proofs: `DurableUnlessRaced` beside the synchronisation, `RenameHonoured` of a rename | `Gateway`, `Rename`, `WriteBackRaces` |
| `MCWriteBack`, `MCRename`, `MCNamespace`, `MCAttributes`, `MCChunkCache`, `MCLifecycle`, `MCGateway` | instances for TLC | |

Operators marked "Faulty" are variants of the definition below them with a
plausible error. No action uses them; each shows that a property would notice.

### Write-back: state and actions

`row[p]` is the row of a path or `None`; of its columns, size, local_dirty and
"was verified" are kept as they are, local_staging_path is the flag `staged`
(its only non-empty value is the hash of the path) and mod_time is the flag
`idle`, because the daemon compares it with the idle time and nothing else in
these parts does. `obj[p]` is the object, `link[p]` the inode at the staging
path and `data[i]` the content of an inode, so that an open handle keeps the
content of a removed file. A content is a length and a version number per
block; a version is new for every write, which lets the properties tell old
data from new.

A handler is one action where it only works on local state under its locks, and
several where it waits for the network or acts on what it read before: Attr
(`AttrRead`, then `AttrHead` and `AttrPersist` if HeadObject is asked and finds bytes,
then `AttrStore`, with the row as it was read, also if HeadObject failed or found
none), Setattr (the update with what it reads back, then `AttrStore`), Write (`FetchStart`,
`FetchCopy`,
`Write`, and the goroutine `PersistSize`), Flush (`FlushBegin`, `FlushCommit`),
Release (`ReleaseCheck`, `ReleaseRemove`), Remove (`RemoveObject`,
`RemoveRow`). `head[n]` is the Attr or Setattr that a node has under way. Flush reads
`f.entry` for every field it sets, under a mutex that Attr and Setattr do not take:
with `TornFlush` the row may get an entry that one of them put there half-way
(`Torn`), which is a `LostFlush`. The daemon is a program with a counter `pc` and one action per
read or write of shared state.

`UpdateEntry` follows the documented contract of GORM's
`Where(..).Assign(struct).FirstOrCreate(..)`: a missing row is inserted, an
existing one is assigned the fields that are not zero, and the entry is filled
with the resulting row. This is why a Flush cannot make a row smaller than one
block, or clear a flag.

`acked[p]` is a history variable: the content that the last successful Flush
stood for, `None` after a removal or a resize. `phase` and `raced` are history
too; nothing in the model's steps depends on `raced`, and `phase` only selects
workloads.

`Promises` says the same from outside: a close promises a content, a removal ends
the promise, and in between the bucket takes nothing that covers less.
`KeepsPromises` is that specification under the mapping of `promised` to `acked`
and `stored` to `obj`; staging files, rows, handles and the daemon are hidden in
its stuttering. `Durable` says where the content is, `KeepsPromises` what may
happen to the bucket, and neither implies the other.

### Rename: state and actions

`Rename` adds the handler `Dir.Rename` of a file to all of `WriteBack`, call by
call: `RenameReplace`, `RenameRow` and `RenameUnrow` move the row in three calls of
the repository, each of which may be refused; then `Copy`, `CopyFails` or
`CopyMissing`, after which `DeleteOld`, or `OpenOld`, `PutOld` and `SizeOld` for the
staging file. `mv` has the handler's locals. While it runs the kernel lets no other
request on names in (`DirectoryOp`), but reads, writes, closes, the daemon, the
sweep and a crash go on. A `File` keeps its old path, so handles write on to the
old staging file; `misnamed` notes their nodes.

The promise goes to the new name with the content (`HandOver`). What breaks
`RenameHonoured` is named, as in `WriteBack`, and noted in `raced`: `ReplaceRace`
and `KeptRow` (the file at the new path waited), `StaleCopy` (the object is older
than the edits that wait), `FailedMove`, `DiedMoving`, `TakenAway`, `LateUpload`,
`StaleFlush`. `RenameHonoured` says that these, with the five of `WriteBack`, are
all the ways to lose a file through a rename; the theorem
`RenameHonouredAlways` says it for every instance.

### Namespace: state and actions

`rows` is the set of paths that have a row and `objs` the bucket: files with an
object and directories with a marker. `Above[p]` are the directories on the way to
`p`; `Like[d]` are those whose children the LIKE pattern of `ListEntries` takes for
children of `d` (names with `_`, `%` or another case). A request on names is `op`, a
step per call, and requests run one at a time because the kernel holds the
directories; the synchronisation, with its `seenDirs` (`seen`), interleaves with
them call by call. `EnsureParent` is one turn of the loop in `ensureParentDirs`: its
lookup and its insert are one action, since only Remove of that directory could
come between. `raced` notes the rows that a rename of a directory leaves behind,
and rows that the synchronisation puts into a directory it has seen and which is
going.

### Attributes: state and actions

`xattrs[p]` is the column of the row of `p`: a map, or `Null` if it never had one,
or `None` without a row. A value is the number of the request that set it. Setxattr
and Removexattr are one action, under the repository's mutex; Setattr, Create,
Mkdir, Rename and the synchronisation read a column in one step and write it back
in another. `Stored` is the coding: bytes that are not UTF-8 are replaced. `Upsert`
is `UpdateEntry`, which skips a nil map. `want[p]` is history: what the requests,
in the order in which they take effect, make of the attributes. `raced` notes a
write over a column that the writer had not read.

### Chunk cache: state and actions

`cm.mu` protects the LRU list, the size and the map of downloads, and the chunk
files are handled without it; so every stat, write, rename, open and every
locked section is a step. `disk` is the cache directory with chunk files and
temporary files; a file's value is the version of the object it came from. The
unit of the size is one chunk. An LRU entry's key is of kind "key"
(path:chunkID) or a file system path, as the scan at start makes it. Flush,
upload and sweep of the write-back cache appear as three steps on `stage`: what
they do to the chunks and to the bucket, no more.

With "refuse" in `Ops`, `os.Remove` may fail on any of the files that an eviction or an
invalidation goes through (`Refusals`, `Remove`). `ensureCacheSpace` and
`InvalidateFile` have taken off its size by then, `Evict` has not, and in all three its
entry has left the LRU list: the file stays, is served, and is out of reach of the
limit until the next start. `refused` is history: these files, as long as they are there
and have not been replaced by a new download. `Evictable`, `NeverUndercounts` and
`Bounded` are about the others (`Removable`): what they rule out is any other way to
such a file. Without the exception none of the three holds.

### Synchronisation: state and actions

A run of `SyncFromS3` is one goroutine. `ListPage` is a request: it returns the
objects that some of the names still to be listed have at that moment, so the
bucket may change between two pages; a lexical order of the pages would be one
of the cases. `Examine` is the lookup of a row with the skip rule, `DropStaging`
the removal of the staging file that the row named, `Upsert` the update,
`Reconcile` the read of all rows and `DeleteRow` one deletion: others act
between any two of these. `Stopped` is the end of a run at any step, by its context
or with its process. `existing` is the code's local of that name, `gone` a history
variable: the paths that had no object at some time of the run. Rows of directories
are in `Namespace`, the attributes that a run carries over in `Attributes`.

`Lifecycle` puts the process around it. `Start` begins the synchronisation before
the mount, or goes up at once if the configuration says so; `StartupStep` continues
it; `StartupDone` and `StartupFails` end it, the latter with the mount if the time
is over (`late`) and otherwise with the end of the process, which `run` returns an
error from. `TimeOut` may come at any step, and every call that has the context
fails from then on (`Expired`); a call that has returned before takes effect.
`Periodic` is the ticker's goroutine, `Die` a death or a shutdown at any step: main
waits for none of its goroutines, so a shutdown is a death to them. Database and
bucket survive.

`Gateway` runs these steps, through an instance over the same variables, beside
the handlers and the daemon. There the row may be newer than the object, which
`Examine` takes as a parameter because applications set mtime freely. The
synchronisation at start runs before the mount; that its behaviours are among those
of `S3Sync` is `ImplementsS3Sync`.

## What is checked

Passing runs:

| Run | Question | Bounds |
|---|---|---|
| `MCWriteOnce` | is every close honoured (`Durable`), does the bucket never take less (`KeepsPromises`), and does every later open read what was promised unless the node's entry is put back (`FreshUnlessPutBack`), when files are copied onto the share, looked at, touched and removed? | 1 path, 1 node, 2 handles, 2 blocks, 2 writes, 1 crash |
| `MCRewrite` | can a promise be broken by anything but the named races, when two handles rewrite a file? | 1 path, 1 node, 2 handles, 2 inodes, 1 block, 3 versions |
| `MCFaults` | and when the database fails, files are resized, touched and removed, and the process dies? | 1 path, 1 handle, 2 inodes, 2 versions, 1 crash, torn flushes |
| `MCLive` | is a dangling path healed, and is what can be uploaded uploaded? | 1 path, 1 handle, 2 inodes, 3 versions, 1 crash |
| `MCChunks` | single flight, waits, evictability with everything that happens to the cache; does every read end? | 2 readers, 1 chunk, limit 1, removals that fail, fair |
| `MCChunkLimit` | are all files counted, and is the cache bounded, when nothing is invalidated? | 2 readers, 3 chunks, limit 1, removals that fail |
| `MCRename` | what can a rename lose? | 2 paths, 1 node, 1 handle, 2 inodes, 1 block, 1 rename, 1 write after two existing versions, failing calls, 1 crash |
| `MCNamespace` | do rows keep their directories, and is all of the bucket shown in the end? | 3 directories, one of them nested and one taken for another by LIKE, 2 files; 2 requests, foreign changes or failures |
| `MCAttributes` | what can lose an attribute? | 2 files, 1 directory, 2 requests under way, 2 requests that set something |
| `MCLifecycle` | does the share open populated, are only the rows of missing objects removed, do the rows come to agree, and is it all a behaviour of `S3Sync`? | 2 paths, sizes 1 and 2, 2 puts by others, 2 deaths |
| `MCGateway` | what does the synchronisation add to the ways to lose a close? | 1 path, 1 handle, 2 inodes, 2 versions, failing database, 1 crash |

`Durable` is about one path at a time, and actions of different paths touch no
common state except the daemon's list, so one path is enough to break it; two
handles are needed because every race is between a handle and the daemon or
between two handles. Version 1 is what an earlier synchronisation found, so
`MaxWrites = 3` leaves two writes, one before and one after the step that is
raced. One crash suffices because a crash clears all volatile state. For the
chunk cache two readers give every overlap of a download with another reader, and three
chunks are one more than the two that a limit of one and a further reader allow. A second
node, which is a second Lookup of the path with an entry of its own, is left to the
theorem `FreshOnce`.
`MCBound` in `MCFaults` and `MCGateway` stops where the only path is raced, for it stays
so and the property is silent from there on.
For the synchronisation two objects make two pages, and two puts one before and
one after a page; two deaths allow one in each of the two phases of a life. A rename
is between two names; that the second of them is free, has an object, waits or does
both are initial states (`InitWaiting`). `MCRename` leaves out
Attr (`MCWriteOnce`, `MCFaults` and `MCGateway` have it); its `MCBound` lets only the daemon
work after a crash, and stops where both names are raced, for they stay so. A lost update
needs two writers, of which the synchronisation
may be one; `MCBound` in `MCAttributes` leaves out the third, and stops at the
second path on which an update is lost. In `MCNamespace` two changes give each
request or failure one rival; the synchronisation, the daemon and the steps of a
request are not counted. `MaxDrift` bounds the size counter
(reads and invalidations stop there); `MaxVersion`, `MaxWrites` and `MaxCrashes`
bound their counters.

`DurableUnlessRaced` needs its exception: `raced` holds the paths on which one
of five named races has happened.

- `CopyRace`: the first write of a handle fetches the object over newer data.
- `MarkRace`: the daemon marks a row clean that is not what it uploaded. Either the
  staging file has changed since it was read, or the object has been removed since it
  was put, and a Flush in between has promised the content anew.
- `UnlinkRace`: Release or the sweep takes a staging file, or its path in the row,
  that waits or is held open.
- `TruncateRace`: Create empties a staging file that a handle of the removed file of
  that name still holds.
- `LostFlush`: Flush reports success and the row is not what it asked for: the database
  has refused it, or an Attr has replaced the entry that Flush was filling in
  (`fs.go:1201-1206` against `fs.go:796`; with `TornFlush`).

The runs show that this list of ways to lose a close is complete for the modelled
operations on their instances, and the theorem `UnlessRaced` that it is for every
instance. The list was not complete before there was a proof: the second case of
`MarkRace` needs a removal that is answered with an error, a write of a third
version and a daemon half-way through its upload (TLC meets it with one handle,
three versions and no operation but rewriting and removing, 963,696 states), and
`TruncateRace` needs two nodes, two handles and a removal, for which TLC finds the
loss if that race is not noted, but cannot exhaust the instance (more than eleven
million states). In `MCGateway` the synchronisation adds two more: `PurgeRace`, the
deletion of the row of a file that waits, and `DropRace`, the removal of a staging
file whose row was clean when it was read.

A run that finds a disagreement between the code and what a comment says of it:

| Run | What the comment says | What happens |
|---|---|---|
| `MCReconcile` | the daemon uploads later (`fs.go:1164`); what has *no longer* an object is removed (`sync.go:54`) | the row of a file that waits for its first upload is deleted: it has no object *yet* |

### Known divergences

These were met while modelling and follow from the actions as they are written;
they have no standing run, because each is one of the races that a property names,
or follows from few steps.

Write-back and chunk cache:

- "The background writeback daemon handles the S3 upload later" (`fs.go:1164`): the
  goroutine that the first write starts (`fs.go:1149`) stores the size seen then, at
  any later time. After the Flush of a longer file the row has a size that is not
  that of the staging file, every upload is refused, and the row stays dirty. This
  is why `NeverStuck` speaks of rows whose size is right. A resize
  (`SetattrSize`) does the same.
- "If the file is dirty locally [...] we use the local staging file" (`fs.go:899`):
  the first write of the next handle copies the object over it (`CopyRace`).
- "so no concurrent reader can serve stale S3 chunks" (`fs.go:1188`): a reader with
  an older entry downloads the chunk again after the invalidation and before the
  upload, and the upload invalidates nothing (`Claim` after `Flush`, then `Upload`).
- Use the staging file, from a write or retained (`fs.go:1024`): an Attr reads the row of
  a new file and waits for HeadObject (`fs.go:769`); the file is written and closed, and
  a second handle opens with the staging file; HeadObject finds nothing, Attr stores the
  entry it read before (`fs.go:796`), and the second handle, which decides by that
  entry (`fs.go:1025`), reads from the bucket, where there is nothing yet: 0 bytes.
  TLC finds this trace with one node, two handles and two versions when
  `FreshUnlessPutBack` loses its exception `PutBack`.
- Upload succeeded, mark as clean (`uploader.go:119`): a Flush during the upload
  is marked clean with it (`MarkRace`).
- Create makes an empty staging file (`fs.go:406`): after a removal the old one is
  still there, and handles that hold it lose what they wrote (`TruncateRace`).
- Remove the staging file only if not marked (`fs.go:1228`): the mark may be set
  between the check and the removal (`UnlinkRace`).
- Flush marks the row (`fs.go:1163`): if the database refuses, Flush succeeds
  without a mark (`LostFlush`).
- Keep the file for fast local reads (`uploader.go:120`): the next Release
  removes it and leaves its path in the row; `DanglingHealed` says for how long.
- The original is fetched first (`fs.go:1100`): if that fails, the write goes on
  without it (`FetchCopy` with any length).
- No deletion that re-appears (`fs.go:460`): an upload in flight brings a
  removed object back (`PutOk` after `RemoveObject`).
- Stats returns the current size (`manager.go:419`): a chunk downloaded twice is
  counted twice. There is enough space (`manager.go:274`): two downloads use
  the same room; `Bounded` says how much that costs. It also counts as free what
  `os.Remove` did not remove (`manager.go:294`), and the files it then leaves are
  beyond any limit.
- `InvalidateFile` "removes all cached chunks for a specific file" (`manager.go:373`):
  a removal that fails leaves the chunk where readers find it, and nobody is told.
- LRU keys are not file system paths (`manager.go:401`): after a restart they
  are, and InvalidateFile leaves these entries in the list.
- Zero means unlimited (`config.go:38`): zero evicts everything at every
  download (`manager.go:280`).
- The local size survives a synchronisation (`sync.go:164-166`) and the staging
  path is reset (`sync.go:184`): a Flush between the check and the update has
  its size overwritten, and an update by struct leaves fields that are zero as
  they were, so the path stays; the sweep clears it. For the same reason an
  object that others replace with an empty one keeps its old size in the row,
  which is why `ObjectSizes` has no zero in `MCLifecycle`.

Names:

- A removed directory comes back (`fs.go:459-463` speaks of deletions that
  "re-appear after the next sync"): `CreateDirectory` puts the key `dir/`,
  Remove deletes the key `dir`, and the next synchronisation lists the marker
  (`RemoveObject`).
- Rename of a directory moves its row only (`fs.go:519-536`): rows and objects below
  stay under the old path, where the synchronisation makes directories again.
- "direct children only" (`sqlite.go:86`): LIKE takes `_` and `%` in a name for any
  character and ignores case, so that the children of `a1` are listed in `a_` too and
  an empty directory may be refused to go (`Like`). A rename onto a directory does
  not ask at all whether it is empty.
- A directory whose objects others delete stays (`sync.go:242`), which is intended;
  nothing ever removes it but Remove.

Attributes:

- "Convert []byte values to base64 strings" (`models.go:43`): no base64 is used, and
  `json.Marshal` replaces bytes that are not UTF-8, so a binary value, as the ACLs
  of Samba are, is read back changed (`Stored`).
- A chown of one half of an owner that was never set makes the other half 0
  (`fs.go:840`), and so does the removal of one half by Removexattr.
- "Carry over existing xattrs" (`sync.go:198`): an upsert with a nil map leaves the
  column alone; carrying it over is what loses an update that came in between.

Process:

- "syncs the S3 bucket lazily in the background while the OS mounts the filesystem
  immediately" (`README.md:8`): with `sync_on_start` the mount waits for the
  synchronisation (`main.go:161-196`, and `README.md:56`); `PopulatedFirst` rests on that.
- "Non-fatal: log-worthy but don't abort the whole sync" (`sync.go:233`): the error is
  returned, and at the start it ends the process (`StartupFails`, `main.go:191`).

### Fairness

`WriteBack!Fairness`: the daemon's goroutine takes its steps (the ticker keeps
ticking and each call returns), the goroutine of a Write runs, time passes, and
an upload that is tried again and again with the right length is accepted some
time (strong fairness of `PutOk`; the daemon retries at each tick). Nothing is
assumed of applications. `ChunkCache!Fairness`: a goroutine in `ensureChunk`
takes its next step; a request to the bucket returns, with data or with an
error, because the caller's context ends it. No assumption is made on which.
`Lifecycle!LifeFairSpec`: the service manager starts the process (`Restart=on-failure`
in the unit that `Makefile:42` installs; after a shutdown that was asked for, an
administrator does), the process goes on, and a listing that is tried again and
again is answered to its end some time: the ticker tries for ever, and a process
that fails at its start is started again. `MaxDeaths` bounds deaths, not failures or
timeouts: a process that dies in every run converges to nothing. The periodic
synchronisation is taken to be configured (`sync_interval` > 0); without it there is
nothing to converge. `Namespace!FairSpec`: the goroutine takes its steps; failures
are bounded by `MaxChanges` for the same reason. Nothing is assumed of requests: one
that never returns would block names, not the synchronisation.

## What is proved

All theorems hold for every value of the constants that the named assumptions
allow, and are checked by TLAPS down to the last step.

- `WriteBackTypes!TypeSafe`, `TypeCorrect`. Types alone are not inductive: that
  `Path(h)` is a path needs a handle to have a node, that `data[ino]` is a
  content needs the daemon to have an inode. `TypeInv` adds the shape of a
  handle and of the daemon at each `pc` (`HandleShape`, `DaemonShape`). One
  lemma per action states its effect on types; the step lemma joins them.
- `WriteBackProofs!DurableOnce`: if the workload neither rewrites nor resizes,
  the database does not fail and no Flush is torn (`WriteOnce`), `Durable` always holds. The
  inductive invariant `DurableInv` has a part per actor: what a row of a path
  in each phase may say, who may hold a staging file, what a node may believe,
  that a handle writes only before the first Flush of its path, that what the
  daemon lists, reads and puts is the acknowledged content, and that it removes
  only files whose content is in the bucket. Without a rewrite the daemon's old
  listings stay true, which is the heart of the argument, and what fails when
  one of the races of `DurableUnlessRaced` happens. TLC agrees: `MCWriteOnce` checks
  `Durable` on this workload.
- `WriteBackProofs!KeepsPromisesOnce`: under the same assumption `WriteBack` implements
  `Promises`. A step of the handlers that is seen there is a close or a removal; of
  the daemon only `PutOk` and the part of `PutFail` whose reply is lost are seen, and
  what they put is, by the daemon's part of `DurableInv`, the acknowledged content.
- `WriteBackProofs!FreshOnce`: `FreshUnlessPutBack` under the same assumption.
  Without its exception it does not hold (known divergences, `fs.go:796`). A handle may
  read the staging file or the bucket, and which of them has the content changes
  under it; the entry it decides by may come from any earlier reading of the row.
  `FreshInv` says where each who read the row after the close will look, entries on
  their way in an Attr included: one that saw no staging file implies an object
  (`SeenInv`), and so does a handle without an inode; a handle with one holds what was
  promised, linked or not (`ReadInv`). It rests on `PathsLast`: what is in the bucket
  stays covered until a removal.
- `WriteBackRaces!UnlessRaced`: `DurableUnlessRaced` for every workload, with a
  database that fails. Of a path that is not raced, `RaceInv` says that a dirty row
  names the content promised and a clean one means it is uploaded (`KeptInv`); that
  handles in use hold the linked inode, and a Flush has read what is still there
  (`HeldInv`); that what the daemon has listed for upload is dirty until it marks it
  (`UploadInv`). Of all paths: an inode belongs to one path and its handles
  (`LinkedInv`), versions in use have been handed out (`WrittenInv`), a removal
  under way promises nothing (`RemovedInv`), and what was put is in the bucket until it
  is marked, unless it has been removed (`PutInv`). Each action is shown to keep a path
  (`Keeps`) or to be noted as a race on it. The lemmas are stated for any set of
  handles that do not follow the rule and any contents that do not count, so that the
  compositions below can use them; here there are none but contents without data.
- `CompositionProofs!GatewayUnlessRaced`: the same for `Gateway`. The lemmas above take any
  step that notes its races; what is left is the synchronisation, whose `Upsert` never
  clears a flag, whose `DeleteRow` is noted where the row is dirty, and whose
  `DropStaging` relies on a row that was clean when it was read (`RunInv`).
- `CompositionProofs!RenameHonouredAlways`: `RenameHonoured` for any number of files,
  nodes, handles, renames and crashes, any workload, and with a database and a bucket
  that fail. Nothing of `WriteBack` alone is inductive here. The old path has no row
  while its staging file may be the only copy, so `KeptR` says of a file in transit
  that it is carried: its object is there and about to be copied, or the handler will
  find the staging file that covers the promise (`Carries`). `MovingInv` is what the
  handler knows: that it has noticed edits that wait (`pending`), that nothing waits
  under the new name after the row has moved, and that the new row is clean, or a race
  has been noted. Handles of either name hold a file that is not theirs any more: they
  are set aside as `Strays`, and their closes are `StaleFlush`. And the daemon may have
  put a file that is copied over before it is marked; such a content does not count as
  waiting (`Outdated`). The steps beside a rename follow from the lemmas of
  `WriteBackRaces` for these handles and contents (`OthersInv`), each step of the
  handler has a lemma of its own (`StartMove` ... `SizeMove`), and a crash is
  `RestartInv`. The constants are assumed to have two versions (`MaxWrites` of at
  least 2, for the files that `RenameInit` starts with) and `None` not to be a
  request.
- `AttributesProofs!AttributesKeptAlways`: for any paths, values and number of requests
  under way. `Rows` says of the table, beside the property, that uid and gid are there
  together and that a path without a row has nothing; `Handlers` says the same of the
  columns that have been read. Every write is a `Put` or a `Forget`, each shown to keep
  `Rows` once.
- `NamespaceProofs!AlwaysRooted`: for any tree, order of keys and LIKE. Rows come and
  go in four ways, each shown to keep `Rooted` under a condition; the invariant has one
  conjunct for each: `Emptied` (below a directory that is about to lose its row all is
  raced), `Ready` (the new name of a rename keeps its directories), `Reached` (the
  synchronisation has seen the directories of what it stores).
- `ChunkCacheProofs!OneDownload` and `NobodyWaitsInVain`: `SingleFlight` and
  `Awaited` for any number of readers and chunks. Each is needed for the
  induction of the other; the module's header says how.
- `ChunkCacheProofs!AlwaysEvictable`: `Evictable` for any limit and everything that
  invalidates. The LRU list has entries under two kinds of key after a restart;
  `Filed` says that an entry's path belongs to its key, so that an entry which leaves
  the list (Space, Evict, InvalidateFile) leaves it with its file or adds that file to
  `refused` (`RemoveEffect`), and one that is not found is added. `ChunkTypes` is the type
  invariant it rests on.
- `ChunkCacheProofs!CountsAll` and `StaysBounded`: `NeverUndercounts` and `Bounded` when
  nothing is invalidated (`NothingInvalidated`), the latter with a limit of at least
  one. InvalidateFile subtracts temporary files that were never counted, so without
  that assumption the counter falls behind. The list is never longer than the counter
  (`CountInv`) and has all removable files, which gives the first. For the second, those
  files and
  readers that were given room are together at most the limit and one per further
  reader (`RoomInv`): a reader that is given room found the counter below the limit.
- `LifecycleProofs!PurgesGone`: `PurgesOnlyGone` of `S3Sync`, for any number of files
  and pages. The invariant `RunInv` sorts every path of a run into four classes: still to
  be listed, on the page, met, or without an object at some time of the run.
  When the listing is over the first two are empty. Nothing of the kind holds of
  rows that have no object yet, which is `MCReconcile`.
- `LifecycleProofs!LifecycleImplements`: each step of the process is a step of `S3Sync`
  or a stutter, so `PurgesOnlyGone` carries over (`LifecyclePurgesGone`).
  `Populated`, that is `PopulatedFirst`, needs one more invariant, `Met`: each
  object that the run has met has a row, is being processed, or was missing at some
  time; with `RunInv`, that is every object when the listing is over.

Only model-checked: the liveness properties `DanglingHealed`, `NeverStuck`,
`ReadEnds`, `Converges` and `EverythingShown` (fairness is out of the prover's
reach). Every invariant that a passing run checks is a theorem, under the assumptions of that
run where it makes any: `Durable`, `FreshUnlessPutBack` and `KeepsPromises` for files written
once, because the races break them otherwise, and the count and limit of the chunk
cache when nothing is invalidated.

## What is left out

- Loss of power. A crash is the death of the process; the page cache and the
  database survive. `Sync` in Flush has no effect here.
- The bytes of an upload are one atomic read: the SDK hashes the body before it
  sends it and the bucket refuses a body with another hash or length, so that a
  file changed between the two readings is refused (`PutFail`).
- What GORM does when `Assign` and `FirstOrCreate` get the same pointer: see the
  assumption at the top.
- A node has one Attr or Setattr under way at a time, and a Setattr reads the row back
  in the step of its update; a row read later is that of an Attr. `TornFlush` is a
  choice of `MCFaults` and of the proofs of the races; the statements about files
  written once exclude it, since a torn Flush loses what it promised.
- Attributes of files (Attr) in `MCRewrite`, `MCLive` and `MCRename`, for their size;
  the other runs and all the theorems have them.
- The kernel serialises Create and Remove of one name; a second handler for a
  handle waits for the first (`h.mu`, `fetchOnce`).
- `InvalidateFile` is atomic, although a download may rename a file in the
  directory while it is listed: the outcome is one of a step before or after.
- All chunks have the same size, the last one of a file too.
- In the synchronisation: `ClearExisting` (no caller sets it), and a HeadObject that
  fails when a listed size above 1 GB is to be verified.
- In `Namespace`: contents and dirty rows (in `Rename` and `Gateway`); `is_dir`, which an
  upsert never resets, because a name is a file or a directory for good; nodes that
  outlive the rename of a directory above them. Rows of files whose daemon upload ends
  after their removal appear as a foreign put.
- In `Rename`: renames of directories (in `Namespace`), the chunk invalidation, a second
  node for a file, and the use of an inode that the rename has open for a new file.
- In `Attributes`: a file node's later answers from its cached entry, and that a
  `Setattr` may change size and mtime in the same update (in `FileHandles`).
- In `Lifecycle`: a process that fails before its first synchronisation, when nothing has
  started yet.
- In `Gateway`: puts and deletions by others, whose conflicts with local edits
  the code resolves by "the last one wins".

## Not modelled

- Configuration, logging, scripts and packaging: reading, defaulting, printing and
  installation keep no state that the properties could be about.
- Keys as strings: prefix, escaping (`GetFullKey`, `encodePath`) and the path helpers.
  A path is a model value, and that two paths have two keys and two staging names is
  an assumption of every module. `SyncFromS3` takes a listed key under another prefix
  that begins the same for its own; that needs strings to say.
- Offsets inside a block or chunk, and with them the loop of `ChunkManager.Read` over
  the chunks of one request; every turn of the loop is a read of `ChunkCache`.
- Calls that nothing makes: `DeleteEntriesWithPrefix`, `Clear`, `ListObjects`,
  `ObjectExists`.
- The kernel's own caches of names and attributes.

## What remains

- A composition of `Namespace` with `Rename`, for which TLC has no room: contents and
  trees are checked apart.
