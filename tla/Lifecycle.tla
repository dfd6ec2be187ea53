----------------------------- MODULE Lifecycle -----------------------------
(***************************************************************************)
(* The life of the gateway process: it starts, synchronises before it      *)
(* mounts if it is told to, serves the share while the synchronisation     *)
(* runs periodically, and dies at any time.  The service manager starts it *)
(* again; database and bucket are as they were.                            *)
(*                                                                         *)
(* "up" is from the start of the periodic synchronisation on: the mount    *)
(* follows at once, and one that fails is a death, as is a signal.         *)
(***************************************************************************)
EXTENDS S3Sync

CONSTANT MaxDeaths

Config == [syncOnStart : BOOLEAN, timeout : BOOLEAN]   \* timeout: sync_start_timeout > 0

ASSUME LifecycleAssumption == MaxDeaths \in Nat

VARIABLES
  config,
  life,    \* "down", "sync" during the synchronisation before the mount, or "up"
  late,    \* the time of that synchronisation is over: syncCtx.Err() is DeadlineExceeded
  deaths

lifeVars == <<allVars, config, life, late, deaths>>

LifeInit ==
  /\ Init
  /\ config \in Config /\ life = "down" /\ late = FALSE /\ deaths = 0

\* Faulty: the first synchronisation runs in the background.
StartInBackground ==
  /\ life = "down" /\ life' = "up" /\ late' = FALSE
  /\ IF config.syncOnStart THEN SyncStart ELSE UNCHANGED <<storageVars, syncVars>>
  /\ UNCHANGED <<config, deaths>>

Start ==
  /\ life = "down" /\ late' = FALSE
  /\ IF config.syncOnStart
       THEN SyncStart /\ life' = "sync"
       ELSE life' = "up" /\ UNCHANGED <<storageVars, syncVars>>
  /\ UNCHANGED <<config, deaths>>

\* The synchronisation before the mount goes on.
StartupStep ==
  /\ life = "sync"
  /\ SyncStep(FALSE) /\ syncPc' # "idle"
  /\ UNCHANGED <<config, life, late, deaths>>

StartupDone ==
  /\ life = "sync"
  /\ SyncDone
  /\ life' = "up"
  /\ UNCHANGED <<config, late, deaths>>

\* Faulty: a timeout of zero seconds is one.
TimeOutAlways ==
  /\ life = "sync" /\ ~late
  /\ late' = TRUE
  /\ UNCHANGED <<storageVars, syncVars, config, life, deaths>>

TimeOut ==
  /\ life = "sync" /\ config.timeout /\ ~late
  /\ late' = TRUE
  /\ UNCHANGED <<storageVars, syncVars, config, life, deaths>>

\* Faulty: what was met so far is reconciled when the time is over.
ExpiredReconciles ==
  /\ late /\ syncPc = "list"
  /\ syncPc' = "reconcile" /\ unlisted' = {}
  /\ UNCHANGED <<storageVars, page, item, existing, keys, doomed>>

\* Every call made with the context fails once the time is over.
Expired == late /\ syncPc # "drop" /\ Stopped

\* It fails.  The time being over, the gateway serves what it has, whatever the
\* error was; otherwise it gives up, for an error of the reconciliation too.
StartupFails ==
  /\ life = "sync"
  /\ ListFails \/ Expired \/ ((Reconcile \/ \E old \in BOOLEAN : Upsert(old)) /\ syncPc' = "idle")
  /\ life' = IF late THEN "up" ELSE "down"
  /\ UNCHANGED <<config, late, deaths>>

Periodic ==
  /\ life = "up"
  /\ SyncStep(FALSE)
  /\ UNCHANGED <<config, life, late, deaths>>

Die ==
  /\ life # "down" /\ deaths < MaxDeaths
  /\ life' = "down" /\ late' = FALSE /\ deaths' = deaths + 1
  /\ RunOver
  /\ UNCHANGED <<storageVars, config>>

Foreign ==
  /\ \E p \in Paths : ForeignDelete(p) \/ \E s \in ObjectSizes : ForeignPut(p, s)
  /\ UNCHANGED <<config, life, late, deaths>>

Work == Start \/ StartupStep \/ StartupDone \/ StartupFails \/ Periodic

LifeNext == (Work \/ TimeOut \/ Die \/ Foreign) /\ NoteGone

LifeSpec == LifeInit /\ [][LifeNext]_lifeVars

\* The service manager starts the gateway, which goes on, and a listing tried
\* again and again is at last answered to its end.
Listed == ListPage(unlisted) /\ life # "down" /\ UNCHANGED <<config, life, late, deaths>> /\ NoteGone

LifeFairSpec == LifeSpec /\ WF_lifeVars(Work /\ NoteGone) /\ SF_lifeVars(Listed)

-----------------------------------------------------------------------------
\* Every variable has its type, and a run has a process.
LifeTypeOK ==
  /\ TypeOK
  /\ config \in Config /\ life \in {"down", "sync", "up"} /\ late \in BOOLEAN /\ deaths \in 0 .. MaxDeaths
  /\ life = "down" => syncPc = "idle"
  /\ life = "sync" => syncPc # "idle" /\ config.syncOnStart
  /\ late => config.timeout

\* The share opens with everything that was in the bucket all through the
\* synchronisation, unless its time was over, in spite of pages, failures,
\* deaths and other clients ("every SMB client gets a consistent,
\* fully-populated directory listing from the very first connection").
PopulatedFirst ==
  [][life # "up" /\ life' = "up" /\ config.syncOnStart /\ ~late
       => \A p \in Paths : p \in gone \/ row'[p] # None]_lifeVars

\* The life of the process adds nothing to what S3Sync says of the rows.
ImplementsS3Sync == Spec
=============================================================================
