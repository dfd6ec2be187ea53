------------------------------ MODULE Gateway ------------------------------
(***************************************************************************)
(* The write-back cache and the synchronisation from the bucket together:  *)
(* the goroutine of the synchronisation runs beside the requests and the   *)
(* daemon, on the same rows and staging files.  Nobody else writes to the  *)
(* bucket.  The mtime of a row, which applications set too, may be before  *)
(* or after the time of the object.                                        *)
(***************************************************************************)
EXTENDS WriteBack

VARIABLES syncPc, unlisted, page, item, existing, keys, doomed

S == INSTANCE S3Sync WITH ObjectSizes <- {}, gone <- {}

syncState == <<syncPc, unlisted, page, item, existing, keys, doomed>>
gatewayVars == <<vars, syncState>>

GatewayInit == Init /\ S!SyncInit

Synchronise ==
  /\ \E newer \in BOOLEAN : S!SyncStep(newer)
  /\ UNCHANGED <<handleVars, daemonVars, phase, crashes>>

Restart == Crash /\ S!RunOver

\* The synchronisation removes a row that waits for the daemon.
PurgeRace(p) == Dirty(p) /\ row'[p] = None

\* It takes the staging file of a row that was clean when it was read, and has
\* pending edits or an open handle by now.
DropRace(p) ==
  /\ (Dirty(p) /\ ~existing.dirty) \/ Holders(p) # {}
  /\ link[p] # None /\ link'[p] = None

SyncRace(p) == (syncPc = "delete" /\ PurgeRace(p)) \/ (syncPc = "drop" /\ DropRace(p))

\* DurableUnlessRaced is checked of this composition: beside a synchronisation
\* that examines, updates and deletes rows at any time, a close is lost only
\* through one of the five races of WriteBack or one of these two.
GatewayNext ==
  \/ (Requests \/ WriteBackStep \/ Clock) /\ NoteRaces /\ UNCHANGED syncState
  \/ Synchronise /\ raced' = raced \cup {p \in Paths : SyncRace(p)}
  \/ Restart /\ UNCHANGED raced

GatewaySpec == GatewayInit /\ [][GatewayNext]_gatewayVars
=============================================================================
