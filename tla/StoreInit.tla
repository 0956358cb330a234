------------------------------ MODULE StoreInit ------------------------------
(***************************************************************************)
(* SQLiteCodexPilotInitialClaimStore.__init__ (dev/codex_claim_store.py):  *)
(* several processes open the same claim store, which may be absent, made  *)
(* by this version, made by version 1, or left behind half made.           *)
(*                                                                         *)
(* Every question an opener asks of the file is an action of its own: the  *)
(* stat, the read of the schema against version 2 and again against        *)
(* version 1, and the check that is repeated under the lock.  The claims   *)
(* in the file are the attempts of the initial table; current holds the    *)
(* attempts that have a row in the current snapshots table, which version  *)
(* 1 did not have.                                                         *)
(***************************************************************************)
EXTENDS FiniteSets

CONSTANTS
  Openers,    \* processes that may open a store
  Stores,     \* paths
  Attempts,   \* attempt identities
  OldAttempts,  \* those that version 1 may have recorded
  None

VARIABLES
  file,     \* what is at each path: absent, empty, v1 or v2
  lock,     \* the opener that holds RESERVED on each file
  hot,      \* the files that have a hot journal beside them
  initial,  \* the attempts claimed in each file
  current,  \* the attempts that have a current snapshot in each file
  path,     \* the path each opener was given
  opening   \* how far each opener has got

files == <<file, lock, hot, initial, current>>
storeVars == <<files, path, opening>>

(* A store is not there yet, or it is one that version 1 left with claims *)
(* in it.                                                                  *)
StoreInit ==
  /\ file \in [Stores -> {"absent", "v1"}]
  /\ lock = [s \in Stores |-> None]
  /\ hot = {}
  /\ initial \in [Stores -> SUBSET OldAttempts]
  /\ \A s \in Stores : file[s] = "absent" => initial[s] = {}
  /\ current = [s \in Stores |-> {}]
  /\ path = [p \in Openers |-> None]
  /\ opening = [p \in Openers |-> "idle"]

At(p, stage) == opening[p] = stage

GoesTo(p, stage) == opening' = [opening EXCEPT ![p] = stage]

Free(s) == lock[s] = None

Released(p) == [s \in Stores |-> IF lock[s] = p THEN None ELSE lock[s]]

(* The constructor is called with a path.                                  *)
OpenStore(p, s) ==
  /\ At(p, "idle")
  /\ path' = [path EXCEPT ![p] = s]
  /\ GoesTo(p, "stat")
  /\ UNCHANGED files

(* Whether the file exists decides everything that follows.                *)
Stat(p) ==
  /\ At(p, "stat")
  /\ GoesTo(p, IF file[path[p]] = "absent" THEN "create" ELSE "inspect")
  /\ UNCHANGED <<files, path>>

(* Plausible bug: the file is created without O_EXCL.                      *)
CreateInclusive(p) ==
  /\ At(p, "create")
  /\ file' = [file EXCEPT ![path[p]] = "empty"]
  /\ GoesTo(p, "made")
  /\ UNCHANGED <<lock, hot, initial, current, path>>

(* os.open with O_CREAT and O_EXCL: the second of two creators fails.      *)
CreateExclusive(p) ==
  /\ At(p, "create")
  /\ file[path[p]] = "absent"
  /\ file' = [file EXCEPT ![path[p]] = "empty"]
  /\ GoesTo(p, "made")
  /\ UNCHANGED <<lock, hot, initial, current, path>>

BeginCreation(p) ==
  /\ At(p, "made")
  /\ file[path[p]] = "empty"
  /\ Free(path[p])
  /\ lock' = [lock EXCEPT ![path[p]] = p]
  /\ GoesTo(p, "making")
  /\ UNCHANGED <<file, hot, initial, current, path>>

(* The read-only connection cannot roll a hot journal back, so it fails    *)
(* on one; a file of any other shape is compared with version 1 next.      *)
InspectV2(p) ==
  LET s == path[p] IN
  /\ At(p, "inspect")
  /\ GoesTo(p, CASE s \in hot -> "failed"
                 [] s \notin hot /\ file[s] = "v2" -> "open"
                 [] OTHER -> "inspect_v1")
  /\ UNCHANGED <<files, path>>

InspectV1(p) ==
  LET s == path[p] IN
  /\ At(p, "inspect_v1")
  /\ GoesTo(p, IF s \notin hot /\ file[s] = "v1" THEN "migrate" ELSE "failed")
  /\ UNCHANGED <<files, path>>

(* The migrating connection may write, so it rolls a hot journal back; it  *)
(* looks again under the lock, and fails if another one has migrated.      *)
BeginMigration(p) ==
  LET s == path[p] IN
  /\ At(p, "migrate")
  /\ Free(s)
  /\ hot' = hot \ {s}
  /\ IF file[s] = "v1"
     THEN lock' = [lock EXCEPT ![s] = p] /\ GoesTo(p, "migrating")
     ELSE UNCHANGED lock /\ GoesTo(p, "failed")
  /\ UNCHANGED <<file, initial, current, path>>

Made(s) ==
  /\ file' = [file EXCEPT ![s] = "v2"]
  /\ UNCHANGED <<initial, current>>

(* Plausible bug: the new table is left empty.                             *)
MigratedEmpty(s) ==
  /\ file' = [file EXCEPT ![s] = "v2"]
  /\ UNCHANGED <<initial, current>>

(* The current snapshots start as a copy of the initial ones.              *)
Migrated(s) ==
  /\ file' = [file EXCEPT ![s] = "v2"]
  /\ current' = [current EXCEPT ![s] = initial[s]]
  /\ UNCHANGED initial

Applied(p) == IF At(p, "making") THEN Made(path[p]) ELSE Migrated(path[p])

InTransaction(p) == opening[p] \in {"making", "migrating"}

CommitOpening(p) ==
  /\ InTransaction(p)
  /\ Applied(p)
  /\ lock' = Released(p)
  /\ GoesTo(p, "open")
  /\ UNCHANGED <<hot, path>>

(* COMMIT reports an error: it was applied, or it was not.                 *)
CommitOpeningUncertain(p) ==
  /\ InTransaction(p)
  /\ Applied(p) \/ UNCHANGED <<file, initial, current>>
  /\ lock' = Released(p)
  /\ GoesTo(p, "failed")
  /\ UNCHANGED <<hot, path>>

(* The process dies in COMMIT and leaves a hot journal.                    *)
CommitOpeningCutShort(p) ==
  /\ InTransaction(p)
  /\ hot' = hot \cup {path[p]}
  /\ lock' = Released(p)
  /\ GoesTo(p, "dead")
  /\ UNCHANGED <<file, initial, current, path>>

Underway(p) == opening[p] \notin {"idle", "open", "failed", "dead"}

(* Any call fails: the transaction is rolled back, and the constructor     *)
(* raises whatever the cause.  A file that was created stays.              *)
OpeningFails(p) ==
  /\ Underway(p)
  /\ lock' = Released(p)
  /\ GoesTo(p, "failed")
  /\ UNCHANGED <<file, hot, initial, current, path>>

(* The process dies: its transaction is lost with its locks.               *)
OpenerDies(p) ==
  /\ lock' = Released(p)
  /\ GoesTo(p, "dead")
  /\ UNCHANGED <<file, hot, initial, current, path>>

OpeningStep(p) ==
  \/ Stat(p)
  \/ CreateExclusive(p)
  \/ BeginCreation(p)
  \/ InspectV2(p)
  \/ InspectV1(p)
  \/ BeginMigration(p)
  \/ CommitOpening(p)
  \/ CommitOpeningUncertain(p)
  \/ OpeningFails(p)

(* A store that was opened has the tables of this version, and every claim *)
(* in it has a current snapshot: whoever created or migrated the file, and *)
(* whatever others did meanwhile, did all of it (_initialize_database,     *)
(* _migrate_v1_database).                                                  *)
OpenStoresAreWhole ==
  \A s \in Stores :
    /\ (\E p \in Openers : path[p] = s /\ At(p, "open")) => file[s] = "v2"
    /\ file[s] = "v2" => current[s] = initial[s]
    /\ file[s] \in {"absent", "empty"} => initial[s] = {}

=============================================================================
